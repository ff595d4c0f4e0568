---------------------- MODULE PriorityTierExecutorProofs ----------------------
(***************************************************************************)
(* PriorityTierExecutor for any workers, requests and priorities.          *)
(*                                                                         *)
(* That a task runs once is not inductive: it rests on a future having one *)
(* place at a time, not submitted, pending, with one worker or settled     *)
(* (Futs), and on what is pending being in the heap (Queued).  That no     *)
(* worker sleeps beside a task needs a count of the sleepers who are not   *)
(* notified against the tasks nobody is on the way to (Works).  Only the   *)
(* running table needs that callers keep request ids apart (Tables).       *)
(***************************************************************************)
EXTENDS PriorityTierExecutor, FiniteSetTheorems, WellFoundedInduction, TLAPS

\* The lazy deletion: what is pending is in the heap, under its own id.
Queued == \A r \in DOMAIN pending : pending[r] \in heap /\ pending[r].req = r /\ pending[r].live

\* A future has one place: it is not submitted yet, pending, with one worker, or settled.
Holders == At({"claimed", "busy", "leaving"})
Futs ==
    /\ \A f \in Futures : f >= submits => future[f] = "none"
    /\ \A r \in DOMAIN pending :
         pending[r].fut < submits /\ future[pending[r].fut] \in {"pending", "cancelled"}
    /\ \A q, r \in DOMAIN pending : q # r => pending[q].fut # pending[r].fut
    /\ \A w \in Holders : job[w] \in Entry /\ job[w].fut < submits
    /\ \A v, w \in Holders : v # w => job[v].fut # job[w].fut
    /\ \A w \in Holders, r \in DOMAIN pending : job[w].fut # pending[r].fut
    /\ \A w \in At({"claimed"}) : future[job[w].fut] \in {"pending", "cancelled"}
    /\ \A w \in At({"busy"}) : future[job[w].fut] = "running"
    /\ At({"dead"}) = {}

\* The running table names every worker's request, if callers keep ids apart.
Tables ==
    UniqueIds =>
      /\ DOMAIN pending \cap DOMAIN running = {}
      /\ \A w \in Holders : job[w].req \in DOMAIN running
      /\ \A v, w \in Holders : v # w => job[v].req # job[w].req

Drains ==
    /\ isShutdown => At({"waiting"}) = {}
    /\ DrainedBeforeExit

Works == IsFiniteSet(Current) /\ WorkConserving

\* The scores in the tables have an upper bound, so that the greatest exists.
Entries == {pending[r] : r \in DOMAIN pending} \cup {running[r] : r \in DOMAIN running}
Bounded == \E b \in Nat : \A e \in Entries : e.prio.score <= b

ExecInv ==
    TypeOK /\ Queued /\ Futs /\ Tables /\ Drains /\ Works /\ Bounded /\ OutrankedIsAsked

-----------------------------------------------------------------------------
\* A set of naturals with a bound has a greatest element.
LEMMA HasMax ==
    ASSUME NEW b \in Nat, NEW S, \A s \in S : s \in Nat /\ s <= b, S # {}
    PROVE  \E s \in S : \A t \in S : t <= s
<1> DEFINE T == {b - s : s \in S}
           R == OpToRel(<, Nat)
<1>1. T \subseteq Nat
  OBVIOUS
<1>2. T # {}
  <2>1. PICK s \in S : TRUE
    OBVIOUS
  <2>2. b - s \in T
    OBVIOUS
  <2>3. QED
    BY <2>2
<1>3. IsWellFoundedOn(R, Nat)
  BY NatLessThanWellFounded, Zenon
<1>4. \A x, y \in Nat : y < x => <<y, x>> \in R
  BY DEF OpToRel
<1> HIDE DEF R
<1>5. PICK x \in T : \A y \in T : ~(<<y, x>> \in R)
  BY <1>1, <1>2, <1>3, WFMin
<1>6. \A y \in T : ~(y < x)
  BY <1>1, <1>4, <1>5
<1>7. PICK s \in S : x = b - s
  OBVIOUS
<1>8. ASSUME NEW t \in S
      PROVE  t <= s
  <2>1. ~(b - t < b - s)
    BY <1>6, <1>7
  <2>2. QED
    BY <2>1
<1>9. QED
  BY <1>8

LEMMA CurrentIs ==
    ASSUME TypeOK, Queued
    PROVE  Current = {pending[r] : r \in DOMAIN pending}
BY DEF TypeOK, Queued, Current

LEMMA TopOfTierIs ==
    ASSUME TypeOK, Bounded, NEW tier \in Tiers
    PROVE  TopOfTier(tier) \in Nat
<1> DEFINE scores == {e.prio.score : e \in {d \in Entries : d.prio.tier = tier}}
<1>1. TopOfTier(tier) = IF scores = {} THEN DefaultScore[tier]
                        ELSE (CHOOSE s \in scores : \A t \in scores : t <= s) + 1
  BY DEF TopOfTier, Entries
<1>2. \A e \in Entries : e \in Entry
  BY DEF TypeOK, Entries
<1>3. \A s \in scores : s \in Nat
  BY <1>2 DEF Entry, Priority
<1>4. PICK b \in Nat : \A s \in scores : s <= b
  BY DEF Bounded
<1> HIDE DEF scores
<1>5. ASSUME scores # {}
      PROVE  (CHOOSE s \in scores : \A t \in scores : t <= s) \in scores
  <2>1. \E s \in scores : \A t \in scores : t <= s
    BY <1>3, <1>4, <1>5, HasMax
  <2>2. QED
    BY <2>1
<1>6. DefaultScore[tier] \in Nat
  BY ExecutorAssumption
<1>7. QED
  BY <1>1, <1>3, <1>5, <1>6

\* Condition.notify.
LEMMA NotifyIs ==
    ASSUME TypeOK, Notify
    PROVE  /\ pc' \in [Workers -> PC]
           /\ \A w \in Workers :
                pc'[w] = pc[w] \/ (pc[w] = "waiting" /\ pc'[w] = "looking")
           /\ At({"waiting"}) = {} => pc' = pc
           /\ At({"waiting"}) # {} =>
                Cardinality(At({"looking"})') = Cardinality(At({"looking"})) + 1
<1>1. CASE At({"waiting"}) = {}
  BY <1>1 DEF Notify, TypeOK
<1>2. CASE At({"waiting"}) # {}
  <2>1. PICK w \in At({"waiting"}) : pc' = [pc EXCEPT ![w] = "looking"]
    BY <1>2 DEF Notify
  <2>2. w \in Workers /\ pc[w] = "waiting" /\ pc \in [Workers -> PC]
    BY <2>1 DEF At, TypeOK
  <2>3. At({"looking"})' = At({"looking"}) \cup {w} /\ w \notin At({"looking"})
    BY <2>1, <2>2 DEF At
  <2>4. IsFiniteSet(At({"looking"}))
    BY ExecutorAssumption, FS_Subset DEF At
  <2>5. Cardinality(At({"looking"})') = Cardinality(At({"looking"})) + 1
    BY <2>3, <2>4, FS_AddElement
  <2>6. QED
    BY <1>2, <2>1, <2>2, <2>5 DEF PC
<1>3. QED
  BY <1>1, <1>2

\* The entry a submission makes.
LEMMA SubmitIs ==
    ASSUME ExecInv, NEW r \in Requests, NEW p \in Priorities, NEW preempt \in BOOLEAN,
           Submit(r, p, preempt)
    PROVE  \E e \in Entry :
             /\ e.req = r /\ e.prio = p /\ e.fut = submits /\ e.preempt = preempt /\ e.live
             /\ pending' = With(pending, r, e) /\ heap' = heap \cup {e}
             /\ submits \in Futures
<1> DEFINE e == [req |-> r, prio |-> p, seq |-> nextSeq, fut |-> submits,
                 preempt |-> preempt, live |-> TRUE]
<1>1. submits \in Futures /\ nextSeq \in Nat
  BY ExecutorAssumption DEF ExecInv, TypeOK, Submit, Futures
<1>2. p \in Priority
  BY ExecutorAssumption DEF Priority
<1>3. e \in Entry
  BY <1>1, <1>2 DEF Entry
<1>4. QED
  BY <1>1, <1>3 DEF Submit

\* The entry a re-prioritised pending request gets.
LEMMA WriteIs ==
    ASSUME ExecInv, NEW r \in DOMAIN pending, NEW tier \in Tiers \cup {None},
           NEW score \in {p.score : p \in Priorities} \cup {None}, WritePriority(r, tier, score)
    PROVE  \E new \in Entry :
             /\ new.req = r /\ new.fut = pending[r].fut /\ new.live
             /\ pending' = [pending EXCEPT ![r] = new]
             /\ heap' = (heap \ {pending[r]}) \cup {[pending[r] EXCEPT !.live = FALSE], new}
             /\ cancelled' = cancelled \cup Preempted(new.prio)
<1> DEFINE old == pending[r]
           tier2 == IF tier = None THEN old.prio.tier ELSE tier
           prio  == [tier |-> tier2,
                     score |-> IF score # None THEN score
                               ELSE IF tier # None THEN TopOfTier(tier2)
                               ELSE old.prio.score]
           new   == [old EXCEPT !.prio = prio, !.seq = nextSeq, !.preempt = TRUE]
<1>1. old \in Entry /\ old.req = r /\ old.live /\ nextSeq \in Nat
  BY DEF ExecInv, TypeOK, Queued
<1>2. old.prio.tier \in Nat /\ old.prio.score \in Nat
  BY <1>1 DEF Entry, Priority
<1>3. tier # None => tier \in Tiers /\ tier \in Nat
  BY ExecutorAssumption DEF Tiers
<1>4. score # None => score \in Nat
  BY ExecutorAssumption
<1>5. tier # None => TopOfTier(tier) \in Nat
  BY <1>3, TopOfTierIs DEF ExecInv
<1>6. prio \in Priority
  BY <1>2, <1>3, <1>4, <1>5 DEF Priority
<1>7. /\ pending' = [pending EXCEPT ![r] = new]
      /\ heap' = (heap \ {old}) \cup {[old EXCEPT !.live = FALSE], new}
      /\ cancelled' = cancelled \cup Preempted(prio)
  BY DEF WritePriority
<1> HIDE DEF prio
<1>8. new \in Entry /\ new.req = r /\ new.fut = old.fut /\ new.live /\ new.prio = prio
  BY <1>1, <1>6 DEF Entry
<1>9. QED
  BY <1>7, <1>8

\* The entry a worker pops comes before all others.
LEMMA TakeIs ==
    ASSUME ExecInv, NEW w \in Workers, Take(w)
    PROVE  \E r \in DOMAIN pending :
             LET e == pending[r] IN
             /\ e \in Entry /\ e.req = r /\ e \in heap /\ e.live
             /\ \A q \in DOMAIN pending \ {r} : Before(e, pending[q])
             /\ heap' = {d \in heap : Before(e, d)}
             /\ pending' = Without(pending, r) /\ running' = With(running, r, e)
             /\ job' = [job EXCEPT ![w] = e]
<1>1. PICK e \in Current :
        /\ \A d \in Current \ {e} : Before(e, d)
        /\ heap' = {d \in heap : Before(e, d)}
        /\ pending' = Without(pending, e.req) /\ running' = With(running, e.req, e)
        /\ job' = [job EXCEPT ![w] = e]
  BY DEF Take
<1>2. e.req \in DOMAIN pending /\ pending[e.req] = e /\ e \in heap /\ e.live /\ e \in Entry
  BY DEF Current, ExecInv, TypeOK
<1>3. \A q \in DOMAIN pending \ {e.req} : pending[q] \in Current \ {e}
  BY <1>2, CurrentIs DEF ExecInv, Queued
<1>4. /\ pending[e.req] \in Entry /\ pending[e.req].req = e.req
      /\ pending[e.req] \in heap /\ pending[e.req].live
      /\ \A q \in DOMAIN pending \ {e.req} : Before(pending[e.req], pending[q])
      /\ heap' = {d \in heap : Before(pending[e.req], d)}
      /\ pending' = Without(pending, e.req) /\ running' = With(running, e.req, pending[e.req])
      /\ job' = [job EXCEPT ![w] = pending[e.req]]
  BY <1>1, <1>2, <1>3 DEF Before
<1>5. QED
  BY <1>2, <1>4, Zenon

-----------------------------------------------------------------------------
\* Every step keeps the types.
LEMMA TypesKept ==
    ASSUME ExecInv, Next
    PROVE  TypeOK'
<1> USE DEF ExecInv
<1>1. TypeOK /\ ExecutorAssumption
  BY ExecutorAssumption
<1>2. ASSUME NEW r \in Requests, NEW p \in Priorities, NEW preempt \in BOOLEAN,
             Submit(r, p, preempt)
      PROVE  TypeOK'
  <2>1. PICK e \in Entry : /\ e.req = r /\ e.prio = p /\ e.fut = submits
                           /\ e.preempt = preempt /\ e.live
                           /\ pending' = With(pending, r, e) /\ heap' = heap \cup {e}
                           /\ submits \in Futures
    BY <1>2, SubmitIs
  <2>2. /\ DOMAIN pending' \subseteq Requests
        /\ \A q \in DOMAIN pending' : pending'[q] \in Entry
    BY <1>1, <2>1 DEF With, TypeOK
  <2>3. pc' \in [Workers -> PC]
    BY <1>2, NotifyIs DEF Submit
  <2>4. cancelled' \subseteq Futures
    <3>1. Preempted(p) \subseteq Futures
      BY DEF Preempted, TypeOK, Entry
    <3>2. QED
      BY <1>2, <3>1 DEF Submit, TypeOK
  <2>5. /\ future' \in [Futures -> {"none", "pending", "running", "done", "cancelled"}]
        /\ nextSeq' \in Nat /\ submits' \in 0..MaxSubmits
    <3>1. /\ future' = [future EXCEPT ![submits] = "pending"] /\ submits < MaxSubmits
          /\ nextSeq' = nextSeq + 1 /\ submits' = submits + 1
      BY <1>2 DEF Submit
    <3>2. submits \in Nat /\ nextSeq \in Nat /\ MaxSubmits \in Nat
      BY ExecutorAssumption DEF TypeOK
    <3>3. nextSeq' \in Nat /\ submits' \in 0..MaxSubmits
      BY <3>1, <3>2
    <3>4. QED
      BY <3>1, <3>3 DEF TypeOK
  <2>6. QED
    BY <1>2, <2>1, <2>2, <2>3, <2>4, <2>5 DEF Submit, TypeOK
<1>3. ASSUME NEW r \in Requests, NEW tier \in Tiers \cup {None},
             NEW score \in {p.score : p \in Priorities} \cup {None}, WritePriority(r, tier, score)
      PROVE  TypeOK'
  <2>1. CASE r \in DOMAIN pending
    <3>1. PICK new \in Entry :
            /\ new.req = r /\ new.fut = pending[r].fut /\ new.live
            /\ pending' = [pending EXCEPT ![r] = new]
            /\ heap' = (heap \ {pending[r]}) \cup {[pending[r] EXCEPT !.live = FALSE], new}
            /\ cancelled' = cancelled \cup Preempted(new.prio)
      BY <1>3, <2>1, WriteIs
    <3>2. [pending[r] EXCEPT !.live = FALSE] \in Entry
      BY <1>1, <2>1 DEF TypeOK, Entry
    <3>3. pc' \in [Workers -> PC]
      BY <1>3, <2>1, NotifyIs DEF WritePriority
    <3>4. Preempted(new.prio) \subseteq Futures
      BY DEF Preempted, TypeOK, Entry
    <3>5. writes' \in 0..MaxWrites /\ nextSeq' \in Nat
      BY <1>3, <2>1, ExecutorAssumption DEF WritePriority, TypeOK
    <3>6. QED
      BY <1>3, <2>1, <3>1, <3>2, <3>3, <3>4, <3>5 DEF WritePriority, TypeOK
  <2>2. CASE r \in DOMAIN running \ DOMAIN pending
    <3> DEFINE prio == [tier  |-> IF tier = None THEN running[r].prio.tier ELSE tier,
                        score |-> IF score = None THEN running[r].prio.score ELSE score]
    <3>1. running[r] \in Entry
      BY <2>2 DEF TypeOK
    <3>2. tier # None => tier \in Nat
      BY ExecutorAssumption DEF Tiers
    <3>3. score # None => score \in Nat
      BY ExecutorAssumption
    <3>4. prio \in Priority
      BY <3>1, <3>2, <3>3 DEF Entry, Priority
    <3>5. running' = [running EXCEPT ![r].prio = prio]
      BY <1>3, <2>2 DEF WritePriority
    <3> HIDE DEF prio
    <3>6. [running[r] EXCEPT !.prio = prio] \in Entry
      BY <3>1, <3>4 DEF Entry
    <3>7. /\ DOMAIN running' \subseteq Requests
          /\ \A q \in DOMAIN running' : running'[q] \in Entry
      BY <3>5, <3>6 DEF TypeOK
    <3>8. running[r].seq \in Nat
      BY <3>1 DEF Entry
    <3>9. writes' \in 0..MaxWrites
      BY <1>3, ExecutorAssumption DEF WritePriority, TypeOK
    <3>10. QED
      BY <1>3, <2>2, <3>7, <3>8, <3>9 DEF WritePriority, TypeOK
  <2>3. QED
    BY <1>3, <2>1, <2>2 DEF WritePriority
<1>4. ASSUME NEW f \in Futures, CancelFuture(f)
      PROVE  TypeOK'
  BY <1>4 DEF CancelFuture, TypeOK
<1>5. CASE Shutdown
  BY <1>5 DEF Shutdown, TypeOK, PC
<1>6. ASSUME NEW w \in Workers, Take(w)
      PROVE  TypeOK'
  <2>1. PICK e \in Current : /\ heap' = {d \in heap : Before(e, d)}
                             /\ pending' = Without(pending, e.req)
                             /\ running' = With(running, e.req, e)
                             /\ job' = [job EXCEPT ![w] = e]
    BY <1>6 DEF Take
  <2>2. e \in Entry /\ e.req \in Requests
    BY DEF Current, TypeOK
  <2>3. /\ DOMAIN running' \subseteq Requests
        /\ \A q \in DOMAIN running' : running'[q] \in Entry
    BY <2>1, <2>2 DEF With, TypeOK
  <2>4. /\ DOMAIN pending' \subseteq Requests
        /\ \A q \in DOMAIN pending' : pending'[q] \in Entry
    BY <2>1 DEF Without, TypeOK
  <2>5. job' \in [Workers -> Entry \cup {None}] /\ pc' \in [Workers -> PC]
    BY <1>6, <2>1, <2>2 DEF Take, TypeOK, PC
  <2>6. QED
    BY <1>6, <2>1, <2>3, <2>4, <2>5 DEF Take, TypeOK
<1>7. ASSUME NEW w \in Workers, Wait(w) \/ Exit(w)
      PROVE  TypeOK'
  BY <1>7 DEF Wait, Exit, TypeOK, PC
<1>8. ASSUME NEW w \in Workers, Begin(w)
      PROVE  TypeOK'
  BY <1>8 DEF Begin, TypeOK, PC
<1>9. ASSUME NEW w \in Workers, Settle(w)
      PROVE  TypeOK'
  BY <1>9 DEF Settle, TypeOK, PC
<1>10. ASSUME NEW w \in Workers, Leave(w)
       PROVE  TypeOK'
  <2>1. /\ DOMAIN running' \subseteq Requests
        /\ \A q \in DOMAIN running' : running'[q] \in Entry
    BY <1>10 DEF Leave, Without, TypeOK
  <2>2. job' \in [Workers -> Entry \cup {None}] /\ pc' \in [Workers -> PC]
    BY <1>10 DEF Leave, TypeOK, PC
  <2>3. QED
    BY <1>10, <2>1, <2>2 DEF Leave, TypeOK
<1>11. QED
  BY <1>2, <1>3, <1>4, <1>5, <1>6, <1>7, <1>8, <1>9, <1>10 DEF Next, Look, Serve

-----------------------------------------------------------------------------
\* Every step keeps what is pending in the heap.
LEMMA QueuedKept ==
    ASSUME ExecInv, Next
    PROVE  Queued'
<1> USE DEF ExecInv
<1>1. ASSUME NEW r \in Requests, NEW p \in Priorities, NEW preempt \in BOOLEAN,
             Submit(r, p, preempt)
      PROVE  Queued'
  <2>1. PICK e \in Entry : /\ e.req = r /\ e.live
                           /\ pending' = With(pending, r, e) /\ heap' = heap \cup {e}
    BY <1>1, SubmitIs
  <2>2. QED
    BY <2>1 DEF Queued, With
<1>2. ASSUME NEW r \in Requests, NEW tier \in Tiers \cup {None},
             NEW score \in {p.score : p \in Priorities} \cup {None}, WritePriority(r, tier, score)
      PROVE  Queued'
  <2>1. CASE r \in DOMAIN pending
    <3>1. PICK new \in Entry :
            /\ new.req = r /\ new.live
            /\ pending' = [pending EXCEPT ![r] = new]
            /\ heap' = (heap \ {pending[r]}) \cup {[pending[r] EXCEPT !.live = FALSE], new}
      BY <1>2, <2>1, WriteIs
    <3>2. \A q \in DOMAIN pending \ {r} : pending[q] # pending[r]
      BY <2>1 DEF Queued
    <3>3. QED
      BY <3>1, <3>2 DEF Queued
  <2>2. CASE r \notin DOMAIN pending
    BY <1>2, <2>2 DEF WritePriority, Queued
  <2>3. QED
    BY <2>1, <2>2
<1>3. ASSUME NEW w \in Workers, Take(w)
      PROVE  Queued'
  BY <1>3, TakeIs DEF Queued, Without
<1>4. ASSUME NEW w \in Workers, Wait(w)
      PROVE  Queued'
  BY <1>4, CurrentIs DEF Wait, Queued
<1>5. CASE UNCHANGED <<heap, pending>>
  BY <1>5 DEF Queued
<1>6. QED
  BY <1>1, <1>2, <1>3, <1>4, <1>5
     DEF Next, CancelFuture, Shutdown, Look, Exit, Serve, Begin, Settle, Leave

-----------------------------------------------------------------------------
\* Every step keeps each future in one place.
LEMMA HoldersOfNotify ==
    ASSUME TypeOK, Notify
    PROVE  /\ Holders' = Holders
           /\ \A S \in {{"claimed"}, {"busy"}, {"dead"}, {"exited"}} : At(S)' = At(S)
BY NotifyIs DEF Holders, At

LEMMA FutsKept ==
    ASSUME ExecInv, Next
    PROVE  Futs'
<1> USE DEF ExecInv
<1>1. ASSUME NEW r \in Requests, NEW p \in Priorities, NEW preempt \in BOOLEAN,
             Submit(r, p, preempt)
      PROVE  Futs'
  <2>1. PICK e \in Entry : /\ e.req = r /\ e.fut = submits
                           /\ pending' = With(pending, r, e) /\ submits \in Futures
    BY <1>1, SubmitIs
  <2>2. /\ Holders' = Holders /\ At({"claimed"})' = At({"claimed"})
        /\ At({"busy"})' = At({"busy"}) /\ At({"dead"})' = At({"dead"})
    BY <1>1, HoldersOfNotify DEF Submit
  <2>3. /\ future' = [future EXCEPT ![submits] = "pending"] /\ submits' = submits + 1
        /\ job' = job
    BY <1>1 DEF Submit
  <2>4. \A f \in Futures : f \in Nat
    BY ExecutorAssumption DEF Futures
  <2>5. \A q \in DOMAIN pending : pending[q].fut \in Futures
    BY DEF TypeOK, Entry
  <2>6. \A w \in Holders : job[w].fut \in Futures
    BY DEF Futs, Entry
  <2>7. At({"claimed"}) \subseteq Holders /\ At({"busy"}) \subseteq Holders
    BY DEF At, Holders
  <2>8. /\ \A f \in Futures \ {submits} : future'[f] = future[f]
        /\ future'[submits] = "pending"
    BY <2>1, <2>3 DEF TypeOK
  <2>9. /\ DOMAIN pending' = DOMAIN pending \cup {r} /\ pending'[r] = e
        /\ \A q \in DOMAIN pending \ {r} : pending'[q] = pending[q]
    BY <2>1 DEF With
  <2>10. QED
    BY <2>1, <2>2, <2>3, <2>4, <2>5, <2>6, <2>7, <2>8, <2>9 DEF Futs
<1>2. ASSUME NEW r \in Requests, NEW tier \in Tiers \cup {None},
             NEW score \in {p.score : p \in Priorities} \cup {None}, WritePriority(r, tier, score)
      PROVE  Futs'
  <2>1. CASE r \in DOMAIN pending
    <3>1. PICK new \in Entry : new.fut = pending[r].fut /\ pending' = [pending EXCEPT ![r] = new]
      BY <1>2, <2>1, WriteIs
    <3>2. /\ Holders' = Holders /\ At({"claimed"})' = At({"claimed"})
          /\ At({"busy"})' = At({"busy"}) /\ At({"dead"})' = At({"dead"})
      BY <1>2, <2>1, HoldersOfNotify DEF WritePriority
    <3>3. DOMAIN pending' = DOMAIN pending
          /\ \A q \in DOMAIN pending : pending'[q].fut = pending[q].fut
      BY <3>1
    <3>4. QED
      BY <1>2, <3>2, <3>3 DEF WritePriority, Futs
  <2>2. CASE r \notin DOMAIN pending
    BY <1>2, <2>2 DEF WritePriority, Futs, Holders, At
  <2>3. QED
    BY <2>1, <2>2
<1>3. ASSUME NEW f \in Futures, CancelFuture(f)
      PROVE  Futs'
  <2>1. /\ \A g \in Futures \ {f} : future'[g] = future[g]
        /\ future[f] = "pending" /\ future'[f] = "cancelled"
    BY <1>3 DEF CancelFuture, TypeOK
  <2>2. \A q \in DOMAIN pending : pending[q].fut \in Futures
    BY DEF TypeOK, Entry
  <2>3. \A w \in Holders : job[w].fut \in Futures
    BY DEF Futs, Entry
  <2>4. QED
    BY <1>3, <2>1, <2>2, <2>3 DEF CancelFuture, Futs, Holders, At
<1>4. CASE Shutdown
  BY <1>4 DEF Shutdown, TypeOK, Futs, Holders, At
<1>5. ASSUME NEW w \in Workers, Take(w)
      PROVE  Futs'
  <2>1. PICK r \in DOMAIN pending :
          /\ pending[r] \in Entry /\ pending' = Without(pending, r)
          /\ job' = [job EXCEPT ![w] = pending[r]]
    BY <1>5, TakeIs
  <2>2. /\ DOMAIN pending' = DOMAIN pending \ {r}
        /\ \A q \in DOMAIN pending \ {r} : pending'[q] = pending[q]
    BY <2>1 DEF Without
  <2>3. /\ pc[w] = "looking" /\ pc' = [pc EXCEPT ![w] = "claimed"]
        /\ future' = future /\ submits' = submits
    BY <1>5 DEF Take
  <2>4. /\ Holders' = Holders \cup {w} /\ w \notin Holders
        /\ At({"claimed"})' = At({"claimed"}) \cup {w}
        /\ At({"busy"})' = At({"busy"}) /\ At({"dead"})' = At({"dead"})
        /\ At({"claimed"}) \subseteq Holders /\ At({"busy"}) \subseteq Holders
    BY <2>3 DEF Holders, At, TypeOK
  <2>5. job'[w] = pending[r] /\ \A v \in Holders : job'[v] = job[v]
    BY <2>1, <2>4 DEF Holders, At, TypeOK
  <2>6. QED
    BY <2>1, <2>2, <2>3, <2>4, <2>5 DEF Futs
<1>6. ASSUME NEW w \in Workers, Wait(w) \/ Exit(w)
      PROVE  Futs'
  <2>1. /\ UNCHANGED <<pending, future, job, submits>>
        /\ Holders' = Holders /\ At({"claimed"})' = At({"claimed"})
        /\ At({"busy"})' = At({"busy"}) /\ At({"dead"})' = At({"dead"})
    BY <1>6 DEF Wait, Exit, Holders, At, TypeOK
  <2>2. QED
    BY <2>1 DEF Futs
<1>7. ASSUME NEW w \in Workers, Begin(w)
      PROVE  Futs'
  <2> DEFINE f == job[w].fut
  <2>1. w \in At({"claimed"}) /\ w \in Holders /\ f \in Futures
    BY <1>7 DEF Begin, At, Holders, Futs, Entry
  <2>2. UNCHANGED <<pending, job, submits>>
    BY <1>7 DEF Begin
  <2>3. \A q \in DOMAIN pending : pending[q].fut \in Futures /\ pending[q].fut # f
    BY <2>1 DEF TypeOK, Entry, Futs
  <2>4. \A v \in Holders : job[v].fut \in Futures /\ (v # w => job[v].fut # f)
    BY <2>1 DEF Futs, Entry
  <2>5. /\ At({"claimed"}) \subseteq Holders /\ At({"busy"}) \subseteq Holders
    BY DEF At, Holders
  <2>6. CASE future[f] = "pending" /\ future' = [future EXCEPT ![f] = "running"]
             /\ pc' = [pc EXCEPT ![w] = "busy"]
    <3>1. /\ Holders' = Holders /\ At({"claimed"})' = At({"claimed"}) \ {w}
          /\ At({"busy"})' = At({"busy"}) \cup {w} /\ At({"dead"})' = At({"dead"})
      BY <2>1, <2>6 DEF Holders, At, TypeOK
    <3>2. future'[f] = "running" /\ \A g \in Futures \ {f} : future'[g] = future[g]
      BY <2>1, <2>6 DEF TypeOK
    <3>3. QED
      BY <2>1, <2>2, <2>3, <2>4, <2>5, <2>6, <3>1, <3>2 DEF Futs
  <2>7. CASE pc' = [pc EXCEPT ![w] = "leaving"] /\ future' = future
    <3>1. /\ Holders' = Holders /\ At({"claimed"})' = At({"claimed"}) \ {w}
          /\ At({"busy"})' = At({"busy"}) /\ At({"dead"})' = At({"dead"})
      BY <2>1, <2>7 DEF Holders, At, TypeOK
    <3>2. QED
      BY <2>2, <2>7, <3>1 DEF Futs
  <2>8. QED
    BY <1>7, <2>1, <2>6, <2>7 DEF Begin, Futs
<1>8. ASSUME NEW w \in Workers, Settle(w)
      PROVE  Futs'
  <2> DEFINE f == job[w].fut
  <2>1. w \in At({"busy"}) /\ w \in Holders /\ f \in Futures /\ future[f] = "running"
    BY <1>8 DEF Settle, At, Holders, Futs, Entry
  <2>2. UNCHANGED <<pending, job, submits>>
    BY <1>8 DEF Settle
  <2>3. \A q \in DOMAIN pending : pending[q].fut \in Futures /\ pending[q].fut # f
    BY <2>1 DEF TypeOK, Entry, Futs
  <2>4. \A v \in Holders : job[v].fut \in Futures /\ (v # w => job[v].fut # f)
    BY <2>1 DEF Futs, Entry
  <2>5. /\ At({"claimed"}) \subseteq Holders /\ At({"busy"}) \subseteq Holders
        /\ w \notin At({"claimed"})
    BY <1>8 DEF At, Holders, Settle
  <2>6. /\ Holders' = Holders /\ At({"claimed"})' = At({"claimed"})
        /\ At({"busy"})' = At({"busy"}) \ {w} /\ At({"dead"})' = At({"dead"})
    BY <1>8 DEF Settle, Holders, At, TypeOK
  <2>7. \A g \in Futures \ {f} : future'[g] = future[g]
    BY <1>8 DEF Settle, TypeOK
  <2>8. f < submits /\ future'[f] = "done"
    BY <1>8, <2>1 DEF Settle, TypeOK, Futs
  <2>9. submits \in Nat /\ f \in Nat
    BY <2>1, ExecutorAssumption DEF TypeOK, Futures
  <2>10. QED
    BY <2>1, <2>2, <2>3, <2>4, <2>5, <2>6, <2>7, <2>8, <2>9 DEF Futs
<1>9. ASSUME NEW w \in Workers, Leave(w)
      PROVE  Futs'
  <2>1. /\ UNCHANGED <<pending, future, submits>> /\ \A v \in Workers \ {w} : job'[v] = job[v]
        /\ Holders' = Holders \ {w} /\ At({"claimed"})' = At({"claimed"})
        /\ At({"busy"})' = At({"busy"}) /\ At({"dead"})' = At({"dead"})
        /\ w \notin At({"claimed"}) /\ w \notin At({"busy"})
        /\ Holders \subseteq Workers
        /\ At({"claimed"}) \subseteq Holders /\ At({"busy"}) \subseteq Holders
    BY <1>9 DEF Leave, Holders, At, TypeOK
  <2>2. QED
    BY <2>1 DEF Futs
<1>10. QED
  BY <1>1, <1>2, <1>3, <1>4, <1>5, <1>6, <1>7, <1>8, <1>9 DEF Next, Look, Serve

-----------------------------------------------------------------------------
\* Every step keeps the running table, if callers keep their ids apart.
LEMMA TablesKept ==
    ASSUME ExecInv, Next
    PROVE  Tables'
<1> SUFFICES ASSUME UniqueIds
             PROVE  Tables'
  BY DEF Tables
<1> USE DEF ExecInv
<1>0. /\ DOMAIN pending \cap DOMAIN running = {}
      /\ \A w \in Holders : job[w].req \in DOMAIN running
      /\ \A v, w \in Holders : v # w => job[v].req # job[w].req
  BY DEF Tables
<1>1. ASSUME NEW r \in Requests, NEW p \in Priorities, NEW preempt \in BOOLEAN,
             Submit(r, p, preempt)
      PROVE  Tables'
  <2>1. DOMAIN pending' = DOMAIN pending \cup {r} /\ r \notin DOMAIN pending \cup DOMAIN running
    BY <1>1 DEF Submit, With
  <2>2. Holders' = Holders
    BY <1>1, HoldersOfNotify DEF Submit
  <2>3. QED
    BY <1>0, <1>1, <2>1, <2>2 DEF Submit, Tables
<1>2. ASSUME NEW r \in Requests, NEW tier \in Tiers \cup {None},
             NEW score \in {p.score : p \in Priorities} \cup {None}, WritePriority(r, tier, score)
      PROVE  Tables'
  <2>1. DOMAIN pending' = DOMAIN pending /\ DOMAIN running' = DOMAIN running /\ job' = job
    BY <1>2 DEF WritePriority
  <2>2. Holders' = Holders
    BY <1>2, HoldersOfNotify DEF WritePriority, Holders, At
  <2>3. QED
    BY <1>0, <2>1, <2>2 DEF Tables
<1>3. ASSUME UNCHANGED <<pending, running, job>>, Holders' = Holders
      PROVE  Tables'
  BY <1>3, <1>0 DEF Tables
<1>4. ASSUME NEW f \in Futures, CancelFuture(f)
      PROVE  Tables'
  BY <1>3, <1>4 DEF CancelFuture, Holders, At
<1>5. CASE Shutdown
  BY <1>3, <1>5 DEF Shutdown, Holders, At, TypeOK
<1>6. ASSUME NEW w \in Workers, Take(w)
      PROVE  Tables'
  <2>1. PICK r \in DOMAIN pending :
          /\ pending[r].req = r /\ pending' = Without(pending, r)
          /\ running' = With(running, r, pending[r]) /\ job' = [job EXCEPT ![w] = pending[r]]
    BY <1>6, TakeIs
  <2>2. DOMAIN pending' = DOMAIN pending \ {r} /\ DOMAIN running' = DOMAIN running \cup {r}
    BY <2>1 DEF With, Without
  <2>3. Holders' = Holders \cup {w} /\ w \notin Holders
    BY <1>6 DEF Take, Holders, At, TypeOK
  <2>4. job'[w] = pending[r] /\ \A v \in Holders : job'[v] = job[v]
    BY <2>1, <2>3 DEF Holders, At, TypeOK
  <2>5. QED
    BY <1>0, <2>1, <2>2, <2>3, <2>4 DEF Tables
<1>7. ASSUME NEW w \in Workers, Wait(w) \/ Exit(w)
      PROVE  Tables'
  BY <1>3, <1>7 DEF Wait, Exit, Holders, At, TypeOK
<1>8. ASSUME NEW w \in Workers, Begin(w)
      PROVE  Tables'
  <2>1. future[job[w].fut] \in {"pending", "cancelled"}
    BY <1>8 DEF Begin, Futs, At
  <2>2. Holders' = Holders
    BY <1>8, <2>1 DEF Begin, Holders, At, TypeOK
  <2>3. QED
    BY <1>3, <1>8, <2>2 DEF Begin
<1>9. ASSUME NEW w \in Workers, Settle(w)
      PROVE  Tables'
  BY <1>3, <1>9 DEF Settle, Holders, At, TypeOK
<1>10. ASSUME NEW w \in Workers, Leave(w)
       PROVE  Tables'
  <2>1. /\ Holders' = Holders \ {w} /\ w \in Holders /\ Holders \subseteq Workers
        /\ \A v \in Workers \ {w} : job'[v] = job[v]
    BY <1>10 DEF Leave, Holders, At, TypeOK
  <2>2. DOMAIN running' = DOMAIN running \ {job[w].req} /\ pending' = pending
    BY <1>10 DEF Leave, Without
  <2>3. QED
    BY <1>0, <2>1, <2>2 DEF Tables
<1>11. QED
  BY <1>1, <1>2, <1>4, <1>5, <1>6, <1>7, <1>8, <1>9, <1>10 DEF Next, Look, Serve

-----------------------------------------------------------------------------
\* Every step keeps that shutdown drains, and wakes every worker.
LEMMA DrainsKept ==
    ASSUME ExecInv, Next
    PROVE  Drains'
<1> USE DEF ExecInv
<1>1. ASSUME NEW r \in Requests, NEW p \in Priorities, NEW preempt \in BOOLEAN,
             Submit(r, p, preempt)
      PROVE  Drains'
  <2>1. ~isShutdown' /\ At({"exited"}) = {}
    BY <1>1 DEF Submit, Drains, DrainedBeforeExit
  <2>2. At({"exited"})' = At({"exited"})
    BY <1>1, HoldersOfNotify DEF Submit
  <2>3. QED
    BY <2>1, <2>2 DEF Drains, DrainedBeforeExit
<1>2. ASSUME NEW r \in Requests, NEW tier \in Tiers \cup {None},
             NEW score \in {p.score : p \in Priorities} \cup {None}, WritePriority(r, tier, score)
      PROVE  Drains'
  <2>1. DOMAIN pending' = DOMAIN pending /\ isShutdown' = isShutdown
    BY <1>2 DEF WritePriority
  <2>2. pc' = pc \/ Notify
    BY <1>2 DEF WritePriority
  <2>3. At({"exited"})' = At({"exited"}) /\ At({"waiting"})' \subseteq At({"waiting"})
    BY <2>2, NotifyIs DEF At
  <2>4. QED
    BY <2>1, <2>3 DEF Drains, DrainedBeforeExit
<1>3. ASSUME UNCHANGED <<pending, isShutdown>>, At({"exited"})' \subseteq At({"exited"}),
             At({"waiting"})' \subseteq At({"waiting"})
      PROVE  Drains'
  BY <1>3 DEF Drains, DrainedBeforeExit
<1>4. ASSUME NEW f \in Futures, CancelFuture(f)
      PROVE  Drains'
  BY <1>3, <1>4 DEF CancelFuture, At
<1>5. CASE Shutdown
  <2>1. At({"waiting"})' = {} /\ At({"exited"})' = At({"exited"}) /\ isShutdown' /\ pending' = pending
    BY <1>5 DEF Shutdown, At, TypeOK
  <2>2. QED
    BY <2>1 DEF Drains, DrainedBeforeExit
<1>6. ASSUME NEW w \in Workers, Take(w)
      PROVE  Drains'
  <2>1. DOMAIN pending # {}
    BY <1>6, TakeIs
  <2>2. At({"exited"}) = {}
    BY <2>1 DEF Drains, DrainedBeforeExit
  <2>3. At({"exited"})' = {} /\ At({"waiting"})' = At({"waiting"}) /\ isShutdown' = isShutdown
    BY <1>6, <2>2 DEF Take, At, TypeOK
  <2>4. QED
    BY <2>3 DEF Drains, DrainedBeforeExit
<1>7. ASSUME NEW w \in Workers, Wait(w)
      PROVE  Drains'
  <2>1. DOMAIN pending = {}
    BY <1>7, CurrentIs DEF Wait
  <2>2. ~isShutdown
    BY <1>7, <2>1 DEF Wait, HasLive
  <2>3. UNCHANGED <<pending, isShutdown>> /\ At({"exited"})' = At({"exited"})
    BY <1>7 DEF Wait, At, TypeOK
  <2>4. QED
    BY <2>2, <2>3 DEF Drains, DrainedBeforeExit
<1>8. ASSUME NEW w \in Workers, Exit(w)
      PROVE  Drains'
  <2>1. isShutdown /\ DOMAIN pending = {}
    BY <1>8 DEF Exit, HasLive, Queued
  <2>2. UNCHANGED <<pending, isShutdown>> /\ At({"waiting"})' \subseteq At({"waiting"})
    BY <1>8 DEF Exit, At, TypeOK
  <2>3. QED
    BY <2>1, <2>2 DEF Drains, DrainedBeforeExit
<1>9. ASSUME NEW w \in Workers, Serve(w)
      PROVE  Drains'
  <2>1. /\ UNCHANGED <<pending, isShutdown>> /\ At({"exited"})' \subseteq At({"exited"})
        /\ At({"waiting"})' \subseteq At({"waiting"})
    BY <1>9 DEF Serve, Begin, Settle, Leave, At, TypeOK
  <2>2. QED
    BY <1>3, <2>1
<1>10. QED
  BY <1>1, <1>2, <1>4, <1>5, <1>6, <1>7, <1>8, <1>9 DEF Next, Look

-----------------------------------------------------------------------------
\* Every step keeps that no worker sleeps beside a task no other will take.
LEMMA CurrentIsThen ==
    ASSUME TypeOK', Queued'
    PROVE  Current' = {pending'[r] : r \in DOMAIN pending'}
BY DEF TypeOK, Queued, Current

LEMMA WorksKept ==
    ASSUME ExecInv, Next
    PROVE  Works'
<1> USE DEF ExecInv
<1>1. /\ Current = {pending[r] : r \in DOMAIN pending}
      /\ Current' = {pending'[r] : r \in DOMAIN pending'}
  BY CurrentIs, CurrentIsThen, TypesKept, QueuedKept
<1>2. /\ IsFiniteSet(Current) /\ Cardinality(Current) \in Nat
      /\ IsFiniteSet(At({"looking"})) /\ Cardinality(At({"looking"})) \in Nat
      /\ Cardinality(At({"looking"})') \in Nat
      /\ At({"waiting"}) # {} => Cardinality(Current) <= Cardinality(At({"looking"}))
  <2>1. At({"looking"}) \subseteq Workers /\ At({"looking"})' \subseteq Workers
    BY DEF At
  <2>2. IsFiniteSet(At({"looking"})) /\ IsFiniteSet(At({"looking"})')
    BY <2>1, ExecutorAssumption, FS_Subset
  <2>3. QED
    BY <2>2, FS_CardinalityType DEF Works, WorkConserving
<1>3. ASSUME IsFiniteSet(Current'), Notify,
             Cardinality(Current') <= Cardinality(Current) + 1
      PROVE  Works'
  <2>1. Cardinality(Current') \in Nat
    BY <1>3, FS_CardinalityType
  <2>2. CASE At({"waiting"}) = {}
    <3>1. At({"waiting"})' = {}
      BY <1>3, <2>2 DEF Notify, At
    <3>2. QED
      BY <1>3, <3>1 DEF Works, WorkConserving
  <2>3. CASE At({"waiting"}) # {}
    <3>1. Cardinality(At({"looking"})') = Cardinality(At({"looking"})) + 1
      BY <1>3, <2>3, NotifyIs
    <3>2. QED
      BY <1>2, <1>3, <2>1, <2>3, <3>1 DEF Works, WorkConserving
  <2>4. QED
    BY <2>2, <2>3
<1>4. ASSUME NEW S, S \subseteq Current, NEW e, Current' \subseteq S \cup {e}
      PROVE  IsFiniteSet(Current') /\ Cardinality(Current') <= Cardinality(S) + 1
  <2>1. IsFiniteSet(S) /\ Cardinality(S) \in Nat
    BY <1>2, <1>4, FS_Subset, FS_CardinalityType
  <2>2. IsFiniteSet(S \cup {e}) /\ Cardinality(S \cup {e}) <= Cardinality(S) + 1
    <3>1. CASE e \in S
      <4>1. S \cup {e} = S
        BY <3>1
      <4>2. QED
        BY <2>1, <4>1
    <3>2. CASE e \notin S
      BY <2>1, <3>2, FS_AddElement
    <3>3. QED
      BY <3>1, <3>2
  <2>3. IsFiniteSet(Current') /\ Cardinality(Current') <= Cardinality(S \cup {e})
    BY <1>4, <2>2, FS_Subset
  <2>4. Cardinality(Current') \in Nat /\ Cardinality(S \cup {e}) \in Nat
    BY <2>2, <2>3, FS_CardinalityType
  <2>5. QED
    BY <2>1, <2>2, <2>3, <2>4
<1>5. ASSUME NEW r \in Requests, NEW p \in Priorities, NEW preempt \in BOOLEAN,
             Submit(r, p, preempt)
      PROVE  Works'
  <2>1. PICK e \in Entry : pending' = With(pending, r, e)
    BY <1>5, SubmitIs
  <2>2. Current' \subseteq Current \cup {e}
    BY <1>1, <2>1 DEF With
  <2>3. IsFiniteSet(Current') /\ Cardinality(Current') <= Cardinality(Current) + 1
    BY <1>4, <2>2
  <2>4. QED
    BY <1>3, <1>5, <2>3 DEF Submit
<1>6. ASSUME UNCHANGED <<heap, pending>>, At({"waiting"})' \subseteq At({"waiting"}),
             At({"looking"}) \subseteq At({"looking"})'
      PROVE  Works'
  <2>1. IsFiniteSet(At({"looking"})')
    BY ExecutorAssumption, FS_Subset DEF At
  <2>2. Cardinality(At({"looking"})) <= Cardinality(At({"looking"})')
    BY <1>6, <2>1, FS_Subset
  <2>3. Current' = Current
    BY <1>6 DEF Current
  <2>4. QED
    BY <1>2, <1>6, <2>2, <2>3 DEF Works, WorkConserving
<1>7. ASSUME NEW r \in Requests, NEW tier \in Tiers \cup {None},
             NEW score \in {p.score : p \in Priorities} \cup {None}, WritePriority(r, tier, score)
      PROVE  Works'
  <2>1. CASE r \in DOMAIN pending
    <3>1. PICK new \in Entry : new.req = r /\ pending' = [pending EXCEPT ![r] = new]
      BY <1>7, <2>1, WriteIs
    <3>2. Current' \subseteq Current \cup {new}
      BY <1>1, <3>1
    <3>3. IsFiniteSet(Current') /\ Cardinality(Current') <= Cardinality(Current) + 1
      BY <1>4, <3>2
    <3>4. QED
      BY <1>3, <1>7, <2>1, <3>3 DEF WritePriority
  <2>2. CASE r \notin DOMAIN pending
    BY <1>6, <1>7, <2>2 DEF WritePriority, At
  <2>3. QED
    BY <2>1, <2>2
<1>8. ASSUME NEW f \in Futures, CancelFuture(f)
      PROVE  Works'
  BY <1>6, <1>8 DEF CancelFuture, At
<1>9. CASE Shutdown
  <2>1. At({"waiting"})' = {} /\ Current' = Current
    BY <1>9 DEF Shutdown, At, TypeOK, Current
  <2>2. QED
    BY <1>2, <2>1 DEF Works, WorkConserving
<1>10. ASSUME NEW w \in Workers, Take(w)
       PROVE  Works'
  <2>1. PICK r \in DOMAIN pending : pending[r].req = r /\ pending' = Without(pending, r)
    BY <1>10, TakeIs
  <2>2. /\ At({"looking"})' = At({"looking"}) \ {w} /\ w \in At({"looking"})
        /\ At({"waiting"})' = At({"waiting"})
    BY <1>10 DEF Take, At, TypeOK
  <2>3. \A q \in DOMAIN pending \ {r} : pending[q] # pending[r]
    BY <2>1 DEF Queued
  <2>4. Current' = Current \ {pending[r]} /\ pending[r] \in Current
    BY <1>1, <2>1, <2>3 DEF Without
  <2>5. IsFiniteSet(Current') /\ Cardinality(Current') = Cardinality(Current) - 1
    BY <1>2, <2>4, FS_RemoveElement
  <2>6. Cardinality(At({"looking"})') = Cardinality(At({"looking"})) - 1
    BY <1>2, <2>2, FS_RemoveElement
  <2>7. QED
    BY <1>2, <2>2, <2>5, <2>6 DEF Works, WorkConserving
<1>11. ASSUME NEW w \in Workers, Wait(w)
       PROVE  Works'
  <2>1. DOMAIN pending = {} /\ pending' = pending
    BY <1>1, <1>11 DEF Wait
  <2>2. Current' = {}
    BY <1>1, <2>1
  <2>3. QED
    BY <1>2, <2>2, FS_EmptySet DEF Works, WorkConserving
<1>12. ASSUME NEW w \in Workers, Exit(w)
       PROVE  Works'
  <2>1. At({"waiting"})' = {} /\ Current' = Current
    BY <1>12 DEF Exit, At, TypeOK, Current, Drains
  <2>2. QED
    BY <1>2, <2>1 DEF Works, WorkConserving
<1>13. ASSUME NEW w \in Workers, Serve(w)
       PROVE  Works'
  <2>1. /\ UNCHANGED <<heap, pending>> /\ At({"waiting"})' \subseteq At({"waiting"})
        /\ At({"looking"}) \subseteq At({"looking"})'
    BY <1>13 DEF Serve, Begin, Settle, Leave, At, TypeOK
  <2>2. QED
    BY <1>6, <2>1
<1>14. QED
  BY <1>5, <1>7, <1>8, <1>9, <1>10, <1>11, <1>12, <1>13 DEF Next, Look

-----------------------------------------------------------------------------
\* Every step keeps the bound of the scores.
LEMMA BoundedKept ==
    ASSUME ExecInv, Next
    PROVE  Bounded'
<1> USE DEF ExecInv
<1>1. \A e \in Entries : e.prio.score \in Nat
  BY DEF TypeOK, Entries, Entry, Priority
<1>2. ASSUME NEW new \in Entry, Entries' \subseteq Entries \cup {new}
      PROVE  Bounded'
  <2>1. PICK b \in Nat : \A e \in Entries : e.prio.score <= b
    BY DEF Bounded
  <2>2. new.prio.score \in Nat
    BY DEF Entry, Priority
  <2>3. b + new.prio.score \in Nat /\ \A e \in Entries' : e.prio.score <= b + new.prio.score
    BY <1>1, <1>2, <2>1, <2>2
  <2>4. QED
    BY <2>3 DEF Bounded
<1>3. ASSUME Entries' \subseteq Entries
      PROVE  Bounded'
  BY <1>3 DEF Bounded
<1>4. ASSUME NEW r \in Requests, NEW p \in Priorities, NEW preempt \in BOOLEAN,
             Submit(r, p, preempt)
      PROVE  Bounded'
  <2>1. PICK e \in Entry : pending' = With(pending, r, e)
    BY <1>4, SubmitIs
  <2>2. Entries' \subseteq Entries \cup {e}
    BY <1>4, <2>1 DEF Submit, Entries, With
  <2>3. QED
    BY <1>2, <2>2
<1>5. ASSUME NEW r \in Requests, NEW tier \in Tiers \cup {None},
             NEW score \in {p.score : p \in Priorities} \cup {None}, WritePriority(r, tier, score)
      PROVE  Bounded'
  <2>1. CASE r \in DOMAIN pending
    <3>1. PICK new \in Entry : pending' = [pending EXCEPT ![r] = new]
      BY <1>5, <2>1, WriteIs
    <3>2. Entries' \subseteq Entries \cup {new}
      BY <1>5, <2>1, <3>1 DEF WritePriority, Entries
    <3>3. QED
      BY <1>2, <3>2
  <2>2. CASE r \in DOMAIN running \ DOMAIN pending
    <3>1. /\ DOMAIN running' = DOMAIN running /\ pending' = pending
          /\ \A q \in DOMAIN running \ {r} : running'[q] = running[q]
      BY <1>5, <2>2 DEF WritePriority
    <3>2. running'[r] \in Entry
      BY <2>2, <3>1, TypesKept DEF TypeOK
    <3>3. Entries' \subseteq Entries \cup {running'[r]}
      BY <3>1 DEF Entries
    <3>4. QED
      BY <1>2, <3>2, <3>3
  <2>3. QED
    BY <1>5, <2>1, <2>2 DEF WritePriority
<1>6. ASSUME NEW w \in Workers, Take(w)
      PROVE  Bounded'
  BY <1>3, <1>6, TakeIs DEF Entries, With, Without
<1>7. ASSUME NEW w \in Workers, Leave(w)
      PROVE  Bounded'
  BY <1>3, <1>7 DEF Leave, Entries, Without
<1>8. CASE UNCHANGED <<pending, running>>
  BY <1>8 DEF Bounded, Entries
<1>9. QED
  BY <1>4, <1>5, <1>6, <1>7, <1>8
     DEF Next, CancelFuture, Shutdown, Look, Wait, Exit, Serve, Begin, Settle

-----------------------------------------------------------------------------
\* Every step keeps that an outranked task has been asked to stop.
LEMMA AskedKept ==
    ASSUME ExecInv, Next
    PROVE  OutrankedIsAsked'
<1> USE DEF ExecInv
<1> DEFINE Asked(e, d) == Outranks(e.prio, d.prio) => d.fut \in cancelled
<1>1. \A q \in DOMAIN pending, r \in DOMAIN running :
        pending[q].preempt /\ running[r].seq \notin rewritten => Asked(pending[q], running[r])
  BY DEF OutrankedIsAsked
<1>2. ASSUME NEW p, NEW d \in DOMAIN running, Outranks(p, running[d].prio)
      PROVE  running[d].fut \in Preempted(p)
  BY <1>2 DEF Preempted
<1>3. ASSUME NEW r \in Requests, NEW p \in Priorities, NEW preempt \in BOOLEAN,
             Submit(r, p, preempt)
      PROVE  OutrankedIsAsked'
  <2>1. PICK e \in Entry : /\ e.prio = p /\ e.preempt = preempt
                           /\ pending' = With(pending, r, e)
    BY <1>3, SubmitIs
  <2>2. UNCHANGED <<running, rewritten>> /\ cancelled \subseteq cancelled'
    BY <1>3 DEF Submit
  <2>3. preempt => cancelled' = cancelled \cup Preempted(p)
    BY <1>3 DEF Submit
  <2>4. QED
    BY <1>1, <1>2, <2>1, <2>2, <2>3 DEF OutrankedIsAsked, With
<1>4. ASSUME NEW r \in Requests, NEW tier \in Tiers \cup {None},
             NEW score \in {p.score : p \in Priorities} \cup {None}, WritePriority(r, tier, score)
      PROVE  OutrankedIsAsked'
  <2>1. CASE r \in DOMAIN pending
    <3>1. PICK new \in Entry : /\ pending' = [pending EXCEPT ![r] = new]
                               /\ cancelled' = cancelled \cup Preempted(new.prio)
      BY <1>4, <2>1, WriteIs
    <3>2. UNCHANGED <<running, rewritten>>
      BY <1>4, <2>1 DEF WritePriority
    <3>3. QED
      BY <1>1, <1>2, <3>1, <3>2 DEF OutrankedIsAsked
  <2>2. CASE r \in DOMAIN running \ DOMAIN pending
    <3>1. /\ DOMAIN running' = DOMAIN running /\ UNCHANGED <<pending, cancelled>>
          /\ \A d \in DOMAIN running \ {r} : running'[d] = running[d]
          /\ rewritten' = rewritten \cup {running[r].seq}
      BY <1>4, <2>2 DEF WritePriority
    <3>2. running'[r].seq = running[r].seq
      <4>1. running[r] \in Entry
        BY <2>2 DEF TypeOK
      <4>2. QED
        BY <1>4, <2>2, <4>1 DEF WritePriority, Entry
    <3>3. QED
      BY <1>1, <3>1, <3>2 DEF OutrankedIsAsked
  <2>3. QED
    BY <1>4, <2>1, <2>2 DEF WritePriority
<1>5. ASSUME NEW w \in Workers, Take(w)
      PROVE  OutrankedIsAsked'
  <2>1. PICK r \in DOMAIN pending :
          /\ \A q \in DOMAIN pending \ {r} : Before(pending[r], pending[q])
          /\ pending' = Without(pending, r) /\ running' = With(running, r, pending[r])
    BY <1>5, TakeIs
  <2>2. ASSUME NEW q \in DOMAIN pending \ {r}
        PROVE  ~Outranks(pending[q].prio, pending[r].prio)
    <3>1. /\ pending[q].prio \in Priority /\ pending[r].prio \in Priority
          /\ Before(pending[r], pending[q]) /\ Hysteresis \in Nat
      BY <2>1, ExecutorAssumption DEF TypeOK, Entry
    <3>2. /\ pending[q].prio.tier \in Nat /\ pending[r].prio.tier \in Nat
          /\ pending[q].prio.score \in Nat /\ pending[r].prio.score \in Nat
      BY <3>1 DEF Priority
    <3>3. QED
      BY <3>1, <3>2 DEF Before, Outranks
  <2>3. UNCHANGED <<cancelled, rewritten>>
    BY <1>5 DEF Take
  <2>4. QED
    BY <1>1, <2>1, <2>2, <2>3 DEF OutrankedIsAsked, With, Without
<1>6. ASSUME NEW w \in Workers, Leave(w)
      PROVE  OutrankedIsAsked'
  BY <1>1, <1>6 DEF Leave, Without, OutrankedIsAsked
<1>7. CASE UNCHANGED <<pending, running, cancelled, rewritten>>
  BY <1>7 DEF OutrankedIsAsked
<1>8. QED
  BY <1>3, <1>4, <1>5, <1>6, <1>7
     DEF Next, CancelFuture, Shutdown, Look, Wait, Exit, Serve, Begin, Settle

-----------------------------------------------------------------------------
\* The inductive invariant.
THEOREM ExecutorInvariant == Spec => []ExecInv
<1>1. Init => ExecInv
  <2> SUFFICES ASSUME Init
               PROVE  ExecInv
    OBVIOUS
  <2>1. /\ DOMAIN pending = {} /\ DOMAIN running = {} /\ heap = {}
        /\ \A w \in Workers : pc[w] = "looking"
    BY DEF Init
  <2>2. TypeOK
    <3>1. /\ future \in [Futures -> {"none", "pending", "running", "done", "cancelled"}]
          /\ pc \in [Workers -> PC] /\ job \in [Workers -> Entry \cup {None}]
      BY DEF Init, PC
    <3>2. submits \in 0..MaxSubmits /\ writes \in 0..MaxWrites /\ nextSeq \in Nat
      BY ExecutorAssumption DEF Init
    <3>3. isShutdown \in BOOLEAN /\ cancelled = {} /\ rewritten = {}
      BY DEF Init
    <3>4. QED
      BY <2>1, <3>1, <3>2, <3>3 DEF TypeOK
  <2>3. Queued /\ Futs
    BY <2>1 DEF Init, Queued, Futs, Holders, At
  <2>4. Tables /\ Drains /\ OutrankedIsAsked
    BY <2>1 DEF Init, Tables, Drains, DrainedBeforeExit, Holders, At, OutrankedIsAsked
  <2>5. Works
    <3>1. Current = {} /\ At({"waiting"}) = {}
      BY <2>1 DEF Current, At
    <3>2. QED
      BY <3>1, FS_EmptySet DEF Works, WorkConserving
  <2>6. Bounded
    <3>1. Entries = {}
      BY <2>1 DEF Entries
    <3>2. QED
      BY <3>1 DEF Bounded
  <2>7. QED
    BY <2>2, <2>3, <2>4, <2>5, <2>6 DEF ExecInv
<1>2. ExecInv /\ [Next]_vars => ExecInv'
  <2>1. ExecInv /\ Next => ExecInv'
    BY TypesKept, QueuedKept, FutsKept, TablesKept, DrainsKept, WorksKept, BoundedKept, AskedKept
       DEF ExecInv
  <2>2. ExecInv /\ UNCHANGED vars => ExecInv'
    BY DEF vars, ExecInv, TypeOK, Queued, Futs, Tables, Drains, DrainedBeforeExit, Works,
           WorkConserving, Bounded, Entries, OutrankedIsAsked, Holders, At, Current
  <2>3. QED
    BY <2>1, <2>2
<1>3. QED
  BY <1>1, <1>2, PTL DEF Spec

\* Cooperative preemption misses nobody (executor.py, _maybe_preempt_locked).
THEOREM ExecutorOutrankedIsAsked == Spec => []OutrankedIsAsked
BY ExecutorInvariant, PTL DEF ExecInv

\* No worker sleeps beside queued work, nothing pending is lost, no worker leaves
\* work behind, and no future is run twice, if callers keep their ids apart
\* (executor.py, submit, _worker_loop, write_priority, shutdown).
THEOREM ExecutorQueueIsSound == UniqueIds => (Spec => []QueueIsSound)
<1>1. UniqueIds /\ ExecInv => QueueIsSound
  <2> SUFFICES ASSUME UniqueIds, ExecInv
               PROVE  QueueIsSound
    OBVIOUS
  <2>1. PendingIsQueued
    BY CurrentIs DEF ExecInv, PendingIsQueued
  <2>2. RunsOnce
    BY DEF ExecInv, Futs, Tables, RunsOnce, Holders
  <2>3. QED
    BY <2>1, <2>2 DEF ExecInv, Works, Drains, QueueIsSound
<1>2. UniqueIds => UniqueIds'
  OBVIOUS
<1>3. QED
  BY <1>1, <1>2, ExecutorInvariant, PTL

\* The executor implements the pool of futures: a body runs at most once and never
\* after a cancel, whatever is re-prioritised (executor.py, _worker_loop).
THEOREM ExecutorImplements == Spec => ImplementsPool
<1>1. Init => Pool!Init
  BY DEF Init, Pool!Init
<1>2. ExecInv /\ [Next]_vars => [Pool!Next]_future
  <2> SUFFICES ASSUME ExecInv, Next, ~UNCHANGED future
               PROVE  Pool!Next
    BY DEF vars
  <2> USE DEF ExecInv
  <2>1. ASSUME NEW r \in Requests, NEW p \in Priorities, NEW preempt \in BOOLEAN,
               Submit(r, p, preempt)
        PROVE  Pool!Next
    <3>1. submits \in Futures /\ submits \in Nat
      BY <2>1, SubmitIs, ExecutorAssumption DEF TypeOK
    <3>2. future[submits] = "none"
      BY <3>1 DEF Futs
    <3>3. Pool!Submit(submits)
      BY <2>1, <3>2 DEF Submit, Pool!Submit, Pool!Move
    <3>4. QED
      BY <3>1, <3>3 DEF Pool!Next
  <2>2. ASSUME NEW f \in Futures, CancelFuture(f)
        PROVE  Pool!Next
    BY <2>2 DEF CancelFuture, Pool!Next, Pool!Cancel, Pool!Move
  <2>3. ASSUME NEW w \in Workers, Begin(w)
        PROVE  Pool!Next
    <3>1. job[w].fut \in Futures
      BY <2>3 DEF Begin, Futs, Holders, At, Entry
    <3>2. Pool!Run(job[w].fut)
      BY <2>3 DEF Begin, Pool!Run, Pool!Move
    <3>3. QED
      BY <3>1, <3>2 DEF Pool!Next
  <2>4. ASSUME NEW w \in Workers, Settle(w)
        PROVE  Pool!Next
    <3>1. job[w].fut \in Futures /\ future[job[w].fut] = "running"
      BY <2>4 DEF Settle, Futs, Holders, At, Entry
    <3>2. Pool!Finish(job[w].fut)
      BY <2>4, <3>1 DEF Settle, Pool!Finish, Pool!Move
    <3>3. QED
      BY <3>1, <3>2 DEF Pool!Next
  <2>5. QED
    BY <2>1, <2>2, <2>3, <2>4
       DEF Next, WritePriority, Shutdown, Look, Take, Wait, Exit, Serve, Leave
<1>3. QED
  BY <1>1, <1>2, ExecutorInvariant, PTL DEF Spec, ImplementsPool, Pool!Spec
=============================================================================

------------------------- MODULE IntelligenceProofs -------------------------
(***************************************************************************)
(* Three parts of mindsos_intelligence that threads share: the lock of the *)
(* mental models, the layer that starts and stops everything, and how a    *)
(* vital becomes a need.                                                   *)
(*                                                                         *)
(* RWLock, for every finite set of threads: the counters are exact, a      *)
(* writer is alone, a waiting writer blocks readers, no wake-up is lost    *)
(* unless a wait is interrupted, and the lock implements the abstract one. *)
(* Everything follows from one inductive invariant: TypeOK, CountersExact  *)
(* and WriterAlone together.  Neither of the last two is inductive alone:  *)
(* a writer gets in because two fields say nobody is inside, and they are  *)
(* right about that only because they count.                               *)
(*                                                                         *)
(* IntelligenceLayer, for any calls, stops and request ids: what an abort  *)
(* misses is only known once its walk has ended; Walk says of every        *)
(* position the walk has passed that the token there is set or is a        *)
(* racer's, and that after it, this holds of the whole table although      *)
(* calls still put tokens in.  Teardown orders the steps of the one stop   *)
(* that acts.                                                              *)
(*                                                                         *)
(* SubMindSensing, for any SubMinds, bands and margins: a need is right    *)
(* once nothing is on its way because the newest signal of a fired SubMind *)
(* has the tier it last emitted, wherever the signal is (Current), and     *)
(* what is older comes before it.                                          *)
(***************************************************************************)
EXTENDS RWLock, IntelligenceLayer, SubMindSensing, FiniteSetTheorems, WellFoundedInduction,
        TLAPS

IInv == TypeOK /\ CountersExact /\ WriterAlone

-----------------------------------------------------------------------------
\* At(S) is finite and a thread outside it adds one, a thread inside takes one.
LEMMA AtFinite ==
    ASSUME NEW S
    PROVE  /\ IsFiniteSet(At(S)) /\ Cardinality(At(S)) \in Nat
           /\ Cardinality(At(S)) = 0 <=> At(S) = {}
  <1>1. At(S) \in SUBSET Threads
    BY DEF At
  <1>2. IsFiniteSet(At(S))
    BY <1>1, ThreadsFinite, FS_Subset
  <1>3. QED
    BY <1>2, FS_CardinalityType, FS_EmptySet

\* What one thread's move from one label to another does to the three sets the
\* counters count.
LEMMA AtMove ==
    ASSUME TypeOK, NEW t \in Threads, NEW v \in PC,
           pc' = [pc EXCEPT ![t] = v]
    PROVE  /\ At({"reading"})' = IF v = "reading" THEN At({"reading"}) \cup {t}
                                                 ELSE At({"reading"}) \ {t}
           /\ At({"sleepW", "wokenW"})' =
                IF v \in {"sleepW", "wokenW"} THEN At({"sleepW", "wokenW"}) \cup {t}
                                              ELSE At({"sleepW", "wokenW"}) \ {t}
           /\ At({"writing"})' = IF v = "writing" THEN At({"writing"}) \cup {t}
                                                 ELSE At({"writing"}) \ {t}
  <1>1. \A u \in Threads : pc'[u] = IF u = t THEN v ELSE pc[u]
    BY DEF TypeOK
  <1>2. At({"reading"})' = IF v = "reading" THEN At({"reading"}) \cup {t}
                                          ELSE At({"reading"}) \ {t}
    BY <1>1 DEF At
  <1>3. At({"sleepW", "wokenW"})' =
          IF v \in {"sleepW", "wokenW"} THEN At({"sleepW", "wokenW"}) \cup {t}
                                        ELSE At({"sleepW", "wokenW"}) \ {t}
    BY <1>1 DEF At
  <1>4. At({"writing"})' = IF v = "writing" THEN At({"writing"}) \cup {t}
                                          ELSE At({"writing"}) \ {t}
    BY <1>1 DEF At
  <1>5. QED BY <1>2, <1>3, <1>4

\* notify_all moves sleepers to woken and t out, and nobody else.
LEMMA AtNotify ==
    ASSUME TypeOK, NEW t \in Threads, NotifyAllAndLeave(t)
    PROVE  /\ pc' \in [Threads -> PC]
           /\ At({"reading"})' = At({"reading"}) \ {t}
           /\ At({"writing"})' = At({"writing"}) \ {t}
           /\ \/ pc[t] \in {"sleepW", "wokenW"}
              \/ At({"sleepW", "wokenW"})' = At({"sleepW", "wokenW"})
           /\ At({"sleepR", "sleepW"})' = {}
  <1>1. \A u \in Threads :
          /\ u = t => pc'[u] = "out"
          /\ u # t /\ pc[u] = "sleepR" => pc'[u] = "wokenR"
          /\ u # t /\ pc[u] = "sleepW" => pc'[u] = "wokenW"
          /\ u # t /\ pc[u] \notin {"sleepR", "sleepW"} => pc'[u] = pc[u]
    BY DEF NotifyAllAndLeave, Notified
  <1>2. pc' \in [Threads -> PC]
    BY DEF NotifyAllAndLeave, Notified, TypeOK, PC
  <1>3. At({"reading"})' = At({"reading"}) \ {t}
    BY <1>1 DEF At
  <1>4. At({"writing"})' = At({"writing"}) \ {t}
    BY <1>1 DEF At
  <1>5. \/ pc[t] \in {"sleepW", "wokenW"}
        \/ At({"sleepW", "wokenW"})' = At({"sleepW", "wokenW"})
    BY <1>1 DEF At
  <1>6. At({"sleepR", "sleepW"})' = {}
    BY <1>1 DEF At
  <1>7. QED BY <1>2, <1>3, <1>4, <1>5, <1>6

-----------------------------------------------------------------------------
LEMMA InitInv == Init => IInv
  <1> SUFFICES ASSUME Init PROVE IInv
    OBVIOUS
  <1>1. \A S : "out" \notin S => At(S) = {}
    BY DEF Init, At
  <1>2. At({"reading"}) = {} /\ At({"sleepW", "wokenW"}) = {} /\ At({"writing"}) = {}
    BY <1>1
  <1>3. TypeOK /\ WriterAlone
    BY DEF Init, TypeOK, PC, WriterAlone
  <1>4. CountersExact
    BY <1>2, FS_EmptySet DEF Init, CountersExact
  <1>5. QED
    BY <1>3, <1>4 DEF IInv

LEMMA NextInv == IInv /\ [Next]_vars => IInv'
  <1> SUFFICES ASSUME IInv, [Next]_vars PROVE IInv'
    OBVIOUS
  <1> USE DEF IInv
  <1> DEFINE R == At({"reading"})
             W == At({"sleepW", "wokenW"})
             A == At({"writing"})
  <1>0. /\ IsFiniteSet(R) /\ Cardinality(R) \in Nat /\ (Cardinality(R) = 0 <=> R = {})
        /\ IsFiniteSet(W) /\ Cardinality(W) \in Nat /\ (Cardinality(W) = 0 <=> W = {})
    BY AtFinite
  <1>1. \A t \in Threads : /\ t \in R <=> pc[t] = "reading"
                           /\ t \in W <=> pc[t] \in {"sleepW", "wokenW"}
                           /\ t \in A <=> pc[t] = "writing"
    BY DEF At
  <1>2. \A t : /\ Cardinality(R \cup {t}) = IF t \in R THEN Cardinality(R) ELSE Cardinality(R) + 1
               /\ Cardinality(R \ {t}) = IF t \in R THEN Cardinality(R) - 1 ELSE Cardinality(R)
               /\ Cardinality(W \cup {t}) = IF t \in W THEN Cardinality(W) ELSE Cardinality(W) + 1
               /\ Cardinality(W \ {t}) = IF t \in W THEN Cardinality(W) - 1 ELSE Cardinality(W)
    BY <1>0, FS_AddElement, FS_RemoveElement
  <1>3. /\ readers = Cardinality(R) /\ writersWaiting = Cardinality(W)
        /\ writerActive <=> A # {}
    BY DEF CountersExact
  <1>5. \A t \in Threads : t \in R => Cardinality(R) >= 1
    BY <1>0
  <1>6. \A t \in Threads : t \in W => Cardinality(W) >= 1
    BY <1>0
  <1> HIDE DEF R, W, A
  <1>7. ASSUME NEW t \in Threads, AcquireRead(t) PROVE IInv'
    <2>1. R' = R \cup {t} /\ W' = W \ {t} /\ A' = A \ {t}
      BY <1>7, AtMove DEF AcquireRead, R, W, A, PC
    <2>2. t \notin R /\ t \notin W /\ A = {}
      BY <1>7, <1>1, <1>3 DEF AcquireRead, ReadBlocked
    <2>3. TypeOK'
      BY <1>7 DEF TypeOK, AcquireRead, PC
    <2>4. CountersExact'
      BY <1>7, <1>2, <1>3, <2>1, <2>2 DEF CountersExact, AcquireRead, R, W, A
    <2>5. WriterAlone'
      BY <1>7, <1>1, <2>2 DEF TypeOK, WriterAlone, AcquireRead
    <2>6. QED BY <2>3, <2>4, <2>5
  <1>8. ASSUME NEW t \in Threads, ReadWait(t) PROVE IInv'
    <2>1. R' = R \ {t} /\ W' = W \ {t} /\ A' = A \ {t}
      BY <1>8, AtMove DEF ReadWait, R, W, A, PC
    <2>2. t \notin R /\ t \notin W /\ t \notin A
      BY <1>8, <1>1 DEF ReadWait
    <2>3. TypeOK'
      BY <1>8 DEF TypeOK, ReadWait, PC
    <2>4. CountersExact'
      BY <1>8, <1>3, <2>1, <2>2 DEF CountersExact, ReadWait, R, W, A
    <2>5. WriterAlone'
      BY <1>8 DEF TypeOK, WriterAlone, ReadWait
    <2>6. QED BY <2>3, <2>4, <2>5
  <1>9. ASSUME NEW t \in Threads, ReleaseRead(t) PROVE IInv'
    <2>1. t \in R /\ t \notin W /\ t \notin A /\ readers - 1 \in Nat
      BY <1>9, <1>0, <1>1, <1>3, <1>5 DEF ReleaseRead
    <2>2. /\ R' = R \ {t} /\ W' = W \ {t} /\ A' = A \ {t}
          /\ pc' \in [Threads -> PC]
      <3>1. CASE readers' = 0
        BY <1>9, <2>1, <3>1, AtNotify DEF ReleaseRead, R, W, A
      <3>2. CASE readers' # 0
        BY <1>9, <3>2, AtMove DEF ReleaseRead, R, W, A, TypeOK, PC
      <3>3. QED BY <3>1, <3>2
    <2>3. TypeOK'
      BY <1>9, <2>1, <2>2 DEF TypeOK, ReleaseRead
    <2>4. CountersExact'
      BY <1>9, <1>2, <1>3, <2>1, <2>2 DEF CountersExact, ReleaseRead, R, W, A
    <2>5. \A u \in Threads : pc'[u] \in {"reading", "writing"} => pc[u] = pc'[u]
      BY <1>9 DEF ReleaseRead, NotifyAllAndLeave, Notified, TypeOK
    <2>6. WriterAlone'
      BY <2>5 DEF WriterAlone
    <2>7. QED BY <2>3, <2>4, <2>6
  <1>10. ASSUME NEW t \in Threads, AcquireWriteAtOnce(t) PROVE IInv'
    <2>1. R' = R \ {t} /\ W' = W \ {t} /\ A' = A \cup {t}
      BY <1>10, AtMove DEF AcquireWriteAtOnce, R, W, A, PC
    <2>2. t \notin R /\ t \notin W /\ A = {} /\ R = {}
      BY <1>10, <1>0, <1>1, <1>3 DEF AcquireWriteAtOnce, WriteBlocked, TypeOK
    <2>3. TypeOK'
      BY <1>10 DEF TypeOK, AcquireWriteAtOnce, PC
    <2>4. CountersExact'
      BY <1>10, <1>3, <2>1, <2>2 DEF CountersExact, AcquireWriteAtOnce, R, W, A
    <2>5. WriterAlone'
      BY <1>10, <1>1, <2>2 DEF TypeOK, WriterAlone, AcquireWriteAtOnce
    <2>6. QED BY <2>3, <2>4, <2>5
  <1>11. ASSUME NEW t \in Threads, WriteWait(t) PROVE IInv'
    <2>1. R' = R \ {t} /\ W' = W \cup {t} /\ A' = A \ {t}
      BY <1>11, AtMove DEF WriteWait, R, W, A, PC
    <2>2. t \notin R /\ t \notin W /\ t \notin A
      BY <1>11, <1>1 DEF WriteWait
    <2>3. TypeOK'
      BY <1>11 DEF TypeOK, WriteWait, PC
    <2>4. CountersExact'
      BY <1>11, <1>2, <1>3, <2>1, <2>2 DEF CountersExact, WriteWait, R, W, A
    <2>5. WriterAlone'
      BY <1>11 DEF TypeOK, WriterAlone, WriteWait
    <2>6. QED BY <2>3, <2>4, <2>5
  <1>12. ASSUME NEW t \in Threads, AcquireWriteWoken(t) PROVE IInv'
    <2>1. R' = R \ {t} /\ W' = W \ {t} /\ A' = A \cup {t}
      BY <1>12, AtMove DEF AcquireWriteWoken, R, W, A, PC
    <2>2. t \notin R /\ t \in W /\ A = {} /\ R = {} /\ writersWaiting - 1 \in Nat
      BY <1>12, <1>0, <1>1, <1>3, <1>6 DEF AcquireWriteWoken, WriteBlocked, TypeOK
    <2>3. TypeOK'
      BY <1>12, <2>2 DEF TypeOK, AcquireWriteWoken, PC
    <2>4. CountersExact'
      BY <1>12, <1>2, <1>3, <2>1, <2>2 DEF CountersExact, AcquireWriteWoken, R, W, A
    <2>5. WriterAlone'
      BY <1>12, <1>1, <2>2 DEF TypeOK, WriterAlone, AcquireWriteWoken
    <2>6. QED BY <2>3, <2>4, <2>5
  <1>13. ASSUME NEW t \in Threads, WriteWaitAgain(t) PROVE IInv'
    <2>1. R' = R \ {t} /\ W' = W \cup {t} /\ A' = A \ {t}
      BY <1>13, AtMove DEF WriteWaitAgain, R, W, A, PC
    <2>2. t \notin R /\ t \in W /\ t \notin A
      BY <1>13, <1>1 DEF WriteWaitAgain
    <2>3. TypeOK'
      BY <1>13 DEF TypeOK, WriteWaitAgain, PC
    <2>4. CountersExact'
      BY <1>13, <1>2, <1>3, <2>1, <2>2 DEF CountersExact, WriteWaitAgain, R, W, A
    <2>5. WriterAlone'
      BY <1>13 DEF TypeOK, WriterAlone, WriteWaitAgain
    <2>6. QED BY <2>3, <2>4, <2>5
  <1>14. ASSUME NEW t \in Threads, WriteInterrupted(t) PROVE IInv'
    <2>1. R' = R \ {t} /\ W' = W \ {t} /\ A' = A \ {t}
      BY <1>14, AtMove DEF WriteInterrupted, R, W, A, PC
    <2>2. t \notin R /\ t \in W /\ t \notin A /\ writersWaiting - 1 \in Nat
      BY <1>14, <1>0, <1>1, <1>3, <1>6 DEF WriteInterrupted
    <2>3. TypeOK'
      BY <1>14, <2>2 DEF TypeOK, WriteInterrupted, PC
    <2>4. CountersExact'
      BY <1>14, <1>2, <1>3, <2>1, <2>2 DEF CountersExact, WriteInterrupted, R, W, A
    <2>5. WriterAlone'
      BY <1>14 DEF TypeOK, WriterAlone, WriteInterrupted
    <2>6. QED BY <2>3, <2>4, <2>5
  <1>15. ASSUME NEW t \in Threads, ReadInterrupted(t) PROVE IInv'
    <2>1. R' = R \ {t} /\ W' = W \ {t} /\ A' = A \ {t}
      BY <1>15, AtMove DEF ReadInterrupted, R, W, A, PC
    <2>2. t \notin R /\ t \notin W /\ t \notin A
      BY <1>15, <1>1 DEF ReadInterrupted
    <2>3. TypeOK'
      BY <1>15 DEF TypeOK, ReadInterrupted, PC
    <2>4. CountersExact'
      BY <1>15, <1>3, <2>1, <2>2 DEF CountersExact, ReadInterrupted, R, W, A
    <2>5. WriterAlone'
      BY <1>15 DEF TypeOK, WriterAlone, ReadInterrupted
    <2>6. QED BY <2>3, <2>4, <2>5
  <1>16. ASSUME NEW t \in Threads, ReleaseWrite(t) PROVE IInv'
    <2>1. A = {t} /\ t \notin R /\ t \notin W
      <3>1. \A u \in Threads : u \in A => u = t
        BY <1>16, <1>1 DEF ReleaseWrite, WriterAlone
      <3>2. A \subseteq Threads /\ t \in A
        BY <1>16 DEF A, At, ReleaseWrite
      <3>3. QED BY <1>16, <1>1, <3>1, <3>2 DEF ReleaseWrite
    <2>2. /\ R' = R \ {t} /\ W' = W \ {t} /\ A' = A \ {t}
          /\ pc' \in [Threads -> PC]
      BY <1>16, <2>1, AtNotify DEF ReleaseWrite, R, W, A
    <2>3. TypeOK'
      BY <1>16, <2>2 DEF TypeOK, ReleaseWrite
    <2>4. CountersExact'
      BY <1>16, <1>2, <1>3, <2>1, <2>2 DEF CountersExact, ReleaseWrite, R, W, A
    <2>5. \A u \in Threads : pc'[u] \in {"reading", "writing"} => pc[u] = pc'[u]
      BY <1>16 DEF ReleaseWrite, NotifyAllAndLeave, Notified, TypeOK
    <2>6. WriterAlone'
      BY <2>5 DEF WriterAlone
    <2>7. QED BY <2>3, <2>4, <2>6
  <1>17. CASE UNCHANGED vars
    BY <1>17 DEF vars, TypeOK, CountersExact, WriterAlone, At
  <1>18. QED
    BY <1>7, <1>8, <1>9, <1>10, <1>11, <1>12, <1>13, <1>14, <1>15, <1>16, <1>17
       DEF Next

-----------------------------------------------------------------------------
\* The fields of the lock count the threads that are inside or waiting, at
\* every moment, whatever the number of threads.
THEOREM RWLockInvariant == Spec => []IInv
  BY InitInv, NextInv, PTL DEF Spec

\* rwlock.py's counters are exact: acquire and release keep them in step.
THEOREM RWLockCountersExact == Spec => []CountersExact
  <1>1. IInv => CountersExact
    BY DEF IInv
  <1>2. QED
    BY <1>1, RWLockInvariant, PTL

\* A write excludes all readers and writers.
THEOREM RWLockWriterAlone == Spec => []WriterAlone
  <1>1. IInv => WriterAlone
    BY DEF IInv
  <1>2. QED
    BY <1>1, RWLockInvariant, PTL

\* A waiting writer blocks new readers: the counter that holds them back is
\* exact, so it is positive for as long as one writer waits.
THEOREM RWLockWriterPreference == Spec => WaitingWriterBlocksReaders
  <1>1. ASSUME IInv, [Next]_vars, At({"sleepW", "wokenW"}) # {},
               NEW t \in Threads, pc'[t] = "reading"
        PROVE  pc[t] = "reading"
    <2>1. writersWaiting > 0
      BY <1>1, AtFinite DEF IInv, CountersExact, TypeOK
    <2>2. ASSUME NEW u \in Threads, AcquireRead(u) PROVE FALSE
      BY <2>1, <2>2 DEF AcquireRead, ReadBlocked
    <2>3. ASSUME NEW u \in Threads,
                 \/ ReadWait(u) \/ ReleaseRead(u) \/ AcquireWriteAtOnce(u)
                 \/ WriteWait(u) \/ AcquireWriteWoken(u) \/ WriteWaitAgain(u)
                 \/ WriteInterrupted(u) \/ ReadInterrupted(u) \/ ReleaseWrite(u)
          PROVE  pc[t] = "reading"
      BY <1>1, <2>3 DEF IInv, TypeOK, ReadWait, ReleaseRead, AcquireWriteAtOnce,
           WriteWait, AcquireWriteWoken, WriteWaitAgain, WriteInterrupted,
           ReadInterrupted, ReleaseWrite, NotifyAllAndLeave, Notified
    <2>4. CASE UNCHANGED vars
      BY <1>1, <2>4 DEF vars
    <2>5. QED
      BY <1>1, <2>2, <2>3, <2>4 DEF Next
  <1>2. IInv /\ [Next]_vars =>
          [At({"sleepW", "wokenW"}) # {}
             => \A t \in Threads : pc'[t] = "reading" => pc[t] = "reading"]_vars
    BY <1>1
  <1>3. QED
    BY <1>2, RWLockInvariant, PTL DEF Spec, WaitingWriterBlocksReaders

-----------------------------------------------------------------------------
\* No wake-up is lost until an exception ends a writer's wait: whenever a
\* thread sleeps, another is inside, or is a woken writer on its way in.
THEOREM RWLockNoLostWakeup == Spec => []SleeperHasWaker
  <1>1. Init => SleeperHasWaker
    BY DEF Init, SleeperHasWaker, At
  <1>2. IInv /\ SleeperHasWaker /\ [Next]_vars => SleeperHasWaker'
    <2> SUFFICES ASSUME IInv, SleeperHasWaker, [Next]_vars
                 PROVE  SleeperHasWaker'
      OBVIOUS
    <2> USE DEF IInv
    <2>1. writerActive => \E u \in Threads : pc[u] = "writing"
      BY DEF CountersExact, At
    <2>2. readers > 0 => \E u \in Threads : pc[u] = "reading"
      <3>1. readers > 0 => At({"reading"}) # {}
        BY AtFinite DEF CountersExact, TypeOK
      <3>2. QED BY <3>1 DEF At
    <2>3. writersWaiting > 0 => \E u \in Threads : pc[u] \in {"sleepW", "wokenW"}
      <3>1. writersWaiting > 0 => At({"sleepW", "wokenW"}) # {}
        BY AtFinite DEF CountersExact, TypeOK
      <3>2. QED BY <3>1 DEF At
    <2>4. ASSUME ~broken, NEW u \in Threads, pc[u] \in {"sleepR", "sleepW"}
          PROVE  \E w \in Threads : pc[w] \in {"reading", "writing", "wokenW"}
      BY <2>4 DEF SleeperHasWaker, At
    <2>5. SUFFICES ASSUME ~broken', NEW u \in Threads, pc'[u] \in {"sleepR", "sleepW"}
                   PROVE  \E w \in Threads : pc'[w] \in {"reading", "writing", "wokenW"}
      BY DEF SleeperHasWaker, At
    <2>6. ASSUME NEW t \in Threads,
                 AcquireRead(t) \/ AcquireWriteAtOnce(t) \/ AcquireWriteWoken(t)
          PROVE  \E w \in Threads : pc'[w] \in {"reading", "writing", "wokenW"}
      BY <2>6 DEF TypeOK, AcquireRead, AcquireWriteAtOnce, AcquireWriteWoken
    <2>7. ASSUME NEW t \in Threads, ReadWait(t)
          PROVE  \E w \in Threads : pc'[w] \in {"reading", "writing", "wokenW"}
      <3>1. PICK w \in Threads : pc[w] \in {"reading", "writing", "wokenW"}
        BY <2>1, <2>3, <2>4, <2>5, <2>7 DEF ReadWait, ReadBlocked
      <3>2. w # t
        BY <2>7, <3>1 DEF ReadWait
      <3>3. QED BY <2>7, <3>1, <3>2 DEF ReadWait, TypeOK
    <2>8. ASSUME NEW t \in Threads, WriteWait(t) \/ WriteWaitAgain(t)
          PROVE  \E w \in Threads : pc'[w] \in {"reading", "writing", "wokenW"}
      <3>1. PICK w \in Threads : pc[w] \in {"reading", "writing"}
        BY <2>1, <2>2, <2>8 DEF WriteWait, WriteWaitAgain, WriteBlocked
      <3>2. w # t
        BY <2>8, <3>1 DEF WriteWait, WriteWaitAgain
      <3>3. QED BY <2>8, <3>1, <3>2 DEF WriteWait, WriteWaitAgain, TypeOK
    <2>9. ASSUME NEW t \in Threads, ReleaseRead(t)
          PROVE  \E w \in Threads : pc'[w] \in {"reading", "writing", "wokenW"}
      <3>1. CASE readers' = 0
        <4>1. \A w \in Threads : pc'[w] \notin {"sleepR", "sleepW"}
          BY <2>9, <3>1 DEF ReleaseRead, NotifyAllAndLeave, Notified
        <4>2. QED BY <2>5, <4>1
      <3>2. CASE readers' # 0
        <4>1. TypeOK' /\ CountersExact'
          BY NextInv
        <4>2. readers' > 0
          BY <3>2, <4>1 DEF TypeOK
        <4>3. At({"reading"})' # {}
          BY <4>1, <4>2, FS_EmptySet DEF CountersExact
        <4>4. QED BY <4>3 DEF At
      <3>3. QED BY <3>1, <3>2
    <2>10. ASSUME NEW t \in Threads, ReleaseWrite(t)
           PROVE  \E w \in Threads : pc'[w] \in {"reading", "writing", "wokenW"}
      <3>1. \A w \in Threads : pc'[w] \notin {"sleepR", "sleepW"}
        BY <2>10 DEF ReleaseWrite, NotifyAllAndLeave, Notified
      <3>2. QED BY <2>5, <3>1
    <2>11. ASSUME NEW t \in Threads, ReadInterrupted(t)
           PROVE  \E w \in Threads : pc'[w] \in {"reading", "writing", "wokenW"}
      <3>1. pc[u] \in {"sleepR", "sleepW"} /\ ~broken
        BY <2>5, <2>11 DEF ReadInterrupted, TypeOK
      <3>2. PICK w \in Threads : pc[w] \in {"reading", "writing", "wokenW"}
        BY <2>4, <3>1
      <3>3. w # t
        BY <2>11, <3>2 DEF ReadInterrupted
      <3>4. QED BY <2>11, <3>2, <3>3 DEF ReadInterrupted, TypeOK
    <2>12. ASSUME NEW t \in Threads, WriteInterrupted(t) PROVE FALSE
      BY <2>5, <2>12 DEF WriteInterrupted
    <2>13. CASE UNCHANGED vars
      BY <2>4, <2>5, <2>13 DEF vars
    <2>14. QED
      BY <2>6, <2>7, <2>8, <2>9, <2>10, <2>11, <2>12, <2>13 DEF Next
  <1>3. QED
    BY <1>1, <1>2, RWLockInvariant, PTL DEF Spec

\* The counters are exact and a writer is alone, together with the types: what
\* the runs check as one invariant.
THEOREM RWLockExclusion == Spec => []Exclusion
  <1>1. IInv => Exclusion
    BY DEF IInv, Exclusion
  <1>2. QED
    BY <1>1, RWLockInvariant, PTL

-----------------------------------------------------------------------------
\* The lock implements the abstract one: every step of the code is an acquire,
\* a release or a stutter of SharedExclusiveLock.
THEOREM RWLockImplements == Spec => ImplementsSharedExclusiveLock
  <1>1. Init => Abstract!Init
    BY DEF Init, Abstract!Init, Holds, Hold
  <1>2. IInv /\ [Next]_vars => [Abstract!Next]_Holds
    <2> SUFFICES ASSUME IInv, [Next]_vars PROVE [Abstract!Next]_Holds
      OBVIOUS
    <2> USE DEF IInv
    <2>1. \A t \in Threads : Holds[t] = Hold(pc[t]) /\ Holds'[t] = Hold(pc'[t])
      BY DEF Holds
    <2>2. /\ writerActive <=> \E t \in Threads : pc[t] = "writing"
          /\ readers = 0 => \A t \in Threads : pc[t] # "reading"
      <3>1. readers = 0 => At({"reading"}) = {}
        BY AtFinite DEF CountersExact
      <3>2. QED BY <3>1 DEF CountersExact, At
    <2>3. ASSUME NEW t \in Threads, AcquireRead(t)
          PROVE  Abstract!AcquireRead(t)
      <3>1. Holds[t] = "none" /\ \A u \in Threads : Holds[u] # "write"
        BY <2>1, <2>2, <2>3 DEF AcquireRead, ReadBlocked, Hold
      <3>2. Holds' = [Holds EXCEPT ![t] = "read"]
        BY <2>3 DEF AcquireRead, Holds, Hold, TypeOK
      <3>3. QED BY <3>1, <3>2 DEF Abstract!AcquireRead
    <2>4. ASSUME NEW t \in Threads, AcquireWriteAtOnce(t) \/ AcquireWriteWoken(t)
          PROVE  Abstract!AcquireWrite(t)
      <3>1. \A u \in Threads : Holds[u] = "none"
        BY <2>1, <2>2, <2>4 DEF AcquireWriteAtOnce, AcquireWriteWoken, WriteBlocked, Hold, TypeOK
      <3>2. Holds' = [Holds EXCEPT ![t] = "write"]
        BY <2>4 DEF AcquireWriteAtOnce, AcquireWriteWoken, Holds, Hold, TypeOK
      <3>3. QED BY <3>1, <3>2 DEF Abstract!AcquireWrite
    <2>5. ASSUME NEW t \in Threads, ReleaseRead(t) \/ ReleaseWrite(t)
          PROVE  Abstract!Release(t)
      <3>1. Holds[t] # "none"
        BY <2>1, <2>5 DEF ReleaseRead, ReleaseWrite, Hold
      <3>2. \A u \in Threads : Hold(pc'[u]) = IF u = t THEN "none" ELSE Hold(pc[u])
        BY <2>5 DEF ReleaseRead, ReleaseWrite, NotifyAllAndLeave, Notified, Hold, TypeOK
      <3>3. Holds' = [Holds EXCEPT ![t] = "none"]
        BY <3>2 DEF Holds
      <3>4. QED BY <3>1, <3>3 DEF Abstract!Release
    <2>6. ASSUME NEW t \in Threads,
                 \/ ReadWait(t) \/ WriteWait(t) \/ WriteWaitAgain(t)
                 \/ WriteInterrupted(t) \/ ReadInterrupted(t)
          PROVE  UNCHANGED Holds
      <3>1. \A u \in Threads : Hold(pc'[u]) = Hold(pc[u])
        BY <2>6 DEF ReadWait, WriteWait, WriteWaitAgain, WriteInterrupted,
             ReadInterrupted, Hold, TypeOK
      <3>2. QED BY <3>1 DEF Holds
    <2>7. CASE UNCHANGED vars
      BY <2>7 DEF vars, Holds
    <2>8. QED
      BY <2>3, <2>4, <2>5, <2>6, <2>7 DEF Next, Abstract!Next
  <1>3. QED
    BY <1>1, <1>2, RWLockInvariant, PTL
       DEF Spec, ImplementsSharedExclusiveLock, Abstract!Spec

-----------------------------------------------------------------------------
\* IntelligenceLayer.  The stop s is the one that has got past the flag.
Acts(s) == stopPc[s] \in InLock \cup {"raised"}

\* A task's call has put its token into the table, under the call's id.
Tokens ==
    /\ \A c \in Calls : callPc[c] \in {"inserted", "accepted"} => req[c] \in Ids
    /\ \A c \in Calls : task[c] # "none" => callPc[c] = "accepted"
    /\ \A r \in Ids : token[r] # NoCall => \E k \in 1..Len(order) : order[k] = r
    /\ \A k \in 1..Len(order) : token[order[k]] # NoCall

\* One stop tears down, in the order of its steps.
Teardown ==
    /\ \A s, t \in Stoppers : Acts(s) /\ Acts(t) => s = t
    /\ ~stopped => \A s \in Stoppers : stopPc[s] = "idle"
    /\ isShutdown => stopped /\ \A s \in Stoppers : stopPc[s] \in {"idle", "join", "returned"}
    /\ \A s \in Stoppers : stopPc[s] = "join" => isShutdown
    /\ (isShutdown \/ \E s \in Stoppers : stopPc[s] = "shutdown") => dream \in {"off", "exited"}
    /\ TornDown => \A c \in Calls : task[c] \notin {"queued", "running"}

\* The walk sets the token of every call but the racers'.
Covered(c) == c \in cancelled \cup racers
Walk ==
    /\ stopped => \A c \in Calls : callPc[c] = "admitted" => c \in racers
    /\ \A s \in Stoppers : stopPc[s] = "walking" =>
         \A k \in 1..walk.seen : Covered(token[order[k]])
    /\ (isShutdown \/ \E s \in Stoppers : stopPc[s] \in {"dream", "shutdown"}) =>
         \A r \in Ids : token[r] # NoCall => Covered(token[r])

LayerInv == LayerTypeOK /\ Tokens /\ Teardown /\ Walk

-----------------------------------------------------------------------------
\* The inductive invariant.
THEOREM LayerInvariant == LayerSpec => []LayerInv
<1>1. LayerInit => LayerInv
  <2> SUFFICES ASSUME LayerInit
               PROVE  LayerInv
    OBVIOUS
  <2>1. LayerTypeOK
    <3>1. /\ order = <<>> /\ Len(order) = 0 /\ order \in Seq(Ids)
          /\ walk \in [seen : 0..Len(order), size : 0..Len(order)]
      BY DEF LayerInit
    <3>2. ticks \in 0..MaxTicks
      BY LayerAssumption DEF LayerInit
    <3>3. QED
      BY <3>1, <3>2 DEF LayerInit, LayerTypeOK
  <2>2. Tokens
    BY DEF LayerInit, Tokens
  <2>3. Teardown
    BY DEF LayerInit, Teardown, Acts, InLock, TornDown
  <2>4. Walk
    BY DEF LayerInit, Walk
  <2>5. QED
    BY <2>1, <2>2, <2>3, <2>4 DEF LayerInv
<1>2. LayerInv /\ [LayerNext]_layerVars => LayerInv'
  <2> SUFFICES ASSUME LayerInv, [LayerNext]_layerVars
               PROVE  LayerInv'
    OBVIOUS
  <2> USE LayerAssumption
  <2>1. CASE Start
    BY <2>1 DEF Start, callVars, stopVars, LayerInv, LayerTypeOK, Tokens,
                Teardown, Walk, Covered, Acts,
                InLock, TornDown
  <2>2. ASSUME NEW c \in Calls, Admit(c)
        PROVE  LayerInv'
    BY <2>2 DEF Admit, stopVars, LayerInv, LayerTypeOK, Tokens, Teardown, Walk,
                Covered, Acts,
                InLock, TornDown
  <2>3. ASSUME NEW c \in Calls, NEW r \in Ids, InsertToken(c, r)
        PROVE  LayerInv'
    <3>1. /\ order \in Seq(Ids) /\ Len(order) \in Nat
          /\ order' \in Seq(Ids) /\ Len(order) <= Len(order')
          /\ \A k \in 1..Len(order) : order'[k] = order[k]
          /\ \E k \in 1..Len(order') : order'[k] = r
          /\ \A k \in 1..Len(order') : order'[k] = r \/ k \in 1..Len(order)
      <4>1. order \in Seq(Ids) /\ Len(order) \in Nat
        BY DEF LayerInv, LayerTypeOK
      <4>2. CASE token[r] = NoCall
        <5>1. order' = Append(order, r)
          BY <2>3, <4>2 DEF InsertToken
        <5>2. /\ order' \in Seq(Ids) /\ Len(order') = Len(order) + 1
              /\ order'[Len(order) + 1] = r
              /\ \A k \in 1..Len(order) : order'[k] = order[k]
          BY <4>1, <5>1
        <5>3. QED
          BY <4>1, <5>2
      <4>3. CASE token[r] # NoCall
        <5>1. order' = order
          BY <2>3, <4>3 DEF InsertToken
        <5>2. \E k \in 1..Len(order) : order[k] = r
          BY <4>3 DEF LayerInv, Tokens
        <5>3. QED
          BY <4>1, <5>1, <5>2
      <4>4. QED
        BY <4>2, <4>3
    <3>2. /\ token' \in [Ids -> Calls \cup {NoCall}] /\ token'[r] = c
          /\ \A i \in Ids \ {r} : token'[i] = token[i]
          /\ \A d \in Calls \ {c} : req'[d] = req[d] /\ callPc'[d] = callPc[d]
          /\ req'[c] = r /\ callPc[c] = "admitted" /\ callPc'[c] = "inserted"
      BY <2>3 DEF InsertToken, LayerInv, LayerTypeOK
    <3>3. LayerTypeOK'
      <4>1. walk' \in [seen : 0..Len(order'), size : 0..Len(order')]
        BY <2>3, <3>1 DEF InsertToken, stopVars, LayerInv, LayerTypeOK
      <4>2. QED
        BY <2>3, <3>1, <3>2, <4>1 DEF InsertToken, stopVars, LayerInv, LayerTypeOK
    <3>4. Tokens'
      <4>1. \A k \in 1..Len(order') : token'[order'[k]] # NoCall
        BY <3>1, <3>2 DEF LayerInv, Tokens, LayerTypeOK
      <4>0. Len(order) \in Nat /\ Len(order') \in Nat /\ Len(order) <= Len(order')
        BY <3>1 DEF LayerInv, LayerTypeOK
      <4>2. ASSUME NEW i \in Ids, token'[i] # NoCall
            PROVE  \E k \in 1..Len(order') : order'[k] = i
        <5>1. CASE i = r
          BY <3>1, <5>1
        <5>2. CASE i # r
          <6>1. PICK k \in 1..Len(order) : order[k] = i
            BY <3>2, <4>2, <5>2 DEF LayerInv, Tokens
          <6>2. k \in 1..Len(order') /\ order'[k] = order[k]
            BY <3>1, <4>0
          <6>3. QED
            BY <6>1, <6>2
        <5>3. QED
          BY <5>1, <5>2
      <4>3. QED
        BY <2>3, <3>2, <4>1, <4>2 DEF InsertToken, LayerInv, Tokens
    <3>5. Teardown'
      BY <2>3 DEF InsertToken, stopVars, LayerInv, Teardown, Acts, TornDown
    <3>6. Walk'
      <4>1. stopped => c \in racers
        BY <3>2 DEF LayerInv, Walk
      <4>2. \A s \in Stoppers : stopPc[s] = "walking" =>
              \A k \in 1..walk.seen : order'[k] = order[k] /\ order[k] \in Ids
        BY <3>1 DEF LayerInv, LayerTypeOK
      <4>3. (\E s \in Stoppers : stopPc[s] # "idle") => stopped
        BY DEF LayerInv, Teardown
      <4>4. isShutdown => stopped
        BY DEF LayerInv, Teardown
      <4>5. QED
        BY <2>3, <3>2, <4>1, <4>2, <4>3, <4>4 DEF InsertToken, stopVars, LayerInv,
                                                  Walk, Covered
    <3>7. QED
      BY <3>3, <3>4, <3>5, <3>6 DEF LayerInv
  <2>4. ASSUME NEW c \in Calls, Submit(c)
        PROVE  LayerInv'
    BY <2>4 DEF Submit, stopVars, LayerInv, LayerTypeOK, Tokens, Teardown, Walk,
                Covered, Acts,
                InLock, TornDown
  <2>5. ASSUME NEW c \in Calls, Begin(c) \/ Finish(c)
        PROVE  LayerInv'
    <3>1. LayerTypeOK'
      BY <2>5 DEF Begin, Finish, stopVars, LayerInv, LayerTypeOK
    <3>2. Tokens'
      BY <2>5 DEF Begin, Finish, LayerInv, LayerTypeOK, Tokens
    <3>3. Teardown'
      BY <2>5 DEF Begin, Finish, stopVars, LayerInv, LayerTypeOK, Teardown,
                  Acts, TornDown
    <3>4. Walk'
      BY <2>5 DEF Begin, Finish, stopVars, LayerInv, Walk, Covered
    <3>5. QED
      BY <3>1, <3>2, <3>3, <3>4 DEF LayerInv
  <2>6. CASE DreamStep
    BY <2>6 DEF DreamStep, DreamStops, callVars, stopVars, LayerInv,
                LayerTypeOK, Tokens, Teardown,
                Walk, Covered, Acts, InLock, TornDown
  <2>7. ASSUME NEW s \in Stoppers, StopBegins(s)
        PROVE  LayerInv'
    <3>1. LayerTypeOK'
      <4>1. Len(order) \in Nat
        BY DEF LayerInv, LayerTypeOK
      <4>2. [seen |-> 0, size |-> Len(order)] \in [seen : 0..Len(order), size : 0..Len(order)]
        BY <4>1
      <4>3. walk' \in [seen : 0..Len(order'), size : 0..Len(order')]
        BY <2>7, <4>2 DEF StopBegins, callVars, LayerInv, LayerTypeOK
      <4>4. QED
        BY <2>7, <4>3 DEF StopBegins, callVars, LayerInv, LayerTypeOK
    <3>2. Tokens'
      BY <2>7 DEF StopBegins, callVars, LayerInv, Tokens
    <3>3. Teardown'
      <4>1. CASE stopped
        <5>1. \A t \in Stoppers : stopPc'[t] = IF t = s THEN "returned" ELSE stopPc[t]
          BY <2>7, <4>1 DEF StopBegins, LayerInv, LayerTypeOK
        <5>2. stopPc[s] = "idle" /\ UNCHANGED <<stopped, isShutdown, dream, task>>
          BY <2>7, <4>1 DEF StopBegins, callVars
        <5>3. QED
          BY <4>1, <5>1, <5>2 DEF LayerInv, Teardown, Acts, InLock, TornDown
      <4>2. CASE ~stopped
        <5>1. \A t \in Stoppers : stopPc'[t] = IF t = s THEN "walking" ELSE stopPc[t]
          BY <2>7, <4>2 DEF StopBegins, LayerInv, LayerTypeOK
        <5>2. stopped' /\ ~isShutdown' /\ \A t \in Stoppers : stopPc[t] = "idle"
          BY <2>7, <4>2 DEF StopBegins, callVars, LayerInv, Teardown
        <5>3. QED
          BY <5>1, <5>2 DEF Teardown, Acts, InLock, TornDown
      <4>3. QED
        BY <4>1, <4>2
    <3>4. Walk'
      BY <2>7 DEF StopBegins, callVars, LayerInv, LayerTypeOK, Teardown, Walk, Covered
    <3>5. QED
      BY <3>1, <3>2, <3>3, <3>4 DEF LayerInv
  <2>8. ASSUME NEW s \in Stoppers, StopWalks(s)
        PROVE  LayerInv'
    <3>1. LayerTypeOK'
      <4>1. /\ Len(order) \in Nat /\ order' = order
            /\ walk \in [seen : 0..Len(order), size : 0..Len(order)]
        BY <2>8 DEF StopWalks, callVars, LayerInv, LayerTypeOK
      <4>2. CASE /\ Len(order) = walk.size /\ walk.seen < walk.size
                 /\ cancelled' = cancelled \cup {token[order[walk.seen + 1]]}
                 /\ walk' = [walk EXCEPT !.seen = @ + 1]
        <5>1. walk.seen + 1 \in 1..Len(order)
          BY <4>1, <4>2
        <5>2. token[order[walk.seen + 1]] \in Calls
          BY <5>1 DEF LayerInv, Tokens, LayerTypeOK
        <5>3. walk' \in [seen : 0..Len(order), size : 0..Len(order)]
          BY <4>1, <4>2, <5>1
        <5>4. QED
          BY <2>8, <4>1, <4>2, <5>2, <5>3 DEF StopWalks, callVars, LayerInv,
                                              LayerTypeOK
      <4>3. CASE UNCHANGED <<cancelled, walk>>
        BY <2>8, <4>1, <4>3 DEF StopWalks, callVars, LayerInv, LayerTypeOK
      <4>4. QED
        BY <2>8, <4>2, <4>3 DEF StopWalks
    <3>2. Tokens'
      BY <2>8 DEF StopWalks, callVars, LayerInv, Tokens
    <3>3. Teardown'
      <4>1. PICK next \in {"raised", "walking", "dream"} :
              \A t \in Stoppers : stopPc'[t] = IF t = s THEN next ELSE stopPc[t]
        BY <2>8 DEF StopWalks, LayerInv, LayerTypeOK
      <4>2. stopPc[s] = "walking" /\ UNCHANGED <<stopped, isShutdown, dream, task>>
        BY <2>8 DEF StopWalks, callVars
      <4>3. stopped /\ ~isShutdown
        BY <4>2 DEF LayerInv, Teardown
      <4>4. QED
        BY <4>1, <4>2, <4>3 DEF LayerInv, Teardown, Acts, InLock, TornDown
    <3>4. Walk'
      BY <2>8 DEF StopWalks, callVars, LayerInv, LayerTypeOK, Tokens, Teardown, Acts,
                  InLock, Walk, Covered
    <3>5. QED
      BY <3>1, <3>2, <3>3, <3>4 DEF LayerInv
  <2>9. ASSUME NEW s \in Stoppers, StopTearsDown(s)
        PROVE  LayerInv'
    <3>1. LayerTypeOK'
      BY <2>9 DEF StopTearsDown, callVars, LayerInv, LayerTypeOK
    <3>2. Tokens'
      BY <2>9 DEF StopTearsDown, callVars, LayerInv, Tokens
    <3>3. Teardown'
      BY <2>9 DEF StopTearsDown, callVars, LayerInv, LayerTypeOK, Teardown, Acts,
                  InLock, TornDown
    <3>4. Walk'
      BY <2>9 DEF StopTearsDown, callVars, LayerInv, LayerTypeOK, Teardown, Walk,
                  Covered
    <3>5. QED
      BY <3>1, <3>2, <3>3, <3>4 DEF LayerInv
  <2>10. CASE UNCHANGED layerVars
    BY <2>10 DEF layerVars, callVars, stopVars, LayerInv, LayerTypeOK, Tokens,
                 Teardown, Walk, Covered, Acts,
                 InLock, TornDown
  <2>11. QED
    BY <2>1, <2>2, <2>3, <2>4, <2>5, <2>6, <2>7, <2>8, <2>9, <2>10 DEF LayerNext, StopStep
<1>3. QED
  BY <1>1, <1>2, PTL DEF LayerSpec

\* An abort misses nobody but the calls it raced and the tokens that were
\* replaced (intelligence_layer.py, stop and enqueue).
THEOREM LayerAbortMissesOnlyRacers == LayerSpec => []AbortMissesOnlyRacers
<1>1. LayerInv => AbortMissesOnlyRacers
  <2> SUFFICES ASSUME LayerInv, isShutdown,
                      NEW c \in Calls, task[c] \in {"queued", "running"},
                      c \notin cancelled, c \notin Replaced
               PROVE  c \in racers
    BY DEF AbortMissesOnlyRacers, InFlight
  <2>1. req[c] \in Ids
    BY DEF LayerInv, Tokens
  <2>2. token[req[c]] = c /\ c # NoCall
    BY <2>1, LayerAssumption DEF Replaced
  <2>3. QED
    BY <2>1, <2>2 DEF LayerInv, Walk, Covered
<1>2. QED
  BY <1>1, LayerInvariant, PTL

\* A stop is one teardown and leaves nothing behind (intelligence_layer.py, stop).
THEOREM LayerStopIsSound == LayerSpec => []StopIsSound
<1>1. LayerInv => OneStopActs
  <2> SUFFICES ASSUME LayerInv
               PROVE  OneStopActs
    OBVIOUS
  <2> DEFINE acting == {s \in Stoppers : stopPc[s] \in InLock \cup {"raised"}}
  <2>1. \A s, t \in acting : s = t
    BY DEF LayerInv, Teardown, Acts
  <2>2. Cardinality(acting) <= 1
    <3>1. CASE acting = {}
      BY <3>1, FS_EmptySet
    <3>2. CASE \E s : acting = {s}
      BY <3>2, FS_Singleton
    <3>3. QED
      BY <2>1, <3>1, <3>2
  <2>3. QED
    BY <2>2 DEF OneStopActs, Cardinality, LayerInv, Teardown
<1>2. LayerInv => NothingRunsOn
  BY DEF LayerInv, Teardown, NothingRunsOn, TornDown, InFlight
<1>3. QED
  BY <1>1, <1>2, LayerInvariant, PTL DEF StopIsSound, LayerInv

-----------------------------------------------------------------------------
\* SubMindSensing.  The values of the variables that SensingTypeOK leaves open.
Typed ==
    /\ SensingTypeOK
    /\ lastTier \in [SubMinds -> Tiers \cup {None}]

\* Nothing is sensed before the registry has started, and while it runs there is a sink.
Started ==
    /\ starting # "yes" => sched.at = "off" /\ stopping = "no"
    /\ starting = "no" => endowing = None
    /\ sched.at = "off" => fired = {} /\ queue = <<>> /\ triage.at \notin {"got", "calling"}
    /\ starting # "no" /\ stopping = "no" => wired
    /\ sched.at = "clear" => sched.job \notin fired

\* i is the place of the newest signal of s in the queue.
Newest(s, i) == /\ i \in DOMAIN queue /\ queue[i].name = s
                /\ \A j \in DOMAIN queue : queue[j].name = s => j <= i
Putting(s) == sched.at = "put" /\ sched.job.name = s
InHand(s) == triage.at \in {"got", "calling"} /\ triage.job.name = s

\* The newest signal of a fired SubMind has the tier it last emitted, wherever
\* the signal is; if it is nowhere, the need has that tier.
Current ==
    \A s \in fired :
        /\ Putting(s) => sched.job.tier = lastTier[s]
        /\ ~Putting(s) => \A i \in DOMAIN queue : Newest(s, i) => queue[i].tier = lastTier[s]
        /\ ~Putting(s) /\ ~InQueue(s) /\ InHand(s) => triage.job.tier = lastTier[s]

\* A signal that is to be queued belongs to a fired SubMind, and an escalation is
\* more urgent than the newest signal before it.
Worsens ==
    sched.at = "put" =>
        /\ sched.job.name \in fired
        /\ sched.job.kind = "escalation" =>
             \A i \in DOMAIN queue : Newest(sched.job.name, i) => sched.job.tier < queue[i].tier

\* What start has added is on the heap: no tick takes it off before start ends.
Added == /\ starting \in {"no", "made"} => added = {}
         /\ starting = "adding" => \A s \in added : scheduled[s] > 0

SensingInv == /\ Typed /\ Started /\ Current /\ NeedIsCurrent /\ Worsens /\ EscalationWorsens
              /\ Added /\ EndowedIsScheduled

-----------------------------------------------------------------------------
\* A set of naturals with a bound has a greatest element.
LEMMA HasMax ==
    ASSUME NEW b \in Nat, NEW S, \A s \in S : s \in Nat /\ s <= b, S # {}
    PROVE  \E s \in S : \A t \in S : t <= s
<1> DEFINE T == {b - s : s \in S}
           R == OpToRel(<, Nat)
<1>1. T \subseteq Nat
  OBVIOUS
<1>2. T # {}
  <2>1. PICK s \in S : TRUE
    OBVIOUS
  <2>2. b - s \in T
    OBVIOUS
  <2>3. QED
    BY <2>2
<1>3. IsWellFoundedOn(R, Nat)
  BY NatLessThanWellFounded, Zenon
<1>4. \A x, y \in Nat : y < x => <<y, x>> \in R
  BY DEF OpToRel
<1> HIDE DEF R
<1>5. PICK x \in T : \A y \in T : ~(<<y, x>> \in R)
  BY <1>1, <1>2, <1>3, WFMin
<1>6. \A y \in T : ~(y < x)
  BY <1>1, <1>4, <1>5
<1>7. PICK s \in S : x = b - s
  OBVIOUS
<1>8. ASSUME NEW t \in S
      PROVE  t <= s
  <2>1. ~(b - t < b - s)
    BY <1>6, <1>7
  <2>2. QED
    BY <2>1
<1>9. QED
  BY <1>8

LEMMA TiersAreNat == Tiers \subseteq Nat
BY SensingAssumption DEF Tiers

\* tier_for returns a tier of a band: some band is reached, so that there is a last one.
LEMMA TierForIn ==
    ASSUME Typed, NEW s \in SubMinds, NEW v \in Nat
    PROVE  TierFor(s, v) \in Tiers
<1> DEFINE reached == {i \in DOMAIN Bands[s] : Bands[s][i][1] <= v} \cup {1}
           last == CHOOSE i \in reached : \A j \in reached : j <= i
<1>1. Bands[s] \in Seq(Nat \X Nat) /\ Bands[s] # <<>>
  BY SensingAssumption
<1>2. Len(Bands[s]) \in Nat /\ Len(Bands[s]) > 0 /\ DOMAIN Bands[s] = 1..Len(Bands[s])
  BY <1>1
<1>3. reached # {} /\ \A i \in reached : i \in Nat /\ i <= Len(Bands[s]) /\ i \in DOMAIN Bands[s]
  BY <1>2
<1> HIDE DEF reached
<1>4. \E i \in reached : \A j \in reached : j <= i
  BY <1>2, <1>3, HasMax
<1>5. last \in DOMAIN Bands[s]
  BY <1>3, <1>4
<1> HIDE DEF last
<1>6. Bands[s][last][2] \in Tiers
  BY <1>5 DEF Tiers
<1>7. TierFor(s, v) \in {lastTier[s], Bands[s][last][2]} /\
        (TierFor(s, v) # Bands[s][last][2] => TierFor(s, v) = lastTier[s] /\ lastTier[s] # None)
  BY DEF TierFor, reached, last
<1>8. QED
  BY <1>6, <1>7 DEF Typed

LEMMA ClampIn == ASSUME NEW r \in -Low..Top PROVE Clamp(r) \in Nat
BY SensingAssumption DEF Clamp

\* What a tick does when it emits a signal.
LEMMA EmitIs ==
    ASSUME Typed, NEW s \in SubMinds, NEW r \in -Low..Top, NEW kind \in {"signal", "escalation"},
           Emit(s, r, kind)
    PROVE  /\ TierFor(s, Clamp(r)) \in Tiers
           /\ fired' = fired \cup {s}
           /\ lastTier' \in [SubMinds -> Tiers \cup {None}] /\ lastTier'[s] = TierFor(s, Clamp(r))
           /\ \A u \in SubMinds \ {s} : lastTier'[u] = lastTier[u]
           /\ sched' = [at |-> "put",
                         job |-> [name |-> s, tier |-> TierFor(s, Clamp(r)), kind |-> kind]]
           /\ sched' \in [at : {"put"}, job : Signal]
           /\ serviced' \subseteq SubMinds /\ signals' \in 0..MaxSignals
           /\ \A u \in SubMinds \ {s} : u \in serviced <=> u \in serviced'
<1>1. TierFor(s, Clamp(r)) \in Tiers
  BY ClampIn, TierForIn
<1>2. /\ fired' = fired \cup {s} /\ lastTier' = [lastTier EXCEPT ![s] = TierFor(s, Clamp(r))]
      /\ signals' = signals + 1 /\ signals < MaxSignals
      /\ serviced' = IF kind = "signal" THEN serviced \ {s} ELSE serviced
      /\ sched' = [at |-> "put", job |-> [name |-> s, tier |-> TierFor(s, Clamp(r)), kind |-> kind]]
  BY DEF Emit
<1>3. signals' \in 0..MaxSignals
  BY <1>2, SensingAssumption DEF Typed, SensingTypeOK
<1>4. sched' \in [at : {"put"}, job : Signal]
  BY <1>1, <1>2 DEF Signal
<1>5. /\ lastTier' \in [SubMinds -> Tiers \cup {None}] /\ lastTier'[s] = TierFor(s, Clamp(r))
      /\ \A u \in SubMinds \ {s} : lastTier'[u] = lastTier[u]
  BY <1>1, <1>2 DEF Typed
<1>6. serviced' \subseteq SubMinds /\ \A u \in SubMinds \ {s} : u \in serviced <=> u \in serviced'
  BY <1>2 DEF Typed, SensingTypeOK
<1>7. QED
  BY <1>1, <1>2, <1>3, <1>4, <1>5, <1>6

\* What any tick does: it emits a signal of s, or it rearms s.
Emitted(s, kind) ==
    /\ s \in fired' /\ fired' = fired \cup {s}
    /\ kind = "signal" => s \notin fired
    /\ kind = "escalation" => s \in fired /\ lastTier'[s] < lastTier[s]
    /\ sched' = [at |-> "put", job |-> [name |-> s, tier |-> lastTier'[s], kind |-> kind]]
    /\ sched' \in [at : {"put"}, job : Signal]
Rearmed(s) ==
    /\ fired' = fired \ {s} /\ lastTier'[s] = None
    /\ sched' = [at |-> "clear", job |-> s]
LEMMA TickIs ==
    ASSUME Typed, NEW s \in SubMinds, NEW r \in -Low..Top, Tick(s, r)
    PROVE  /\ Rearmed(s) \/ \E kind \in {"signal", "escalation"} : Emitted(s, kind)
           /\ s \in fired' <=> sched'.at = "put"
           /\ lastTier' \in [SubMinds -> Tiers \cup {None}]
           /\ s \in fired' => lastTier'[s] \in Tiers
           /\ \A u \in SubMinds \ {s} : /\ u \in fired <=> u \in fired'
                                        /\ u \in serviced <=> u \in serviced'
                                        /\ lastTier'[u] = lastTier[u]
           /\ serviced' \subseteq SubMinds /\ signals' \in 0..MaxSignals
           /\ sched.at = "idle" /\ stopping = "no" /\ scheduled[s] > 0
           /\ scheduled' = [scheduled EXCEPT ![s] = @ - 1]
           /\ UNCHANGED <<registryVars, off, triageVars, need, stopping, toggles>>
<1>1. CASE s \notin fired /\ Emit(s, r, "signal")
  <2>1. Emitted(s, "signal")
    BY <1>1, EmitIs DEF Emitted
  <2>2. QED
    BY <1>1, <2>1, EmitIs DEF Tick, Emitted
<1>2. CASE s \in fired /\ TierFor(s, Clamp(r)) < lastTier[s] /\ Emit(s, r, "escalation")
  <2>1. Emitted(s, "escalation")
    BY <1>2, EmitIs DEF Emitted
  <2>2. QED
    BY <1>2, <2>1, EmitIs DEF Tick, Emitted
<1>3. CASE s \in fired /\ Rearm(s)
  <2>1. Rearmed(s)
    BY <1>3 DEF Rearm, Rearmed, Typed
  <2>2. QED
    BY <1>3, <2>1 DEF Tick, Rearm, Rearmed, Typed, SensingTypeOK
<1>4. QED
  BY <1>1, <1>2, <1>3 DEF Tick

-----------------------------------------------------------------------------
\* The queue after a signal has been put, and after the first has been taken.
LEMMA PutIs ==
    ASSUME Typed, Put
    PROVE  /\ sched.job \in Signal /\ sched' = Idle("idle")
           /\ queue' \in Seq(Signal) /\ DOMAIN queue = 1..Len(queue) /\ Len(queue) \in Nat
           /\ DOMAIN queue' = 1..(Len(queue) + 1) /\ queue'[Len(queue) + 1] = sched.job
           /\ \A i \in DOMAIN queue : queue'[i] = queue[i] /\ queue[i] \in Signal
           /\ scheduled' = [scheduled EXCEPT ![sched.job.name] = @ + 1]
           /\ UNCHANGED <<registryVars, senseVars, triage, wired, need, stopping>>
<1>1. sched.job \in Signal /\ queue \in Seq(Signal)
  BY DEF Put, Typed, SensingTypeOK
<1>2. QED
  BY <1>1 DEF Put

Taken == /\ queue # <<>> /\ queue' = Tail(queue)
         /\ triage' = [at |-> "got", job |-> Head(queue)]
LEMMA TakenIs ==
    ASSUME Typed, Taken
    PROVE  /\ queue' \in Seq(Signal) /\ DOMAIN queue = 1..Len(queue) /\ Len(queue) \in Nat
           /\ Len(queue) > 0 /\ DOMAIN queue' = 1..(Len(queue) - 1) /\ queue[1] \in Signal
           /\ \A i \in DOMAIN queue' : queue'[i] = queue[i + 1] /\ i + 1 \in DOMAIN queue
           /\ triage' = [at |-> "got", job |-> queue[1]]
<1>1. queue \in Seq(Signal) /\ queue # <<>>
  BY DEF Typed, SensingTypeOK, Taken
<1>2. QED
  BY <1>1 DEF Taken

\* What the triage thread does.
LEMMA TriageIs ==
    ASSUME Typed, TriageStep
    PROVE  /\ UNCHANGED <<registryVars, scheduled, sched, senseVars, wired, stopping>>
           /\ \/ /\ triage.at = "blocked" /\ Taken /\ UNCHANGED need
              \/ /\ triage.at \notin {"got", "calling"} /\ triage'.at \notin {"got", "calling"}
                 /\ triage' \in [at : {"top", "blocked", "exited"}, job : {None}]
                 /\ UNCHANGED <<queue, need>>
              \/ /\ triage.at = "got" /\ wired /\ triage' = [at |-> "calling", job |-> triage.job]
                 /\ UNCHANGED <<queue, need>>
              \/ /\ triage.at \in {"got", "calling"} /\ ~wired
                 /\ triage' \in [at : {"top", "dead"}, job : {None}]
                 /\ UNCHANGED <<queue, need>>
              \/ /\ triage.at = "calling" /\ triage' = Idle("top") /\ UNCHANGED queue
                 /\ need' = [need EXCEPT ![triage.job.name] = triage.job.tier]
<1>1. CASE TriageTop
  BY <1>1 DEF TriageTop, Idle
<1>2. CASE TriageGet
  BY <1>2 DEF TriageGet, Idle, Taken
<1>3. CASE TriageCheck
  <2>1. triage.at = "got" =>
          triage' = IF wired THEN [at |-> "calling", job |-> triage.job] ELSE Idle("top")
    BY <1>3 DEF TriageCheck, Typed, SensingTypeOK
  <2>2. QED
    BY <1>3, <2>1 DEF TriageCheck, Idle
<1>4. CASE TriageCall
  BY <1>4 DEF TriageCall, Idle
<1>5. QED
  BY <1>1, <1>2, <1>3, <1>4 DEF TriageStep

\* The steps of the registry and of stop, which touch neither signals nor what is sensed.
Registry == \/ \E s \in SubMinds : Endow(s) \/ StartAdds(s)
            \/ EndowAdds \/ StartMakes \/ StartWalks
Quiet == /\ UNCHANGED <<fired, lastTier, queue, triage, serviced>>
         /\ sched' = sched \/ (sched'.at \in {"idle", "exited"} /\ sched.at \in {"off", "idle"})
LEMMA RegistryIsQuiet ==
    ASSUME \/ Registry \/ RegistryStopStep \/ SchedulerExits \/ StartEnds
           \/ \E s \in SubMinds : SetActivation(s),
           Started
    PROVE  Quiet
BY DEF Registry, Endow, StartAdds, EndowAdds, StartMakes, StartWalks, RegistryStopStep,
       SchedulerExits,
       StartEnds, SetActivation, Quiet, senseVars, triageVars, Idle, Started

-----------------------------------------------------------------------------
LEMMA TypedKept ==
    ASSUME Typed, Started, [SensingNext]_sensingVars
    PROVE  Typed'
<1> USE DEF Typed
<1>1. ASSUME NEW s \in SubMinds, NEW r \in -Low..Top, Tick(s, r)
      PROVE  Typed'
  <2>1. scheduled' \in [SubMinds -> Nat]
    BY <1>1, TickIs DEF SensingTypeOK
  <2>2. sched' \in [at : {"put"}, job : Signal] \cup [at : {"clear"}, job : SubMinds]
    BY <1>1, TickIs DEF Emitted, Rearmed
  <2>3. \A u \in SubMinds : IF u \in fired' THEN lastTier'[u] \in Tiers ELSE lastTier'[u] = None
    BY <1>1, TickIs DEF SensingTypeOK, Emitted, Rearmed
  <2>4. fired' \subseteq SubMinds
    BY <1>1, TickIs DEF SensingTypeOK, Emitted, Rearmed
  <2>5. lastTier' \in [SubMinds -> Tiers \cup {None}] /\ serviced' \subseteq SubMinds
        /\ signals' \in 0..MaxSignals
        /\ UNCHANGED <<members, starting, startSize, added, endowing, off, queue, triage, wired,
                       need, stopping, toggles>>
    BY <1>1, TickIs DEF registryVars, triageVars
  <2>6. QED
    BY <2>1, <2>2, <2>3, <2>4, <2>5 DEF SensingTypeOK
<1>2. CASE Put
  <2>1. scheduled' \in [SubMinds -> Nat]
    <3>1. sched.job.name \in SubMinds
      BY <1>2, PutIs DEF Signal
    <3>2. QED
      BY <1>2, <3>1, PutIs DEF SensingTypeOK
  <2>2. QED
    BY <1>2, <2>1, PutIs DEF SensingTypeOK, registryVars, senseVars, Idle
<1>3. CASE Clear
  BY <1>3 DEF Clear, SensingTypeOK, registryVars, senseVars, triageVars, Idle
<1>4. CASE TriageStep
  <2>1. triage' \in [at : {"top", "blocked", "exited", "dead"}, job : {None}]
                  \cup [at : {"got", "calling"}, job : Signal]
    BY <1>4, TriageIs, TakenIs DEF SensingTypeOK, Idle
  <2>2. queue' \in Seq(Signal)
    BY <1>4, TriageIs, TakenIs DEF SensingTypeOK
  <2>3. need' \in [SubMinds -> Tiers \cup {None}]
    <3>1. triage.at = "calling" => triage.job \in Signal
      BY DEF SensingTypeOK
    <3>2. QED
      BY <1>4, <3>1, TriageIs DEF SensingTypeOK, Signal
  <2>4. QED
    BY <1>4, <2>1, <2>2, <2>3, TriageIs DEF SensingTypeOK, registryVars, senseVars
<1>5. ASSUME NEW s \in SubMinds, Endow(s) \/ StartAdds(s)
      PROVE  Typed'
  <2>1. /\ members' \subseteq SubMinds /\ added' \subseteq members'
        /\ endowing' \in SubMinds \cup {None}
    BY <1>5 DEF Endow, StartAdds, SensingTypeOK
  <2>2. scheduled' \in [SubMinds -> Nat]
    BY <1>5 DEF Endow, StartAdds, SensingTypeOK
  <2>3. UNCHANGED <<starting, startSize, sched, senseVars, triageVars, need, stopping>>
    BY <1>5 DEF Endow, StartAdds
  <2>4. QED
    BY <2>1, <2>2, <2>3 DEF SensingTypeOK, senseVars, triageVars
<1>6. CASE EndowAdds
  BY <1>6 DEF EndowAdds, SensingTypeOK, senseVars, triageVars
<1>7. CASE StartMakes \/ StartEnds
  <2>1. CASE StartMakes
    BY <2>1 DEF StartMakes, SensingTypeOK, senseVars
  <2>2. CASE StartEnds
    <3>1. starting' \in {"failed", "yes"} /\ (sched' = sched \/ sched' = Idle("idle"))
      BY <2>2 DEF StartEnds
    <3>2. UNCHANGED <<members, startSize, added, endowing, scheduled, senseVars, triageVars, need,
                      stopping>>
      BY <2>2 DEF StartEnds
    <3>3. QED
      BY <3>1, <3>2 DEF SensingTypeOK, senseVars, triageVars, Idle
  <2>3. QED
    BY <1>7, <2>1, <2>2
<1>8. CASE StartWalks
  <2>1. Cardinality(members) \in 0..Cardinality(SubMinds)
    <3>1. members \subseteq SubMinds
      BY DEF SensingTypeOK
    <3>2. Cardinality(members) <= Cardinality(SubMinds) /\ IsFiniteSet(members)
      BY <3>1, SensingAssumption, FS_Subset
    <3>3. QED
      BY <3>2, SensingAssumption, FS_CardinalityType
  <2>2. QED
    BY <1>8, <2>1 DEF StartWalks, SensingTypeOK, senseVars, triageVars
<1>9. ASSUME NEW s \in SubMinds, SetActivation(s)
      PROVE  Typed'
  BY <1>9, SensingAssumption DEF SetActivation, SensingTypeOK, registryVars, triageVars
<1>10. ASSUME NEW s \in SubMinds, Serviced(s)
       PROVE  Typed'
  BY <1>10 DEF Serviced, SensingTypeOK, registryVars, triageVars
<1>11. CASE RegistryStopStep \/ SchedulerExits
  <2>1. CASE RegistryStopStep
    <3>1. /\ need' \in [SubMinds -> Tiers \cup {None}] /\ wired' \in BOOLEAN
          /\ stopping' \in {"no", "scheduler", "arbiter", "unwire", "triage", "join", "done"}
      BY <2>1 DEF RegistryStopStep, SensingTypeOK
    <3>2. UNCHANGED <<registryVars, scheduled, sched, senseVars, queue, triage>>
      BY <2>1 DEF RegistryStopStep
    <3>3. QED
      BY <3>1, <3>2 DEF SensingTypeOK, registryVars, senseVars
  <2>2. CASE SchedulerExits
    BY <2>2 DEF SchedulerExits, SensingTypeOK, registryVars, senseVars, triageVars, Idle
  <2>3. QED
    BY <1>11, <2>1, <2>2
<1>12. CASE UNCHANGED sensingVars
  BY <1>12 DEF sensingVars, SensingTypeOK
<1>13. QED
  BY <1>1, <1>2, <1>3, <1>4, <1>5, <1>6, <1>7, <1>8, <1>9, <1>10, <1>11, <1>12 DEF SensingNext

LEMMA StartedKept ==
    ASSUME Typed, Started, [SensingNext]_sensingVars
    PROVE  Started'
<1>1. ASSUME NEW s \in SubMinds, NEW r \in -Low..Top, Tick(s, r)
      PROVE  Started'
  BY <1>1, TickIs DEF Started, Emitted, Rearmed, registryVars, triageVars
<1>2. CASE Put
  BY <1>2, PutIs DEF Put, Started, registryVars, senseVars, Idle
<1>3. CASE Clear \/ SchedulerExits
  BY <1>3 DEF Clear, SchedulerExits, Started, registryVars, senseVars, triageVars, Idle
<1>4. CASE TriageStep
  BY <1>4, TriageIs DEF Started, registryVars, senseVars, Taken
<1>5. ASSUME NEW s \in SubMinds, Endow(s) \/ StartAdds(s) \/ SetActivation(s) \/ Serviced(s)
      PROVE  Started'
  BY <1>5 DEF Endow, StartAdds, SetActivation, Serviced, Started, senseVars, triageVars,
         registryVars
<1>6. CASE EndowAdds \/ StartMakes \/ StartWalks \/ StartEnds
  <2>1. CASE EndowAdds \/ StartMakes \/ StartWalks
    BY <2>1 DEF EndowAdds, StartMakes, StartWalks, Started, senseVars, triageVars
  <2>2. CASE StartEnds
    <3>1. UNCHANGED <<endowing, senseVars, triageVars, stopping>>
      BY <2>2 DEF StartEnds
    <3>2. \/ starting' = "failed" /\ sched' = sched
          \/ starting' = "yes" /\ sched' = Idle("idle")
      BY <2>2 DEF StartEnds
    <3>3. starting = "adding"
      BY <2>2 DEF StartEnds
    <3>4. QED
      BY <3>1, <3>2, <3>3 DEF Started, senseVars, triageVars, Idle
  <2>3. QED
    BY <1>6, <2>1, <2>2
<1>7. CASE RegistryStopStep
  BY <1>7 DEF RegistryStopStep, Started, registryVars, senseVars
<1>8. CASE UNCHANGED sensingVars
  BY <1>8 DEF sensingVars, Started
<1>9. QED
  BY <1>1, <1>2, <1>3, <1>4, <1>5, <1>6, <1>7, <1>8 DEF SensingNext

-----------------------------------------------------------------------------
\* Where a signal is, after one has been put and after one has been taken.
LEMMA NewestPut ==
    ASSUME Typed, Put, NEW p, p = sched.job.name
    PROVE  /\ \A i : Newest(p, i)' <=> i = Len(queue) + 1
           /\ \A s : s # p =>
                /\ \A i : Newest(s, i)' <=> Newest(s, i)
                /\ InQueue(s)' <=> InQueue(s)
           /\ InQueue(p)'
<1>1. ASSUME NEW s
      PROVE  InQueue(s)' <=> InQueue(s) \/ s = p
  BY PutIs DEF InQueue
<1>2. ASSUME NEW s, NEW i, s # p
      PROVE  Newest(s, i)' <=> Newest(s, i)
  BY <1>2, PutIs DEF Newest
<1>3. ASSUME NEW i
      PROVE  Newest(p, i)' <=> i = Len(queue) + 1
  <2>1. p = queue'[Len(queue) + 1].name
    BY PutIs
  <2>2. \A j \in DOMAIN queue' : j <= Len(queue) + 1 /\ j \in Nat
    BY PutIs
  <2>3. Newest(p, i)' <=>
          /\ i \in DOMAIN queue' /\ queue'[i].name = p
          /\ \A j \in DOMAIN queue' : queue'[j].name = p => j <= i
    BY DEF Newest
  <2>4. QED
    BY <2>1, <2>2, <2>3, PutIs DEF Newest
<1>4. QED
  BY <1>1, <1>2, <1>3

LEMMA NewestTaken ==
    ASSUME Typed, Taken
    PROVE  /\ \A s, i : Newest(s, i)' =>
                Newest(s, i + 1) /\ i \in DOMAIN queue' /\ queue'[i] = queue[i + 1]
           /\ \A s : InQueue(s) => InQueue(s)' \/ (Newest(s, 1) /\ queue[1].name = s)
           /\ \A s : InQueue(s)' => InQueue(s)
<1>1. ASSUME NEW s, NEW i, Newest(s, i)'
      PROVE  Newest(s, i + 1) /\ i \in DOMAIN queue' /\ queue'[i] = queue[i + 1]
  <2>1. i \in DOMAIN queue' /\ queue'[i].name = s
        /\ \A j \in DOMAIN queue' : queue'[j].name = s => j <= i
    BY <1>1 DEF Newest
  <2>2. ASSUME NEW j \in DOMAIN queue, queue[j].name = s
        PROVE  j <= i + 1
    <3>1. CASE j = 1
      BY <2>1, <3>1, TakenIs
    <3>2. CASE j # 1
      <4>1. j - 1 \in DOMAIN queue' /\ queue'[j - 1] = queue[j]
        BY <3>2, TakenIs
      <4>2. j - 1 <= i
        BY <2>1, <2>2, <4>1
      <4>3. QED
        BY <2>1, <4>2, TakenIs
    <3>3. QED
      BY <3>1, <3>2
  <2>3. QED
    BY <2>1, <2>2, TakenIs DEF Newest
<1>2. ASSUME NEW s, InQueue(s), ~InQueue(s)'
      PROVE  Newest(s, 1) /\ queue[1].name = s
  <2>1. PICK i \in DOMAIN queue : queue[i].name = s
    BY <1>2 DEF InQueue
  <2>2. ASSUME NEW j \in DOMAIN queue, queue[j].name = s
        PROVE  j = 1
    <3>1. SUFFICES ASSUME j # 1 PROVE FALSE
      OBVIOUS
    <3>2. j - 1 \in DOMAIN queue' /\ queue'[j - 1] = queue[j]
      BY <3>1, TakenIs
    <3>3. QED
      BY <1>2, <2>2, <3>2 DEF InQueue
  <2>3. i = 1
    BY <2>1, <2>2
  <2>4. QED
    BY <2>1, <2>2, <2>3, TakenIs DEF Newest
<1>3. ASSUME NEW s, InQueue(s)'
      PROVE  InQueue(s)
  BY <1>3, TakenIs DEF InQueue
<1>4. QED
  BY <1>1, <1>2, <1>3

-----------------------------------------------------------------------------
LEMMA CurrentKept ==
    ASSUME Typed, Started, Current, Worsens, [SensingNext]_sensingVars
    PROVE  Current'
<1>1. ASSUME NEW s \in SubMinds, NEW r \in -Low..Top, Tick(s, r)
      PROVE  Current'
  <2>1. \A u : ~Putting(u) /\ (InQueue(u)' <=> InQueue(u)) /\ (InHand(u)' <=> InHand(u))
               /\ (\A i : Newest(u, i)' <=> Newest(u, i))
    BY <1>1, TickIs DEF Putting, InQueue, InHand, Newest, triageVars
  <2>2. \A u : Putting(u)' => u = s /\ sched'.job.tier = lastTier'[s]
    BY <1>1, TickIs DEF Putting, Emitted, Rearmed
  <2>3. s \in fired' => Putting(s)'
    BY <1>1, TickIs DEF Putting, Emitted, Rearmed
  <2>4. \A u \in fired' : u # s => u \in fired /\ lastTier'[u] = lastTier[u]
    <3>1. fired' \subseteq SubMinds
      BY <1>1, TickIs DEF Typed, SensingTypeOK, Emitted, Rearmed
    <3>2. QED
      BY <1>1, <3>1, TickIs
  <2>5. UNCHANGED <<queue, triage>>
    BY <1>1, TickIs DEF triageVars
  <2>6. QED
    BY <2>1, <2>2, <2>3, <2>4, <2>5 DEF Current
<1>2. CASE Put
  <2>0. PICK p : p = sched.job.name
    OBVIOUS
  <2>1. UNCHANGED <<fired, lastTier, triage>> /\ \A u : ~Putting(u)' /\ (InHand(u)' <=> InHand(u))
    BY <1>2, PutIs DEF senseVars, Putting, InHand, Idle
  <2>2. Putting(p) /\ \A u : Putting(u) => u = p
    BY <1>2, <2>0 DEF Put, Putting
  <2>3. \A i \in DOMAIN queue : queue'[i] = queue[i]
    BY <1>2, PutIs
  <2>4. ASSUME p \in fired
        PROVE  \A i \in DOMAIN queue' : Newest(p, i)' => queue'[i].tier = lastTier'[p]
    BY <1>2, <2>0, <2>1, <2>2, <2>4, PutIs, NewestPut DEF Current
  <2>5. InQueue(p)'
    BY <1>2, <2>0, NewestPut
  <2>6. ASSUME NEW u \in fired, u # p
        PROVE  /\ \A i \in DOMAIN queue' : Newest(u, i)' => queue'[i].tier = lastTier'[u]
               /\ ~InQueue(u)' /\ InHand(u)' => triage'.job.tier = lastTier'[u]
    <3>0. \A i : Newest(u, i)' => Newest(u, i)
      BY <1>2, <2>0, <2>6, NewestPut
    <3>1. \A i : Newest(u, i)' => Newest(u, i) /\ i \in DOMAIN queue
      BY <3>0 DEF Newest
    <3>2. InQueue(u)' <=> InQueue(u)
      BY <1>2, <2>0, <2>6, NewestPut
    <3>3. QED
      BY <2>1, <2>2, <2>3, <2>6, <3>1, <3>2 DEF Current
  <2>7. QED
    BY <2>1, <2>4, <2>5, <2>6 DEF Current
<1>3. CASE Clear
  <2>1. \A u : /\ ~Putting(u)' /\ ~Putting(u)
               /\ (InQueue(u)' <=> InQueue(u)) /\ (InHand(u)' <=> InHand(u))
               /\ (\A i : Newest(u, i)' <=> Newest(u, i))
    BY <1>3 DEF Clear, Putting, InQueue, InHand, Newest, triageVars, Idle
  <2>2. UNCHANGED <<fired, lastTier, queue, triage>>
    BY <1>3 DEF Clear, senseVars, triageVars
  <2>3. QED
    BY <2>1, <2>2 DEF Current
<1>4. CASE TriageStep
  <2>1. UNCHANGED <<fired, lastTier, sched>> /\ \A u : Putting(u)' <=> Putting(u)
    BY <1>4, TriageIs DEF senseVars, Putting
  <2>2. CASE triage.at = "blocked" /\ Taken
    <3>1. \A u : InHand(u)' <=> u = queue[1].name
      BY <2>2, TakenIs DEF InHand
    <3>2. ASSUME NEW u \in fired, ~Putting(u)
          PROVE  /\ \A i \in DOMAIN queue' : Newest(u, i)' => queue'[i].tier = lastTier[u]
                 /\ ~InQueue(u)' /\ InHand(u)' => triage'.job.tier = lastTier[u]
      <4>1. ASSUME NEW i, Newest(u, i)'
            PROVE  queue'[i].tier = lastTier[u]
        <5>1. Newest(u, i + 1) /\ queue'[i] = queue[i + 1]
          BY <2>2, <4>1, NewestTaken
        <5>2. i + 1 \in DOMAIN queue
          BY <5>1 DEF Newest
        <5>3. QED
          BY <3>2, <5>1, <5>2 DEF Current
      <4>2. ASSUME ~InQueue(u)', InHand(u)'
            PROVE  triage'.job.tier = lastTier[u]
        <5>1. InQueue(u)
          BY <2>2, <3>1, <4>2, TakenIs DEF InQueue
        <5>2. Newest(u, 1) /\ 1 \in DOMAIN queue
          BY <2>2, <4>2, <5>1, NewestTaken DEF Newest
        <5>3. queue[1].tier = lastTier[u]
          BY <3>2, <5>2 DEF Current
        <5>4. QED
          BY <2>2, <5>3, TakenIs
      <4>3. QED
        BY <4>1, <4>2
    <3>3. QED
      BY <2>1, <3>2 DEF Current
  <2>3. CASE UNCHANGED queue /\ \A u : InHand(u)' => InHand(u) /\ triage'.job = triage.job
    <3>1. \A u : (InQueue(u)' <=> InQueue(u)) /\ (\A i : Newest(u, i)' <=> Newest(u, i))
      BY <2>3 DEF InQueue, Newest
    <3>2. QED
      BY <2>1, <2>3, <3>1 DEF Current
  <2>4. QED
    BY <1>4, <2>2, <2>3, TriageIs DEF InHand, Idle
<1>5. CASE Quiet \/ UNCHANGED sensingVars
  <2>1. \A u : /\ (Putting(u)' <=> Putting(u))
               /\ (InQueue(u)' <=> InQueue(u)) /\ (InHand(u)' <=> InHand(u))
               /\ (\A i : Newest(u, i)' <=> Newest(u, i))
    BY <1>5 DEF Quiet, sensingVars, Putting, InQueue, InHand, Newest
  <2>2. UNCHANGED <<fired, lastTier, queue, triage>>
    BY <1>5 DEF Quiet, sensingVars
  <2>3. \A u : Putting(u) => sched'.job = sched.job
    BY <1>5 DEF Quiet, sensingVars, Putting
  <2>4. QED
    BY <2>1, <2>2, <2>3 DEF Current
<1>6. ASSUME NEW s \in SubMinds, Serviced(s)
      PROVE  Current'
  <2>1. \A u : /\ (Putting(u)' <=> Putting(u))
               /\ (InQueue(u)' <=> InQueue(u)) /\ (InHand(u)' <=> InHand(u))
               /\ (\A i : Newest(u, i)' <=> Newest(u, i))
    BY <1>6 DEF Serviced, Putting, InQueue, InHand, Newest, triageVars
  <2>2. UNCHANGED <<fired, lastTier, queue, triage, sched>>
    BY <1>6 DEF Serviced, triageVars
  <2>3. QED
    BY <2>1, <2>2 DEF Current
<1>7. QED
  BY <1>1, <1>2, <1>3, <1>4, <1>5, <1>6, RegistryIsQuiet DEF SensingNext, Registry

-----------------------------------------------------------------------------
LEMMA NeedKept ==
    ASSUME Typed, Started, Current, NeedIsCurrent, [SensingNext]_sensingVars
    PROVE  NeedIsCurrent'
<1> DEFINE Way(u) == Putting(u) \/ (sched.at = "clear" /\ sched.job = u) \/ InQueue(u) \/ InHand(u)
<1>0. /\ \A u : OnItsWay(u) <=> Way(u)
      /\ \A u : OnItsWay(u)' <=> Way(u)'
  BY DEF OnItsWay, Putting, InHand
<1>1. ASSUME NEW s \in SubMinds, NEW r \in -Low..Top, Tick(s, r)
      PROVE  NeedIsCurrent'
  <2>1. s \in fired' => OnItsWay(s)'
    BY <1>1, TickIs DEF OnItsWay, Emitted, Rearmed
  <2>2. \A u : OnItsWay(u) => OnItsWay(u)'
    BY <1>1, TickIs DEF OnItsWay, InQueue, triageVars
  <2>3. \A u \in fired' : u # s => u \in fired /\ lastTier'[u] = lastTier[u]
                                   /\ (u \in serviced <=> u \in serviced')
    <3>1. fired' \subseteq SubMinds
      BY <1>1, TickIs DEF Typed, SensingTypeOK, Emitted, Rearmed
    <3>2. QED
      BY <1>1, <3>1, TickIs
  <2>4. UNCHANGED <<need, stopping>>
    BY <1>1, TickIs
  <2>5. QED
    BY <2>1, <2>2, <2>3, <2>4 DEF NeedIsCurrent
<1>2. CASE Put
  <2>1. UNCHANGED <<need, stopping, fired, lastTier, serviced>>
    BY <1>2, PutIs DEF senseVars
  <2>2. \A u : OnItsWay(u) => OnItsWay(u)'
    <3>1. PICK p : p = sched.job.name
      OBVIOUS
    <3>2. \A u : InQueue(u) \/ u = p => InQueue(u)'
      BY <1>2, <3>1, NewestPut
    <3>3. \A u : (InHand(u)' <=> InHand(u)) /\ (Putting(u) => u = p) /\ sched.at = "put"
      BY <1>2, <3>1, PutIs DEF Put, InHand, Putting
    <3>4. QED
      BY <1>0, <3>2, <3>3
  <2>3. QED
    BY <2>1, <2>2 DEF NeedIsCurrent
<1>3. CASE Clear
  <2>1. UNCHANGED <<stopping, fired, lastTier, serviced>>
    BY <1>3 DEF Clear, senseVars
  <2>2. sched.job \notin fired /\ need' = [need EXCEPT ![sched.job] = None]
    BY <1>3 DEF Clear, Started
  <2>3. \A u \in fired : need'[u] = need[u]
    BY <2>2 DEF Typed, SensingTypeOK
  <2>4. \A u \in fired : OnItsWay(u) => OnItsWay(u)'
    BY <1>3, <2>2 DEF Clear, OnItsWay, InQueue, triageVars
  <2>5. QED
    BY <2>1, <2>3, <2>4 DEF NeedIsCurrent
<1>4. CASE TriageStep
  <2>1. UNCHANGED <<sched, stopping, fired, lastTier, serviced, wired, starting>>
        /\ \A u : (Putting(u)' <=> Putting(u)) /\ (u = sched'.job <=> u = sched.job)
    BY <1>4, TriageIs DEF senseVars, registryVars, Putting
  <2>2. CASE triage.at = "blocked" /\ Taken /\ UNCHANGED need
    <3>1. \A u : InHand(u)' <=> u = queue[1].name
      BY <2>2, TakenIs DEF InHand
    <3>2. \A u : InQueue(u) => InQueue(u)' \/ InHand(u)'
      BY <2>2, <3>1, NewestTaken
    <3>3. \A u : ~InHand(u)
      BY <2>2 DEF InHand
    <3>4. \A u : Way(u) => Way(u)'
      BY <2>1, <3>2, <3>3
    <3> HIDE DEF Way
    <3>5. QED
      BY <1>0, <2>1, <2>2, <3>4 DEF NeedIsCurrent
  <2>3. CASE UNCHANGED <<queue, need>> /\ (\A u : InHand(u)' <=> InHand(u))
    <3>1. \A u : Way(u)' <=> Way(u)
      BY <2>1, <2>3 DEF InQueue
    <3> HIDE DEF Way
    <3>2. QED
      BY <1>0, <2>1, <2>3, <3>1 DEF NeedIsCurrent
  <2>4. CASE triage.at \in {"got", "calling"} /\ ~wired
    BY <2>1, <2>4 DEF NeedIsCurrent, Started
  <2>5. CASE /\ triage.at = "calling" /\ triage' = Idle("top") /\ UNCHANGED queue
             /\ need' = [need EXCEPT ![triage.job.name] = triage.job.tier]
    <3>1. triage.job \in Signal
      BY <2>5 DEF Typed, SensingTypeOK
    <3>2. \A u : Way(u) => Way(u)' \/ u = triage.job.name
      BY <2>1, <2>5 DEF InQueue, InHand
    <3>3. ASSUME NEW u \in fired, stopping = "no", ~OnItsWay(u)', u = triage.job.name
          PROVE  need'[u] = lastTier[u]
      <4>1. ~Putting(u) /\ ~InQueue(u) /\ InHand(u)
        BY <1>0, <2>1, <2>5, <3>3 DEF InQueue, InHand
      <4>2. triage.job.tier = lastTier[u]
        BY <3>3, <4>1 DEF Current
      <4>3. u \in SubMinds
        BY DEF Typed, SensingTypeOK
      <4>4. QED
        BY <2>5, <3>3, <4>2, <4>3 DEF Typed, SensingTypeOK
    <3>4. \A u \in fired : u # triage.job.name => need'[u] = need[u]
      BY <2>5 DEF Typed, SensingTypeOK
    <3> HIDE DEF Way
    <3>5. QED
      BY <1>0, <2>1, <3>2, <3>3, <3>4 DEF NeedIsCurrent
  <2>6. QED
    BY <1>4, <2>2, <2>3, <2>4, <2>5, TriageIs DEF InHand, Idle
<1>5. CASE \/ Registry \/ SchedulerExits \/ StartEnds \/ UNCHANGED sensingVars
           \/ \E s \in SubMinds : SetActivation(s)
  <2>1. UNCHANGED <<fired, lastTier, serviced, queue, triage, need, stopping>>
    BY <1>5 DEF Registry, Endow, StartAdds, EndowAdds, StartMakes, StartWalks, StartEnds,
           SchedulerExits,
                SetActivation, sensingVars, senseVars, triageVars
  <2>2. sched' = sched \/ (sched'.at \in {"idle", "exited"} /\ sched.at \in {"off", "idle"})
    BY <1>5 DEF Registry, Endow, StartAdds, EndowAdds, StartMakes, StartWalks, StartEnds,
           SchedulerExits,
                SetActivation, sensingVars, Idle, Started
  <2>3. \A u : OnItsWay(u)' <=> OnItsWay(u)
    BY <2>1, <2>2 DEF OnItsWay, InQueue
  <2>4. QED
    BY <2>1, <2>3 DEF NeedIsCurrent
<1>6. CASE RegistryStopStep
  BY <1>6 DEF RegistryStopStep, NeedIsCurrent
<1>7. ASSUME NEW s \in SubMinds, Serviced(s)
      PROVE  NeedIsCurrent'
  <2>1. UNCHANGED <<fired, lastTier, queue, triage, sched, stopping>>
    BY <1>7 DEF Serviced, triageVars
  <2>2. \A u : OnItsWay(u)' <=> OnItsWay(u)
    BY <2>1 DEF OnItsWay, InQueue
  <2>3. need' = [need EXCEPT ![s] = None] /\ serviced' = serviced \cup {s}
    BY <1>7 DEF Serviced
  <2>4. QED
    BY <2>1, <2>2, <2>3 DEF NeedIsCurrent, Typed, SensingTypeOK
<1>8. QED
  BY <1>1, <1>2, <1>3, <1>4, <1>5, <1>6, <1>7 DEF SensingNext, Registry

-----------------------------------------------------------------------------
LEMMA WorsensKept ==
    ASSUME Typed, Started, Current, Worsens, EscalationWorsens, [SensingNext]_sensingVars
    PROVE  Worsens' /\ EscalationWorsens'
<1>1. ASSUME NEW s \in SubMinds, NEW r \in -Low..Top, Tick(s, r)
      PROVE  Worsens' /\ EscalationWorsens'
  <2>1. UNCHANGED queue /\ sched.at = "idle"
    BY <1>1, TickIs DEF triageVars
  <2>2. EscalationWorsens'
    BY <2>1 DEF EscalationWorsens
  <2>3. CASE Rearmed(s)
    BY <2>2, <2>3 DEF Worsens, Rearmed
  <2>4. ASSUME NEW kind \in {"signal", "escalation"}, Emitted(s, kind)
        PROVE  Worsens'
    <3>1. sched'.job.name = s /\ s \in fired' /\ sched'.job.kind = kind
          /\ sched'.job.tier = lastTier'[s]
      BY <2>4 DEF Emitted
    <3>2. ASSUME kind = "escalation", NEW i \in DOMAIN queue, Newest(s, i)
          PROVE  sched'.job.tier < queue[i].tier
      <4>1. s \in fired /\ lastTier'[s] < lastTier[s]
        BY <2>4, <3>2 DEF Emitted
      <4>2. queue[i].tier = lastTier[s]
        BY <2>1, <3>2, <4>1 DEF Current, Putting
      <4>3. QED
        BY <3>1, <4>1, <4>2
    <3>3. \A i : Newest(s, i)' <=> Newest(s, i)
      BY <2>1 DEF Newest
    <3>4. Newest(sched.job.name, 1)' <=> Newest(s, 1)'
      BY <3>1 DEF Newest
    <3>5. \A i : Newest(sched.job.name, i)' <=> Newest(s, i)'
      BY <3>1 DEF Newest
    <3>6. QED
      BY <2>1, <3>1, <3>2, <3>3, <3>5 DEF Worsens
  <2>5. QED
    BY <1>1, <2>2, <2>3, <2>4, TickIs
<1>2. CASE Put
  <2>1. Worsens'
    BY <1>2, PutIs DEF Worsens, Idle
  <2>2. ASSUME NEW i \in DOMAIN queue', NEW j \in DOMAIN queue', i < j,
               queue'[i].name = queue'[j].name, queue'[j].kind = "escalation",
               \A k \in i+1..j-1 : queue'[k].name # queue'[i].name
        PROVE  queue'[j].tier < queue'[i].tier
    <3>1. i \in DOMAIN queue /\ i \in Nat /\ j \in Nat
      BY <1>2, <2>2, PutIs
    <3>2. CASE j \in DOMAIN queue
      <4>1. \A k \in i+1..j-1 : k \in DOMAIN queue
        BY <1>2, <3>1, <3>2, PutIs
      <4>2. QED
        BY <1>2, <2>2, <3>1, <3>2, <4>1, PutIs DEF EscalationWorsens
    <3>3. CASE j \notin DOMAIN queue
      <4>1. j = Len(queue) + 1 /\ queue'[j] = sched.job
        BY <1>2, <3>3, PutIs
      <4>2. ASSUME NEW k \in DOMAIN queue, queue[k].name = sched.job.name
            PROVE  k <= i
        <5>1. queue'[k] = queue[k] /\ k \in Nat /\ k < j
          BY <1>2, <4>1, PutIs
        <5>2. k \notin i+1..j-1
          BY <2>2, <4>1, <4>2, <5>1
        <5>3. QED
          BY <3>1, <5>1, <5>2
      <4>3. Newest(sched.job.name, i)
        BY <1>2, <2>2, <3>1, <4>1, <4>2, PutIs DEF Newest
      <4>4. QED
        BY <1>2, <2>2, <3>1, <4>1, <4>3, PutIs DEF Put, Worsens
    <3>4. QED
      BY <3>2, <3>3
  <2>3. QED
    BY <2>1, <2>2 DEF EscalationWorsens
<1>3. CASE TriageStep
  <2>1. UNCHANGED <<sched, fired>>
    BY <1>3, TriageIs DEF senseVars
  <2>2. CASE Taken
    <3>1. Worsens'
      <4>1. ASSUME sched.at = "put", sched.job.kind = "escalation", NEW i \in DOMAIN queue',
                   Newest(sched.job.name, i)'
            PROVE  sched.job.tier < queue'[i].tier
        <5>1. PICK p : p = sched.job.name
          OBVIOUS
        <5>2. Newest(p, i)'
          BY <2>1, <4>1, <5>1 DEF Newest
        <5>3. Newest(p, i + 1) /\ queue'[i] = queue[i + 1]
          BY <2>2, <5>2, NewestTaken
        <5>4. i + 1 \in DOMAIN queue
          BY <5>3 DEF Newest
        <5>5. QED
          BY <4>1, <5>1, <5>3, <5>4 DEF Worsens
      <4>2. QED
        BY <2>1, <4>1 DEF Worsens
    <3>2. ASSUME NEW i \in DOMAIN queue', NEW j \in DOMAIN queue', i < j,
                 queue'[i].name = queue'[j].name, queue'[j].kind = "escalation",
                 \A k \in i+1..j-1 : queue'[k].name # queue'[i].name
          PROVE  queue'[j].tier < queue'[i].tier
      <4>1. /\ i + 1 \in DOMAIN queue /\ j + 1 \in DOMAIN queue
            /\ i + 1 < j + 1 /\ i \in Nat /\ j \in Nat
            /\ queue'[i] = queue[i + 1] /\ queue'[j] = queue[j + 1]
        BY <2>2, <3>2, TakenIs
      <4>2. ASSUME NEW k \in (i + 1) + 1..(j + 1) - 1
            PROVE  queue[k].name # queue[i + 1].name
        <5>1. k - 1 \in i+1..j-1 /\ k - 1 \in DOMAIN queue' /\ (k - 1) + 1 = k
          BY <2>2, <3>2, <4>1, TakenIs
        <5>2. queue'[k - 1] = queue[k]
          BY <2>2, <5>1, TakenIs
        <5>3. QED
          BY <3>2, <4>1, <5>1, <5>2
      <4>3. QED
        BY <3>2, <4>1, <4>2 DEF EscalationWorsens
    <3>3. QED
      BY <3>1, <3>2 DEF EscalationWorsens
  <2>3. CASE UNCHANGED queue
    BY <2>1, <2>3 DEF Worsens, EscalationWorsens, Newest
  <2>4. QED
    BY <1>3, <2>2, <2>3, TriageIs
<1>4. CASE Clear
  BY <1>4 DEF Clear, Worsens, EscalationWorsens, Idle, triageVars
<1>5. CASE Quiet \/ UNCHANGED sensingVars
  <2>1. UNCHANGED <<queue, fired>> /\ (sched'.at = "put" => sched' = sched)
    BY <1>5 DEF Quiet, sensingVars
  <2>2. QED
    BY <2>1 DEF Worsens, EscalationWorsens, Newest
<1>6. ASSUME NEW s \in SubMinds, Serviced(s)
      PROVE  Worsens' /\ EscalationWorsens'
  <2>1. UNCHANGED <<queue, fired, sched>>
    BY <1>6 DEF Serviced, triageVars
  <2>2. QED
    BY <2>1 DEF Worsens, EscalationWorsens, Newest
<1>7. QED
  BY <1>1, <1>2, <1>3, <1>4, <1>5, <1>6, RegistryIsQuiet DEF SensingNext, Registry

-----------------------------------------------------------------------------
LEMMA ScheduleKept ==
    ASSUME Typed, Started, Added, EndowedIsScheduled, [SensingNext]_sensingVars
    PROVE  Added' /\ EndowedIsScheduled'
<1> USE DEF Typed
<1>1. ASSUME NEW s \in SubMinds, NEW r \in -Low..Top, Tick(s, r)
      PROVE  Added' /\ EndowedIsScheduled'
  <2>1. UNCHANGED <<members, starting, added, endowing>> /\ sched.at = "idle"
    BY <1>1, TickIs DEF registryVars
  <2>2. \A u \in SubMinds \ {s} : scheduled'[u] = scheduled[u]
    BY <1>1, TickIs DEF SensingTypeOK
  <2>3. Added'
    BY <2>1 DEF Added, Started
  <2>4. members \subseteq SubMinds
    BY DEF SensingTypeOK
  <2>5. (sched'.at = "put" /\ sched'.job.name = s) \/ (sched'.at = "clear" /\ sched'.job = s)
    BY <1>1, TickIs DEF Emitted, Rearmed
  <2>6. QED
    BY <2>1, <2>2, <2>3, <2>4, <2>5 DEF EndowedIsScheduled
<1>2. CASE Put
  <2>1. PICK p \in SubMinds : p = sched.job.name /\ scheduled' = [scheduled EXCEPT ![p] = @ + 1]
    BY <1>2, PutIs DEF Signal
  <2>2. scheduled'[p] > 0 /\ \A u \in SubMinds : scheduled[u] > 0 => scheduled'[u] > 0
    BY <2>1 DEF SensingTypeOK
  <2>3. UNCHANGED <<members, starting, added, endowing>> /\ sched.at = "put"
    BY <1>2, PutIs DEF Put, registryVars
  <2>4. members \subseteq SubMinds /\ added \subseteq SubMinds
    BY DEF SensingTypeOK
  <2>5. Added'
    BY <2>2, <2>3, <2>4 DEF Added
  <2>6. EndowedIsScheduled'
    BY <2>1, <2>2, <2>3, <2>4 DEF EndowedIsScheduled
  <2>7. QED
    BY <2>5, <2>6
<1>3. CASE Clear
  <2>1. PICK p \in SubMinds : p = sched.job /\ scheduled' = [scheduled EXCEPT ![p] = @ + 1]
    BY <1>3 DEF Clear, SensingTypeOK
  <2>2. scheduled'[p] > 0 /\ \A u \in SubMinds : scheduled[u] > 0 => scheduled'[u] > 0
    BY <2>1 DEF SensingTypeOK
  <2>3. UNCHANGED <<members, starting, added, endowing>> /\ sched.at = "clear"
    BY <1>3 DEF Clear, registryVars
  <2>4. members \subseteq SubMinds /\ added \subseteq SubMinds
    BY DEF SensingTypeOK
  <2>5. Added'
    BY <2>2, <2>3, <2>4 DEF Added
  <2>6. EndowedIsScheduled'
    BY <2>1, <2>2, <2>3, <2>4 DEF EndowedIsScheduled
  <2>7. QED
    BY <2>5, <2>6
<1>4. ASSUME NEW s \in SubMinds, Endow(s)
      PROVE  Added' /\ EndowedIsScheduled'
  <2>1. /\ endowing = None /\ members' = members \cup {s}
        /\ endowing' = IF starting = "no" THEN None ELSE s
        /\ UNCHANGED <<starting, added, scheduled, sched>>
    BY <1>4 DEF Endow
  <2>2. Added'
    BY <2>1 DEF Added
  <2>3. members \subseteq SubMinds /\ None \notin SubMinds
    BY SensingAssumption DEF SensingTypeOK
  <2>4. QED
    BY <2>1, <2>2, <2>3 DEF EndowedIsScheduled
<1>5. CASE EndowAdds
  <2>1. endowing \in SubMinds /\ scheduled' = [scheduled EXCEPT ![endowing] = @ + 1]
    BY <1>5 DEF EndowAdds, SensingTypeOK
  <2>2. scheduled'[endowing] > 0 /\ \A u \in SubMinds : scheduled[u] > 0 => scheduled'[u] > 0
    BY <2>1 DEF SensingTypeOK
  <2>3. UNCHANGED <<members, starting, added, sched>>
    BY <1>5 DEF EndowAdds
  <2>4. members \subseteq SubMinds /\ added \subseteq SubMinds
    BY DEF SensingTypeOK
  <2>5. Added'
    BY <2>2, <2>3, <2>4 DEF Added
  <2>6. EndowedIsScheduled'
    BY <2>2, <2>3, <2>4 DEF EndowedIsScheduled
  <2>7. QED
    BY <2>5, <2>6
<1>6. ASSUME NEW s \in SubMinds, StartAdds(s)
      PROVE  Added' /\ EndowedIsScheduled'
  <2>1. /\ starting = "adding" /\ starting' = starting /\ added' = added \cup {s}
        /\ scheduled' = [scheduled EXCEPT ![s] = @ + 1]
    BY <1>6 DEF StartAdds
  <2>2. scheduled'[s] > 0 /\ \A u \in SubMinds : scheduled[u] > 0 => scheduled'[u] > 0
    BY <2>1 DEF SensingTypeOK
  <2>3. added \subseteq SubMinds
    BY DEF SensingTypeOK
  <2>4. QED
    BY <2>1, <2>2, <2>3 DEF Added, EndowedIsScheduled
<1>7. CASE StartEnds
  <2>1. starting = "adding" /\ UNCHANGED <<members, added, scheduled>>
    BY <1>7 DEF StartEnds
  <2>2. starting' = "failed" \/ (starting' = "yes" /\ added = members)
    BY <1>7 DEF StartEnds
  <2>3. QED
    BY <2>1, <2>2 DEF Added, EndowedIsScheduled
<1>8. CASE StartMakes
  BY <1>8 DEF StartMakes, Added, EndowedIsScheduled
<1>9. CASE StartWalks
  <2>1. starting = "made" /\ starting' = "adding" /\ UNCHANGED <<added, scheduled>>
    BY <1>9 DEF StartWalks
  <2>2. QED
    BY <2>1 DEF Added, EndowedIsScheduled
<1>10. CASE SchedulerExits \/ RegistryStopStep \/ TriageStep
  <2>1. UNCHANGED <<members, starting, added, endowing, scheduled>>
    BY <1>10, TriageIs DEF SchedulerExits, RegistryStopStep, registryVars
  <2>2. sched' = sched \/ sched.at = "idle"
    BY <1>10, TriageIs DEF SchedulerExits, RegistryStopStep
  <2>3. QED
    BY <2>1, <2>2 DEF Added, EndowedIsScheduled
<1>11. ASSUME NEW s \in SubMinds, SetActivation(s) \/ Serviced(s)
       PROVE  Added' /\ EndowedIsScheduled'
  BY <1>11 DEF SetActivation, Serviced, Added, EndowedIsScheduled, registryVars
<1>12. CASE UNCHANGED sensingVars
  BY <1>12 DEF sensingVars, Added, EndowedIsScheduled
<1>13. QED
  BY <1>1, <1>2, <1>3, <1>4, <1>5, <1>6, <1>7, <1>8, <1>9, <1>10, <1>11, <1>12 DEF SensingNext

-----------------------------------------------------------------------------
(* The inductive invariant (submind_registry.py, submind_scheduler.py,     *)
(* signal_triage.py).                                                      *)
THEOREM SensingInvariant == SensingSpec => []SensingInv
<1>1. SensingInit => SensingInv
  <2> SUFFICES ASSUME SensingInit PROVE SensingInv
    OBVIOUS
  <2>1. 0 \in 0..Cardinality(SubMinds) /\ 0 \in 0..MaxSignals /\ 0 \in 0..MaxToggles
    BY SensingAssumption, FS_CardinalityType
  <2>2. Typed
    <3>1. /\ scheduled \in [SubMinds -> Nat] /\ lastTier \in [SubMinds -> Tiers \cup {None}]
          /\ need \in [SubMinds -> Tiers \cup {None}] /\ queue \in Seq(Signal)
          /\ \A s \in SubMinds : lastTier[s] = None
      BY DEF SensingInit
    <3>2. sched \in [at : {"off"}, job : {None}] /\ triage \in [at : {"top"}, job : {None}]
      BY DEF SensingInit, Idle
    <3>3. QED
      BY <2>1, <3>1, <3>2 DEF SensingInit, Typed, SensingTypeOK
  <2>3. Started
    BY DEF SensingInit, Started, Idle
  <2>4. Current /\ NeedIsCurrent /\ Worsens /\ EscalationWorsens
    BY DEF SensingInit, Current, NeedIsCurrent, Worsens, EscalationWorsens, Idle
  <2>5. Added /\ EndowedIsScheduled
    BY DEF SensingInit, Added, EndowedIsScheduled
  <2>6. QED
    BY <2>2, <2>3, <2>4, <2>5 DEF SensingInv
<1>2. SensingInv /\ [SensingNext]_sensingVars => SensingInv'
  BY TypedKept, StartedKept, CurrentKept, NeedKept, WorsensKept, ScheduleKept DEF SensingInv
<1>3. QED
  BY <1>1, <1>2, PTL DEF SensingSpec

(* A fired SubMind has the need it last signalled although signals pass    *)
(* through a queue and clears do not, an escalation is more urgent than    *)
(* the signal before it, and what is endowed stays on the schedule, for    *)
(* any SubMinds, bands and margins (submind.py, submind_registry.py,       *)
(* submind_scheduler.py, signal_triage.py).                                *)
THEOREM SensingNeedsAndSchedule == SensingSpec => []NeedsAndSchedule
<1>1. SensingInv => NeedsAndSchedule
  BY DEF SensingInv, Typed, NeedsAndSchedule
<1>2. QED
  BY <1>1, SensingInvariant, PTL
=============================================================================

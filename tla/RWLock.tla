------------------------------- MODULE RWLock -------------------------------
(***************************************************************************)
(* mindsos_intelligence/rwlock.py: the writer-preferred reader-writer lock *)
(* of a mental model.  Three fields guarded by one condition variable:     *)
(*   readers         threads inside a read                                 *)
(*   writersWaiting  threads between the two counter updates of            *)
(*                   acquire_write                                         *)
(*   writerActive    a thread is inside a write                            *)
(*                                                                         *)
(* A method body runs under the condition's mutex, so it is one step up to *)
(* the wait() that gives the mutex away; the mutex itself is not modelled. *)
(* threading.Condition has no spurious wake-ups: a sleeper leaves the wait *)
(* set only through notify_all, and then competes for the mutex again.     *)
(***************************************************************************)
EXTENDS Naturals, FiniteSets

CONSTANTS Threads,      \* the threads that use the lock
          MayInterrupt  \* those whose wait() may be ended by an exception

ASSUME ThreadsFinite == IsFiniteSet(Threads)

VARIABLES readers, writersWaiting, writerActive,
          pc,           \* where each thread is
          broken        \* history: an exception has ended a writer's wait

vars == <<readers, writersWaiting, writerActive, pc, broken>>

\* "sleepR" and "sleepW" form the condition's wait set; a notified thread is
\* "wokenR" or "wokenW" until it re-tests its loop condition.
PC == {"out", "sleepR", "wokenR", "reading", "sleepW", "wokenW", "writing"}

At(S) == {t \in Threads : pc[t] \in S}

TypeOK ==
    /\ readers \in Nat
    /\ writersWaiting \in Nat
    /\ writerActive \in BOOLEAN
    /\ pc \in [Threads -> PC]
    /\ broken \in BOOLEAN

Init ==
    /\ readers = 0
    /\ writersWaiting = 0
    /\ writerActive = FALSE
    /\ pc = [t \in Threads |-> "out"]
    /\ broken = FALSE

-----------------------------------------------------------------------------
\* Mutant of ReadBlocked: acquire_read forgets the waiting writers: a plain reader-writer lock.
MutReadBlockedNoPreference == writerActive

\* The loop condition of acquire_read.
ReadBlocked == writerActive \/ writersWaiting > 0

\* Mutant of WriteBlocked: acquire_write looks at the writer flag only.
MutWriteBlockedNoReaders == writerActive

\* The loop condition of acquire_write.
WriteBlocked == writerActive \/ readers > 0

\* self._cond.notify_all(), by a thread that goes to "out".
Notified(label) == IF label = "sleepR" THEN "wokenR"
                   ELSE IF label = "sleepW" THEN "wokenW" ELSE label

NotifyAllAndLeave(t) ==
    pc' = [u \in Threads |-> IF u = t THEN "out" ELSE Notified(pc[u])]

\* acquire_read: the first test of the loop, or the one after a wake-up.
AcquireRead(t) ==
    /\ pc[t] \in {"out", "wokenR"}
    /\ ~ReadBlocked
    /\ readers' = readers + 1
    /\ pc' = [pc EXCEPT ![t] = "reading"]
    /\ UNCHANGED <<writersWaiting, writerActive, broken>>

ReadWait(t) ==
    /\ pc[t] \in {"out", "wokenR"}
    /\ ReadBlocked
    /\ pc' = [pc EXCEPT ![t] = "sleepR"]
    /\ UNCHANGED <<readers, writersWaiting, writerActive, broken>>

\* Mutant of ReleaseRead: a release that does not ask whether the thread is inside.
MutReleaseReadUnheld(t) ==
    /\ pc[t] \in {"out", "reading"}
    /\ readers' = readers - 1
    /\ IF readers' = 0 THEN NotifyAllAndLeave(t) ELSE pc' = [pc EXCEPT ![t] = "out"]
    /\ UNCHANGED <<writersWaiting, writerActive, broken>>

\* Mutant of ReleaseRead: the last reader is missed by one.
MutReleaseReadNotifyAtOne(t) ==
    /\ pc[t] = "reading"
    /\ readers' = readers - 1
    /\ IF readers' = 1 THEN NotifyAllAndLeave(t) ELSE pc' = [pc EXCEPT ![t] = "out"]
    /\ UNCHANGED <<writersWaiting, writerActive, broken>>

ReleaseRead(t) ==
    /\ pc[t] = "reading"
    /\ readers' = readers - 1
    /\ IF readers' = 0
       THEN NotifyAllAndLeave(t)
       ELSE pc' = [pc EXCEPT ![t] = "out"]
    /\ UNCHANGED <<writersWaiting, writerActive, broken>>

\* acquire_write that never waits: the counter goes up and down in one step.
AcquireWriteAtOnce(t) ==
    /\ pc[t] = "out"
    /\ ~WriteBlocked
    /\ writerActive' = TRUE
    /\ pc' = [pc EXCEPT ![t] = "writing"]
    /\ UNCHANGED <<readers, writersWaiting, broken>>

\* acquire_write that waits: from now on new readers are held back.
WriteWait(t) ==
    /\ pc[t] = "out"
    /\ WriteBlocked
    /\ writersWaiting' = writersWaiting + 1
    /\ pc' = [pc EXCEPT ![t] = "sleepW"]
    /\ UNCHANGED <<readers, writerActive, broken>>

\* Mutant of AcquireWriteWoken: acquire_write waits in an if, not in a while.
MutAcquireWriteNoRetest(t) ==
    /\ pc[t] = "wokenW"
    /\ writersWaiting' = writersWaiting - 1
    /\ writerActive' = TRUE
    /\ pc' = [pc EXCEPT ![t] = "writing"]
    /\ UNCHANGED <<readers, broken>>

\* A woken writer re-tests, and goes in or back to sleep.
AcquireWriteWoken(t) ==
    /\ pc[t] = "wokenW"
    /\ ~WriteBlocked
    /\ writersWaiting' = writersWaiting - 1
    /\ writerActive' = TRUE
    /\ pc' = [pc EXCEPT ![t] = "writing"]
    /\ UNCHANGED <<readers, broken>>

WriteWaitAgain(t) ==
    /\ pc[t] = "wokenW"
    /\ WriteBlocked
    /\ pc' = [pc EXCEPT ![t] = "sleepW"]
    /\ UNCHANGED <<readers, writersWaiting, writerActive, broken>>

\* Mutant of WriteInterrupted: the decrement is not in a finally clause.
MutWriteInterruptedNoFinally(t) ==
    /\ t \in MayInterrupt
    /\ pc[t] \in {"sleepW", "wokenW"}
    /\ pc' = [pc EXCEPT ![t] = "out"]
    /\ UNCHANGED <<readers, writersWaiting, writerActive, broken>>

\* wait() raises (KeyboardInterrupt in the main thread): the finally clause
\* takes the writer out of the count and the exception leaves acquire_write.
\* Nobody is notified.
WriteInterrupted(t) ==
    /\ t \in MayInterrupt
    /\ pc[t] \in {"sleepW", "wokenW"}
    /\ writersWaiting' = writersWaiting - 1
    /\ pc' = [pc EXCEPT ![t] = "out"]
    /\ broken' = TRUE
    /\ UNCHANGED <<readers, writerActive>>

\* The same in acquire_read, which has nothing to undo.
ReadInterrupted(t) ==
    /\ t \in MayInterrupt
    /\ pc[t] \in {"sleepR", "wokenR"}
    /\ pc' = [pc EXCEPT ![t] = "out"]
    /\ UNCHANGED <<readers, writersWaiting, writerActive, broken>>

ReleaseWrite(t) ==
    /\ pc[t] = "writing"
    /\ writerActive' = FALSE
    /\ NotifyAllAndLeave(t)
    /\ UNCHANGED <<readers, writersWaiting, broken>>

Retest(t) ==
    \/ pc[t] = "wokenR" /\ (AcquireRead(t) \/ ReadWait(t))
    \/ AcquireWriteWoken(t) \/ WriteWaitAgain(t)

Release(t) == ReleaseRead(t) \/ ReleaseWrite(t)

Next == \E t \in Threads :
    \/ AcquireRead(t) \/ ReadWait(t) \/ ReleaseRead(t)
    \/ AcquireWriteAtOnce(t) \/ WriteWait(t)
    \/ AcquireWriteWoken(t) \/ WriteWaitAgain(t)
    \/ WriteInterrupted(t) \/ ReadInterrupted(t)
    \/ ReleaseWrite(t)

\* read_locked and write_locked release in a finally clause, and the work done
\* under the lock never waits for it again: holders release.  A woken thread
\* re-tests once the mutex, which nobody holds across a wait, is granted.
Fairness == \A t \in Threads : WF_vars(Release(t)) /\ WF_vars(Retest(t))

Spec     == Init /\ [][Next]_vars
FairSpec == Spec /\ Fairness
-----------------------------------------------------------------------------
\* The counters count: the three fields agree with where the threads are.
CountersExact ==
    /\ readers = Cardinality(At({"reading"}))
    /\ writersWaiting = Cardinality(At({"sleepW", "wokenW"}))
    /\ writerActive <=> At({"writing"}) # {}

\* Readers and a writer, or two writers, are never inside together: a write
\* excludes all readers and writers (rwlock.py, module docstring).
WriterAlone ==
    \A t, u \in Threads : pc[t] = "writing" /\ t # u
                            => pc[u] \notin {"reading", "writing"}

\* No lost wake-up: as long as somebody sleeps on the condition, somebody is
\* inside who will notify, or somebody awake is about to get in who will.
\* release_read notifies only at zero and acquire_write never does, so this
\* rests on the order of the counter updates and the loops.  (An exception that
\* ends a writer's wait notifies nobody, and breaks this.)
SleeperHasWaker ==
    ~broken /\ At({"sleepR", "sleepW"}) # {}
        => At({"reading", "writing", "wokenW"}) # {}

\* Writer preference: while a writer has been waiting since before this step,
\* no reader gets in ("a waiting writer blocks new readers").
WaitingWriterBlocksReaders ==
    [][At({"sleepW", "wokenW"}) # {}
         => \A t \in Threads : pc'[t] = "reading" => pc[t] = "reading"]_vars

\* The purpose of the preference: readers alone cannot starve writers.  If a
\* writer waits, a writer gets in (or an exception ends a writer's wait).
WritersNotStarvedByReaders ==
    At({"sleepW", "wokenW"}) # {} ~> At({"writing"}) # {} \/ broken

\* What a user sees, for the refinement of SharedExclusiveLock.
Hold(label) == IF label = "reading" THEN "read"
               ELSE IF label = "writing" THEN "write" ELSE "none"
Holds == [t \in Threads |-> Hold(pc[t])]

Abstract == INSTANCE SharedExclusiveLock WITH holds <- Holds
ImplementsSharedExclusiveLock == Abstract!Spec

\* The lock's state is sound: its counters count the threads they stand for, and
\* readers and a writer, or two writers, are never inside together, through waits,
\* wake-ups and interrupted waits (rwlock.py, every method).
Exclusion ==
  /\ TypeOK
  /\ CountersExact
  /\ WriterAlone
=============================================================================

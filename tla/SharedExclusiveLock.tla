------------------------ MODULE SharedExclusiveLock ------------------------
(***************************************************************************)
(* What a reader-writer lock promises its users, with no queue, counter or *)
(* condition variable: each thread holds nothing, a share, or the whole of *)
(* the mental model, a share excludes writers only and a writer excludes   *)
(* everyone.  RWLock is shown to implement this module.                    *)
(***************************************************************************)

CONSTANT Threads        \* the threads that use the lock

VARIABLE holds          \* holds[t] \in {"none", "read", "write"}

TypeOK == holds \in [Threads -> {"none", "read", "write"}]

Init == holds = [t \in Threads |-> "none"]

AcquireRead(t) ==
    /\ holds[t] = "none"
    /\ \A u \in Threads : holds[u] # "write"
    /\ holds' = [holds EXCEPT ![t] = "read"]

AcquireWrite(t) ==
    /\ \A u \in Threads : holds[u] = "none"
    /\ holds' = [holds EXCEPT ![t] = "write"]

Release(t) ==
    /\ holds[t] # "none"
    /\ holds' = [holds EXCEPT ![t] = "none"]

Next == \E t \in Threads : AcquireRead(t) \/ AcquireWrite(t) \/ Release(t)

Spec == Init /\ [][Next]_holds

\* A writer is alone: no second writer and no reader beside it.
Exclusion ==
    \A t, u \in Threads : holds[t] = "write" /\ t # u => holds[u] = "none"
=============================================================================

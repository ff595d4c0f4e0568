----------------------------- MODULE FuturePool -----------------------------
(***************************************************************************)
(* What an executor promises for each future it has returned: the body     *)
(* runs at most once, never after a cancel, and a result is set only by a  *)
(* run.  Which future runs when is left open.                              *)
(***************************************************************************)
CONSTANT Futures
VARIABLE status

Init == status = [f \in Futures |-> "none"]

Move(f, from, to) == status[f] = from /\ status' = [status EXCEPT ![f] = to]

Submit(f) == Move(f, "none", "pending")
Run(f)    == Move(f, "pending", "running")
Finish(f) == Move(f, "running", "done")
Cancel(f) == Move(f, "pending", "cancelled")

Next == \E f \in Futures : Submit(f) \/ Run(f) \/ Finish(f) \/ Cancel(f)

Spec == Init /\ [][Next]_status
=============================================================================

------------------------------- MODULE MutexLock -------------------------------
(***************************************************************************)
(* What a production lock promises to the operations it protects: at any   *)
(* moment at most one of them is inside its critical section.  Nothing is  *)
(* said of descriptors, owner metadata or probes; ProductionLock is shown  *)
(* to implement this module.                                               *)
(***************************************************************************)

CONSTANT Runners

VARIABLE inside   \* the runners between acquire_production_lock and release

Init == inside = {}

\* A runner enters only an empty critical section.
Enter(r) == inside = {} /\ inside' = {r}

\* The runner inside leaves: it released the lock, or its process died.
Leave(r) == inside = {r} /\ inside' = {}

Next == \E r \in Runners : Enter(r) \/ Leave(r)

Spec == Init /\ [][Next]_inside
=============================================================================

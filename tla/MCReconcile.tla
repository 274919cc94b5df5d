---------------------------- MODULE MCReconcile ----------------------------
(* Transfers in both directions while two users are audited.               *)
EXTENDS Reconcile, TLC

MCRequestRow == [r \in {} |-> 0]
MCLinkRow == [l \in {} |-> 0]
MCJobs ==
    {[kind |-> "transfer", actor |-> u, recipient |-> 3 - u, amount |-> 2,
      entity |-> NoEntity, key |-> k] : u \in Users, k \in Keys}
Symmetry == Permutations(Procs) \cup Permutations(Keys)
=============================================================================

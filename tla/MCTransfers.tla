---------------------------- MODULE MCTransfers ----------------------------
(* Transfers alone, between two users in both directions, with amounts     *)
(* below and above the per-transfer cap, and every key reused by any call. *)
EXTENDS MoneyMovement, TLC

MCRequestRow == [r \in {} |-> 0]
MCLinkRow == [l \in {} |-> 0]
Transfer(from, to, a, k) ==
    [kind |-> "transfer", actor |-> from, recipient |-> to, amount |-> a,
     entity |-> NoEntity, key |-> k]
MCJobs ==
    {Transfer(1, 2, 2, k) : k \in Keys} \cup {Transfer(2, 1, 2, k) : k \in Keys}
        \cup {Transfer(1, 2, 1, k) : k \in Keys} \cup {Transfer(1, 2, 4, k) : k \in Keys}
Symmetry == Permutations(Keys) \cup Permutations(Procs)
=============================================================================

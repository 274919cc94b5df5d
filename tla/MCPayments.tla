----------------------------- MODULE MCPayments -----------------------------
(* The three routes together among three users whose payments form a       *)
(* cycle (1 to 2 by transfer, 2 to 3 by request, 3 to 1 by link), with an  *)
(* accept by the wrong user and a claim by a second user and by the creator. *)
EXTENDS MoneyMovement, TLC

CONSTANTS k1, k2

MCRequestRow == [r \in Requests |-> [requester |-> 3, debtor |-> 2, amount |-> 2]]
MCLinkRow == [l \in Links |-> [creator |-> 3, amount |-> 5]]
MCJobs ==
    [kind : {"transfer"}, actor : {1}, recipient : {2}, amount : {2},
     entity : {NoEntity}, key : {k1}]
        \cup [kind : {"accept"}, actor : {2}, entity : Requests, key : Keys]
        \cup [kind : {"accept"}, actor : {1}, entity : Requests, key : {k1}]
        \cup [kind : {"claim"}, actor : {1, 2}, entity : Links, key : {k2}]
        \cup [kind : {"claim"}, actor : {3}, entity : Links, key : {k1}]
Symmetry == Permutations(Procs)
=============================================================================

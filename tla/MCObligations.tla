--------------------------- MODULE MCObligations ---------------------------
(* User 2 owes two coins twice, with three in the account: by a request of *)
(* user 1, and by a link that users 1 and 3 claim.  Two calls at a time    *)
(* with fresh or reused keys, while the parties close, view and cancel.    *)
EXTENDS Obligations

MCRequestRow == [r \in Requests |-> [requester |-> 1, debtor |-> 2, amount |-> 2]]
MCLinkRow == [l \in Links |-> [creator |-> 2, amount |-> 2]]
MCJobs ==
    [kind : {"accept"}, actor : {2}, entity : Requests, key : Keys]
        \cup [kind : {"claim"}, actor : {1, 2, 3}, entity : Links, key : Keys]
=============================================================================

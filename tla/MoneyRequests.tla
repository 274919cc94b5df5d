--------------------------- MODULE MoneyRequests ---------------------------
(***************************************************************************)
(* The life of a money request (src/src/features/requests/service.rs): the *)
(* requester creates it, the debtor accepts it by a payment (the accept of *)
(* MoneyMovement) or rejects it, the requester cancels it.  Create, reject *)
(* and cancel take no lock but the row's own, so each is one action; the   *)
(* last two are taken while no other transaction has the row.              *)
(***************************************************************************)
EXTENDS MoneyMovement

VARIABLES asked       \* the requests that exist

requestVars == <<vars, asked>>

RequestTypeOK == TypeOK /\ asked \subseteq Requests

(* Clients can only name a request once create_request has returned it.    *)
RequestInit == Init /\ asked = {}

othersThanRequests == <<balances, transfers, ledger, tx_history, payment_links, ledger_seq,
                        lockVars, redisVars, lapsed, procVars, published>>

CreateRequest(r) ==
    /\ r \notin asked
    /\ asked' = asked \cup {r}
    /\ process_events' = process_events \cup {EventRow(r, "created", NoKey)}
    /\ UNCHANGED <<othersThanRequests, money_requests>>

Close_NoWait(r, status) ==                      \* mutant: row not locked
    /\ r \in asked
    /\ money_requests[r] = "pending"
    /\ money_requests' = [money_requests EXCEPT ![r] = status]
    /\ process_events' = process_events \cup {EventRow(r, status, NoKey)}
    /\ UNCHANGED <<othersThanRequests, asked>>

Close_AnyStatus(r, status) ==                   \* mutant: status not checked
    /\ r \in asked
    /\ entity_lock[r] = NoProc
    /\ money_requests' = [money_requests EXCEPT ![r] = status]
    /\ process_events' = process_events \cup {EventRow(r, status, NoKey)}
    /\ UNCHANGED <<othersThanRequests, asked>>

Close(r, status) ==
    /\ r \in asked
    /\ entity_lock[r] = NoProc
    /\ money_requests[r] = "pending"
    /\ money_requests' = [money_requests EXCEPT ![r] = status]
    /\ process_events' = process_events \cup {EventRow(r, status, NoKey)}
    /\ UNCHANGED <<othersThanRequests, asked>>

(* Any other actor is refused (403), after the check that it is pending.   *)
RejectRequest(u, r) == u = RequestRow[r].debtor /\ Close(r, "rejected")
CancelRequest(u, r) == u = RequestRow[r].requester /\ Close(r, "cancelled")

RequestStep ==
    \/ \E r \in Requests : CreateRequest(r)
    \/ \E u \in Users, r \in Requests : RejectRequest(u, r) \/ CancelRequest(u, r)

(* Calls of the handlers of MoneyMovement name requests that exist.        *)
CallsNameRequests ==
    /\ \A p \in Procs : pc'[p] = "lock_entity" /\ job'[p].kind = "accept"
                          => job'[p].entity \in asked
    /\ asked' = asked
-----------------------------------------------------------------------------
(* Once resolved, a request keeps its status: accept, reject and cancel,   *)
(* by two users at once, leave exactly one outcome.                        *)
ResolvedRequestsStay ==
    [][\A r \in Requests :
          money_requests[r] # "pending" => money_requests'[r] = money_requests[r]]_requestVars

(* A resolved request has one resolution in the event log, the one its     *)
(* status shows, and money moved under it only if that is "accepted".      *)
Resolutions(r) == {v \in process_events : v.entity = r /\ v.type # "created"}

OneResolution ==
    \A r \in Requests :
        IF money_requests[r] = "pending"
        THEN Resolutions(r) = {}
        ELSE \E v \in process_events :
                /\ Resolutions(r) = {v}
                /\ v.type = money_requests[r]
                /\ v.key \in Keys <=> money_requests[r] = "accepted"
=============================================================================

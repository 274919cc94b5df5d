---------------------------- MODULE Obligations ----------------------------
(***************************************************************************)
(* Money requests and payment links together: the handlers of              *)
(* MoneyMovement, those of MoneyRequests and those of PaymentLinks, on the *)
(* same accounts, keys and event log.                                      *)
(***************************************************************************)
EXTENDS MoneyRequests, PaymentLinks

obligationVars == <<vars, asked, created, expiring>>

ObligationTypeOK == RequestTypeOK /\ LinkTypeOK

ObligationInit == RequestInit /\ LinkInit

ObligationNext ==
    \/ Next /\ CallsNameRequests /\ CallsNameLinks
    \/ RequestStep /\ UNCHANGED <<created, expiring>>
    \/ LinkStep /\ UNCHANGED asked

ObligationSpec == ObligationInit /\ [][ObligationNext]_obligationVars

(* The runtime polls every ready task and Postgres grants a free lock to a *)
(* waiter, so a request that can take a step eventually takes it.          *)
ObligationFairSpec ==
    /\ ObligationSpec
    /\ \A p \in Procs :
          WF_obligationVars(Advance(p) /\ UNCHANGED <<asked, created, expiring>>)
=============================================================================

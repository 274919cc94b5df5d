----------------------------- MODULE BankProofs -----------------------------
(***************************************************************************)
(* The three routes pay each obligation once, and together implement Bank. *)
(* Two facts join here: a key has no row while its transaction is open     *)
(* (KeyInv), and a request or link that is about to be paid is locked and  *)
(* still payable (PayInv).  Two sections follow, about what runs beside    *)
(* the payments: the life of requests and links, and the audit.            *)
(***************************************************************************)
EXTENDS MoneyMovementProofs, Obligations, Reconcile

(* The entity a request has locked stays as it was when it was admitted.   *)
PayInv(p) ==
    /\ pc[p] = "read_entity" => entity_lock[job[p].entity] = p
    /\ pc[p] \in MoneySteps /\ job[p].kind = "accept" =>
            entity_lock[job[p].entity] = p /\ money_requests[job[p].entity] = "pending"
    /\ pc[p] \in MoneySteps /\ job[p].kind = "claim" =>
            entity_lock[job[p].entity] = p /\ payment_links[job[p].entity].status = "active"

SettlingTypes == {"accepted", "claimed"}

(* The event of a payment names its entity and its key, and the status of  *)
(* a link says whether there is one, except that a viewer may mark a       *)
(* claimed link expired (PaymentLinks).                                    *)
EventsInv ==
    /\ \A v \in process_events : v.type \in SettlingTypes => v.entity \in Entities /\ v.key \in Keys
    /\ \A l \in Links : payment_links[l].status = "claimed" => SettlingEvents(l) # {}
    /\ \A l \in Links : SettlingEvents(l) # {} => payment_links[l].status \in {"claimed", "expired"}

EntityInv == ObligationPaidOnce /\ EventsInv /\ \A p \in Procs : PayInv(p)
-----------------------------------------------------------------------------
(* Before any event nothing is settled.                                    *)
LEMMA InitEntityInv == Init => EntityInv
BY DEF Init, EntityInv, ObligationPaidOnce, EventsInv, SettlingEvents, PayInv, MoneySteps

(* Transfers, entities and their events are written by the two commits and *)
(* by the expiry that a claim finds.                                       *)
LEMMA OthersKeepEntities ==
    ASSUME [Next]_vars,
           \A p \in Procs : ~Commit(p) /\ ~CommitRefused(p) /\ ~(DecideClaim(p) /\ ExpireLink(p))
    PROVE  UNCHANGED <<balances, transfers, money_requests, payment_links, process_events>>
<1>1. ASSUME NEW p \in Procs, Start(p) \/ Fail(p)
      PROVE  UNCHANGED <<balances, transfers, money_requests, payment_links, process_events>>
  BY <1>1 DEF Start, Fail, Rollback, dbVars
<1>2. ASSUME NEW p \in Procs, Advance(p)
      PROVE  UNCHANGED <<balances, transfers, money_requests, payment_links, process_events>>
  <2>1. CASE DecideClaim(p)
    <3>1. ~ExpireLink(p)
      BY <2>1
    <3>2. QED
      BY <2>1, <3>1 DEF DecideClaim, Rollback, Proceed, dbVars
  <2>2. CASE ~DecideClaim(p)
    BY <1>2, <2>2
    DEF Advance, LookupKey, IncrVelocity, InsertRefused, InsertKey, ReadBalance, DuplicateKey,
        LockEntity, DecideAccept, Proceed, LockFirst, LockSecond, UpdateBalances,
        InsertTransfer, InsertDebit, InsertCredit, Publish, Rollback, dbVars
  <2>3. QED
    BY <2>1, <2>2
<1>3. QED
  BY <1>1, <1>2 DEF Next, Lapse, vars, dbVars

(* A request pays from the entity it locked: the entity lock of another    *)
(* request keeps its entity out of the reach of this one.                  *)
LEMMA RollbackPayInv ==
    ASSUME IInv, EntityInv, NEW p \in Procs, NEW outcome \in Answers, Rollback(p, outcome),
           NEW q \in Procs
    PROVE  PayInv(q)'
BY JobFacts
DEF IInv, TypeOK, ProcInv, EntitySteps, EntityInv, PayInv, MoneySteps, Entities, Rollback,
    ReleaseLocks, Finish, dbVars

(* The entity that PayInv speaks of is one, of the kind of its job.        *)
LEMMA HeldEntity ==
    ASSUME IInv, NEW q \in Procs, pc[q] \in MoneySteps \cup {"read_entity"}
    PROVE  /\ pc[q] = "read_entity" => job[q].entity \in Entities
           /\ job[q].kind = "accept" => job[q].entity \in Requests /\ job[q].entity \in Entities
           /\ job[q].kind = "claim" => job[q].entity \in Links /\ job[q].entity \in Entities
<1>1. job[q] \in Jobs
  BY DEF IInv, ProcInv, MoneySteps
<1>2. pc[q] = "read_entity" => job[q].kind # "transfer"
  BY DEF IInv, ProcInv, EntitySteps
<1>3. QED
  BY <1>1, <1>2, JobFacts DEF Entities

(* From the decision on, every step of a handler keeps its entity locked   *)
(* and as it was decided on.                                               *)
LEMMA AdvancePayInv ==
    ASSUME IInv, EntityInv, NEW p \in Procs, Advance(p), NEW q \in Procs
    PROVE  PayInv(q)'
<1>1. CASE LookupKey(p)
  BY <1>1 DEF IInv, TypeOK, EntityInv, PayInv, MoneySteps, LookupKey, Goto, Finish, dbVars, lockVars
<1>2. CASE IncrVelocity(p)
  BY <1>2
  DEF IInv, TypeOK, ProcInv, TransferSteps, EntityInv, PayInv, MoneySteps, IncrVelocity, Goto,
      dbVars, lockVars
<1>3. CASE InsertRefused(p) \/ InsertTransfer(p)
  <2>1. /\ UNCHANGED <<job, entity_lock, money_requests, payment_links>>
        /\ pc'[q] \in MoneySteps => pc[q] \in MoneySteps
        /\ pc'[q] = "read_entity" => pc[q] = "read_entity"
    BY <1>3
    DEF IInv, TypeOK, InsertRefused, InsertTransfer, InsertKey, Goto, dbVars, MoneySteps
  <2>2. QED
    BY <2>1 DEF EntityInv, PayInv
<1>4. CASE ReadBalance(p) \/ LockFirst(p) \/ LockSecond(p)
  <2>1. /\ UNCHANGED <<job, entity_lock, money_requests, payment_links>>
        /\ pc'[q] \in MoneySteps => pc[q] \in MoneySteps
        /\ pc'[q] = "read_entity" => pc[q] = "read_entity"
    BY <1>4 DEF IInv, TypeOK, ReadBalance, LockFirst, LockSecond, Goto, dbVars, lockVars, MoneySteps
  <2>2. QED
    BY <2>1 DEF EntityInv, PayInv
<1>5. CASE InsertDebit(p) \/ InsertCredit(p)
  <2>1. /\ UNCHANGED <<job, entity_lock, money_requests, payment_links>>
        /\ pc'[q] \in MoneySteps => pc[q] \in MoneySteps
        /\ pc'[q] = "read_entity" => pc[q] = "read_entity"
    BY <1>5 DEF IInv, TypeOK, InsertDebit, InsertCredit, Goto, dbVars, lockVars, MoneySteps
  <2>2. QED
    BY <2>1 DEF EntityInv, PayInv
<1>6. CASE LockEntity(p)
  BY <1>6, NullsAssumption, JobFacts
  DEF IInv, TypeOK, ProcInv, EntitySteps, EntityInv, PayInv, MoneySteps, Entities, LockEntity,
      Goto, dbVars
<1>7. CASE CommitRefused(p) \/ Publish(p)
  <2>1. /\ UNCHANGED <<job, money_requests, payment_links>>
        /\ pc' = [pc EXCEPT ![p] = "idle"]
        /\ \A e \in Entities : entity_lock[e] = q /\ q # p => entity_lock'[e] = q
    BY <1>7 DEF IInv, TypeOK, CommitRefused, Publish, ReleaseLocks, Finish, dbVars, lockVars
  <2>2. QED
    BY <2>1, HeldEntity DEF IInv, TypeOK, EntityInv, PayInv, MoneySteps
<1>8. CASE Commit(p)
  <2>1. /\ pc'[p] \in {"publish", "idle"} /\ job' = job
        /\ q # p => pc'[q] = pc[q]
        /\ \A e \in Entities : entity_lock[e] = q /\ q # p => entity_lock'[e] = q
    BY <1>8 DEF IInv, TypeOK, Commit, ReleaseLocks, Finish, Goto
  <2>2. CASE q = p
    BY <2>1, <2>2 DEF PayInv, MoneySteps
  <2>3. CASE q # p
    <3>1. ASSUME NEW e \in Entities, entity_lock[e] = q
          PROVE  /\ e \in Requests => money_requests'[e] = money_requests[e]
                 /\ e \in Links => payment_links'[e] = payment_links[e]
      <4>1. job[p].kind # "transfer" => entity_lock[job[p].entity] = p
        BY <1>8, JobFacts DEF IInv, ProcInv, EntityInv, PayInv, Commit, MoneySteps
      <4>2. QED
        BY <1>8, <2>3, <3>1, <4>1, NullsAssumption DEF IInv, TypeOK, Commit, SettleEntity
    <3>2. QED
      BY <2>1, <2>3, <3>1, HeldEntity, JobFacts DEF IInv, ProcInv, EntityInv, PayInv, MoneySteps
  <2>4. QED
    BY <2>2, <2>3
<1>9. CASE DuplicateKey(p)
  BY <1>9, RollbackPayInv DEF DuplicateKey, Answers
<1>10. CASE DecideAccept(p)
  <2>1. CASE Proceed(p) /\ money_requests[job[p].entity] = "pending"
    BY <1>10, <2>1
    DEF IInv, TypeOK, EntityInv, PayInv, MoneySteps, DecideAccept, Proceed, Goto, dbVars, lockVars
  <2>2. QED
    BY <1>10, <2>1, RollbackPayInv DEF DecideAccept, Answers
<1>11. CASE DecideClaim(p)
  <2>1. CASE Proceed(p) /\ payment_links[job[p].entity].status = "active"
    BY <1>11, <2>1
    DEF IInv, TypeOK, EntityInv, PayInv, MoneySteps, DecideClaim, Proceed, Goto, dbVars, lockVars
  <2>2. CASE ExpireLink(p)
    <3>1. entity_lock[job[p].entity] = p
      BY <1>11 DEF EntityInv, PayInv, DecideClaim
    <3>2. /\ job' = job /\ money_requests' = money_requests
          /\ pc' = [pc EXCEPT ![p] = "idle"]
          /\ \A e \in Entities : entity_lock[e] = q /\ q # p => entity_lock'[e] = q
          /\ \A l \in Links : l # job[p].entity => payment_links'[l] = payment_links[l]
      BY <2>2 DEF IInv, TypeOK, ExpireLink, ReleaseLocks, Finish
    <3>3. CASE q = p
      BY <3>2, <3>3 DEF IInv, TypeOK, PayInv, MoneySteps
    <3>4. CASE q # p /\ pc[q] \in MoneySteps \cup {"read_entity"}
      <4>1. PayInv(q) /\ pc'[q] = pc[q]
        BY <3>2, <3>4 DEF IInv, TypeOK, EntityInv
      <4>2. QED
        BY <3>1, <3>2, <3>4, <4>1, HeldEntity DEF PayInv
    <3>5. CASE q # p /\ pc[q] \notin MoneySteps \cup {"read_entity"}
      BY <3>2, <3>5 DEF IInv, TypeOK, PayInv
    <3>6. QED
      BY <3>3, <3>4, <3>5
  <2>3. QED
    <3>1. payment_links[job[p].entity].status \in {"active", "claimed", "expired", "cancelled"}
      BY <1>11, JobFacts DEF DecideClaim, IInv, TypeOK, ProcInv, LinkStates
    <3>2. QED
      BY <1>11, <2>1, <2>2, <3>1, RollbackPayInv DEF DecideClaim, IsCancelled, Answers
<1>12. CASE UpdateBalances(p)
  <2>1. CASE Goto(p, "insert_transfer") /\ UNCHANGED <<dbVars, lockVars, job>>
    BY <1>12, <2>1
    DEF IInv, TypeOK, EntityInv, PayInv, MoneySteps, UpdateBalances, Goto, dbVars, lockVars
  <2>2. QED
    BY <1>12, <2>1, RollbackPayInv DEF UpdateBalances, Answers
<1>13. QED
  BY <1>1, <1>2, <1>3, <1>4, <1>5, <1>6, <1>7, <1>8, <1>9, <1>10, <1>11, <1>12 DEF Advance
-----------------------------------------------------------------------------
(* The row of a payment is not one that a commit writes: its key is taken. *)
LEMMA PaidRowsStay ==
    ASSUME IInv, EntityInv, NEW k \in Keys, transfers[k] = NoRow, NEW row,
           transfers' = [transfers EXCEPT ![k] = row],
           NEW x \in Entities, NEW v \in SettlingEvents(x)
    PROVE  v.key # k /\ transfers'[v.key] = transfers[v.key]
<1>1. v.key \in Keys /\ transfers[v.key].status = "completed"
  BY DEF EntityInv, EventsInv, ObligationPaidOnce, SettlingEvents, SettlingTypes
<1>2. v.key # k
  BY <1>1 DEF NoRow
<1>3. QED
  BY <1>1, <1>2 DEF IInv, TypeOK

(* Writing a fresh row, without a settling event, settles nothing.         *)
LEMMA UnsettledStay ==
    ASSUME IInv, EntityInv, NEW k \in Keys, transfers[k] = NoRow, NEW row,
           transfers' = [transfers EXCEPT ![k] = row],
           NEW e, e.entity = NoEntity, process_events' = process_events \cup {e},
           e.type \notin SettlingTypes, UNCHANGED <<money_requests, payment_links>>
    PROVE  ObligationPaidOnce' /\ EventsInv'
<1>1. \A x \in Entities : SettlingEvents(x)' = SettlingEvents(x)
  BY NullsAssumption DEF SettlingEvents, SettlingTypes
<1>2. ObligationPaidOnce'
  <2>1. ASSUME NEW x \in Entities, NEW v \in SettlingEvents(x)
        PROVE  transfers'[v.key].status = "completed" /\ PaymentOf(transfers'[v.key]) \in TermsOf(x)
    <3>1. transfers'[v.key] = transfers[v.key]
      BY PaidRowsStay
    <3>2. QED
      BY <3>1 DEF EntityInv, ObligationPaidOnce
  <2>2. QED
    BY <1>1, <2>1 DEF EntityInv, ObligationPaidOnce, PaymentOf, TermsOf, Entities
<1>3. EventsInv'
  BY <1>1 DEF EntityInv, EventsInv, Entities
<1>4. QED
  BY <1>2, <1>3

(* A refusal writes a row that no payment refers to, and an event of no    *)
(* entity.                                                                 *)
LEMMA RefusalEntities ==
    ASSUME IInv, LedgerInv, EntityInv, NEW p \in Procs, CommitRefused(p)
    PROVE  ObligationPaidOnce' /\ EventsInv'
<1> DEFINE status == RefusedStatus(job[p])
           e == EventRow(NoEntity, status, job[p].key)
<1>1. job[p].key \in Keys /\ transfers[job[p].key] = NoRow
  BY JobFacts DEF CommitRefused, IInv, ProcInv, LedgerInv, KeyInv, KeySteps
<1>2. /\ transfers' = [transfers EXCEPT ![job[p].key] = TransferRow(job[p], status)]
      /\ process_events' = process_events \cup {e}
      /\ UNCHANGED <<money_requests, payment_links>>
  BY DEF CommitRefused
<1>3. e.entity = NoEntity /\ e.type \notin SettlingTypes
  BY DEF EventRow, RefusedStatus, SettlingTypes
<1>4. QED
  BY <1>1, <1>2, <1>3, UnsettledStay

(* An expiry finds a link that is not claimed and leaves it not claimed.   *)
LEMMA ExpiryEntities ==
    ASSUME IInv, EntityInv, NEW p \in Procs, DecideClaim(p), ExpireLink(p)
    PROVE  ObligationPaidOnce' /\ EventsInv'
<1>1. PICK link \in Links : link = job[p].entity
  BY JobFacts DEF DecideClaim, IInv, ProcInv
<1>2. payment_links[link].status # "claimed"
  BY <1>1 DEF DecideClaim, ExpireLink, Rollback, Finish, Proceed, Goto, IInv, TypeOK
<1>3. PICK e : /\ e.type \notin SettlingTypes
               /\ process_events' = process_events \cup {e}
  BY DEF ExpireLink, EventRow, SettlingTypes
<1>4. \A x \in Entities : SettlingEvents(x)' = SettlingEvents(x)
  BY <1>3 DEF SettlingEvents, SettlingTypes
<1>5. /\ UNCHANGED <<transfers, money_requests>>
      /\ payment_links' = [payment_links EXCEPT ![link].status = "expired"]
  BY <1>1 DEF ExpireLink
<1>6. \A l \in Links :
        /\ payment_links'[l].transfer_id = payment_links[l].transfer_id
        /\ payment_links'[l].status = "claimed" <=> payment_links[l].status = "claimed"
        /\ payment_links'[l].status \in {payment_links[l].status, "expired"}
  BY <1>2, <1>5 DEF IInv, TypeOK, LinkStates
<1>7. ObligationPaidOnce'
  BY <1>4, <1>5, <1>6 DEF EntityInv, ObligationPaidOnce, PaymentOf, TermsOf, Entities
<1>8. EventsInv'
  BY <1>3, <1>4, <1>6 DEF EntityInv, EventsInv, Entities
<1>9. QED
  BY <1>7, <1>8

(* A payment settles an entity that was not settled, by a row on the       *)
(* entity's terms.                                                         *)
LEMMA CommitEntities ==
    ASSUME IInv, LedgerInv, EntityInv, NEW p \in Procs, Commit(p)
    PROVE  ObligationPaidOnce' /\ EventsInv'
<1> DEFINE j == job[p]
           row == TransferRow(j, "completed")
<1>1. /\ j \in Jobs /\ j.key \in Keys /\ transfers[j.key] = NoRow
      /\ transfers' = [transfers EXCEPT ![j.key] = row]
      /\ SettleEntity(j)
  BY CommitFacts, JobFacts DEF Commit
<1>2. CASE j.kind = "transfer"
  <2> DEFINE e == EventRow(NoEntity, "completed", j.key)
  <2>1. /\ e.entity = NoEntity /\ e.type \notin SettlingTypes
        /\ process_events' = process_events \cup {e}
        /\ UNCHANGED <<money_requests, payment_links>>
    BY <1>1, <1>2 DEF SettleEntity, EventRow, SettlingTypes
  <2>2. QED
    BY <1>1, <2>1, UnsettledStay
<1>3. ASSUME NEW x \in Entities, SettlingEvents(x) = {}, PaymentOf(row) \in TermsOf(x),
             NEW e, e.entity = x, e.type \in SettlingTypes, e.key = j.key,
             process_events' = process_events \cup {e},
             \A r \in Requests : money_requests'[r] = "accepted" <=>
                                    r = x \/ money_requests[r] = "accepted",
             \A l \in Links : payment_links'[l].transfer_id # NoKey <=>
                                 l = x \/ payment_links[l].transfer_id # NoKey,
             \A l \in Links : payment_links'[l].status =
                                 IF l = x THEN "claimed" ELSE payment_links[l].status
      PROVE  ObligationPaidOnce' /\ EventsInv'
  <2>1. \A y \in Entities : SettlingEvents(y)' = IF y = x THEN {e} ELSE SettlingEvents(y)
    BY <1>3 DEF SettlingEvents, SettlingTypes
  <2>2. transfers'[e.key] = row /\ row.status = "completed"
    BY <1>1, <1>3 DEF IInv, TypeOK, TransferRow
  <2>3. ASSUME NEW y \in Entities, NEW v \in SettlingEvents(y)'
        PROVE  transfers'[v.key].status = "completed" /\ PaymentOf(transfers'[v.key]) \in TermsOf(y)
    <3>1. CASE y = x
      BY <1>3, <2>1, <2>2, <3>1
    <3>2. CASE y # x
      <4>1. v \in SettlingEvents(y)
        BY <2>1, <3>2
      <4>2. PICK k \in Keys : k = j.key
        BY <1>1
      <4>3. PICK r : r = row
        OBVIOUS
      <4>4. transfers'[v.key] = transfers[v.key]
        BY <1>1, <4>1, <4>2, <4>3, PaidRowsStay
      <4>5. QED
        BY <4>1, <4>4 DEF EntityInv, ObligationPaidOnce
    <3>3. QED
      BY <3>1, <3>2
  <2>4. ObligationPaidOnce'
    BY <1>3, <2>1, <2>3 DEF EntityInv, ObligationPaidOnce, PaymentOf, TermsOf, Entities
  <2>5. EventsInv'
    BY <1>1, <1>3, <2>1 DEF EntityInv, EventsInv, Entities
  <2>6. QED
    BY <2>4, <2>5
<1>4. pc[p] \in MoneySteps
  BY DEF Commit, MoneySteps
<1>5. CASE j.kind = "accept"
  <2> DEFINE e == EventRow(j.entity, "accepted", j.key)
  <2>1. /\ j.entity \in Requests /\ money_requests[j.entity] = "pending"
        /\ SettlingEvents(j.entity) = {}
    BY <1>1, <1>4, <1>5, JobFacts DEF EntityInv, PayInv, ObligationPaidOnce
  <2>2. PaymentOf(row) \in TermsOf(j.entity)
    BY <1>5, <2>1 DEF PaymentOf, TermsOf, TransferRow, Payer, Payee, Amount
  <2>3. /\ e.entity = j.entity /\ e.type \in SettlingTypes /\ e.key = j.key
        /\ process_events' = process_events \cup {e}
        /\ money_requests' = [money_requests EXCEPT ![j.entity] = "accepted"]
        /\ payment_links' = payment_links
    BY <1>1, <1>5 DEF SettleEntity, EventRow, SettlingTypes
  <2>4. \A r \in Requests : money_requests'[r] = "accepted" <=>
                               r = j.entity \/ money_requests[r] = "accepted"
    BY <2>1, <2>3 DEF IInv, TypeOK
  <2>5. j.entity \in Entities /\ j.entity \notin Links
    BY <2>1, NullsAssumption DEF Entities
  <2>6. QED
    BY <1>3, <2>1, <2>2, <2>3, <2>4, <2>5
<1>6. CASE j.kind = "claim"
  <2> DEFINE e == EventRow(j.entity, "claimed", j.key)
  <2>1. /\ j.entity \in Links /\ j.actor \in Users /\ payment_links[j.entity].status = "active"
        /\ SettlingEvents(j.entity) = {}
    BY <1>1, <1>4, <1>6, JobFacts DEF EntityInv, PayInv, EventsInv
  <2>2. PaymentOf(row) \in TermsOf(j.entity)
    BY <1>6, <2>1, NullsAssumption DEF PaymentOf, TermsOf, TransferRow, Payer, Payee, Amount
  <2>3. /\ e.entity = j.entity /\ e.type \in SettlingTypes /\ e.key = j.key
        /\ process_events' = process_events \cup {e}
        /\ money_requests' = money_requests
        /\ payment_links' = [payment_links EXCEPT ![j.entity] =
              [status |-> "claimed", claimer_id |-> j.actor, transfer_id |-> j.key]]
    BY <1>1, <1>6 DEF SettleEntity, EventRow, SettlingTypes
  <2>4. \A l \in Links : payment_links'[l] =
            IF l = j.entity
            THEN [status |-> "claimed", claimer_id |-> j.actor, transfer_id |-> j.key]
            ELSE payment_links[l]
    BY <2>1, <2>3 DEF IInv, TypeOK
  <2>5. \A l \in Links :
          /\ payment_links'[l].transfer_id # NoKey <=>
                l = j.entity \/ payment_links[l].transfer_id # NoKey
          /\ payment_links'[l].status =
                IF l = j.entity THEN "claimed" ELSE payment_links[l].status
    BY <1>1, <2>4, NullsAssumption
  <2>6. j.entity \in Entities /\ j.entity \notin Requests
    BY <2>1, NullsAssumption DEF Entities
  <2>7. QED
    BY <1>3, <2>1, <2>2, <2>3, <2>5, <2>6
<1>7. QED
  BY <1>1, <1>2, <1>5, <1>6, JobFacts

(* The entity invariant holds beside the ledger's in every state: a step   *)
(* either leaves what it speaks of alone or is one of three.               *)
LEMMA EntityStep == IInv /\ LedgerInv /\ EntityInv /\ [Next]_vars => EntityInv'
<1> SUFFICES ASSUME IInv, LedgerInv, EntityInv, [Next]_vars PROVE EntityInv'
  OBVIOUS
<1>1. ASSUME NEW q \in Procs PROVE PayInv(q)'
  <2>1. ASSUME NEW p \in Procs, Start(p) PROVE PayInv(q)'
    BY <2>1 DEF IInv, TypeOK, EntityInv, PayInv, MoneySteps, Start, Goto, dbVars, lockVars
  <2>2. ASSUME NEW p \in Procs, Advance(p) PROVE PayInv(q)'
    BY <2>2, AdvancePayInv
  <2>3. ASSUME NEW p \in Procs, Fail(p) PROVE PayInv(q)'
    BY <2>3, RollbackPayInv DEF Fail, Answers
  <2>4. CASE (\E l \in Links : Lapse(l)) \/ UNCHANGED vars
    BY <2>4 DEF Lapse, vars, procVars, dbVars, lockVars, EntityInv, PayInv
  <2>5. QED
    BY <2>1, <2>2, <2>3, <2>4 DEF Next
<1>2. ObligationPaidOnce' /\ EventsInv'
  <2>1. CASE \E p \in Procs : Commit(p)
    BY <2>1, CommitEntities
  <2>2. CASE \E p \in Procs : CommitRefused(p)
    BY <2>2, RefusalEntities
  <2>3. CASE \E p \in Procs : DecideClaim(p) /\ ExpireLink(p)
    BY <2>3, ExpiryEntities
  <2>4. CASE UNCHANGED <<transfers, money_requests, payment_links, process_events>>
    BY <2>4
    DEF EntityInv, ObligationPaidOnce, EventsInv, SettlingEvents, PaymentOf, TermsOf
  <2>5. QED
    BY <2>1, <2>2, <2>3, <2>4, OthersKeepEntities
<1>3. QED
  BY <1>1, <1>2 DEF EntityInv

(* What is known of obligations holds in every state.                      *)
LEMMA EntityInvariance == Spec => [](IInv /\ LedgerInv /\ EntityInv)
BY InitEntityInv, EntityStep, LedgerInvariance, PTL DEF Spec

(* A money request or a link is paid at most once and on its own terms,    *)
(* and a request is accepted exactly when it has been paid.                *)
THEOREM ObligationsPaidOnce == Spec => []ObligationPaidOnce
<1>1. EntityInv => ObligationPaidOnce
  BY DEF EntityInv
<1>2. QED
  BY <1>1, EntityInvariance, PTL
-----------------------------------------------------------------------------
(* The payments and settlements that Bank sees in the tables.              *)
Payments == {[key |-> k, payer |-> transfers[k].sender, payee |-> transfers[k].recipient,
              amount |-> transfers[k].amount] : k \in Completed}
Settled == {[obligation |-> v.entity, key |-> v.key] :
              v \in {w \in process_events : w.type \in {"accepted", "claimed"}}}

(* A commit is one step of Bank: the funds it moves are the committed ones *)
(* (ReadsAreFresh), its key is fresh (KeyInv), its obligation is open      *)
(* (PayInv).                                                               *)
LEMMA CommitPays ==
    ASSUME IInv, LedgerInv, EntityInv, NEW p \in Procs, Commit(p)
    PROVE  B!BankNext
<1>1. PICK j \in Jobs : j = job[p]
  BY CommitFacts
<1>2. PICK k \in Keys, from \in Users, to \in Users, a \in Nat :
          /\ k = j.key /\ from = Payer(j) /\ to = Payee(j)
          /\ a = Amount(j) /\ a \in {Amount(i) : i \in Jobs}
  BY <1>1, JobFacts
<1> DEFINE terms == [payer |-> from, payee |-> to, amount |-> a]
           payment == [key |-> k, payer |-> from, payee |-> to, amount |-> a]
<1>3. transfers[k] = NoRow
  BY <1>1, <1>2, CommitFacts
<1>4. PICK row : /\ row = [sender |-> from, recipient |-> to, amount |-> a, status |-> "completed"]
                 /\ transfers' = [transfers EXCEPT ![k] = row]
  BY <1>1, <1>2 DEF Commit, TransferRow
<1>5. read[p] = [payer |-> balances[from], payee |-> balances[to]]
  BY <1>1, <1>2 DEF Commit, IInv, ReadsAreFresh, HoldsBoth
<1>6. from # to /\ a > 0 /\ balances[from] >= a
  <2>1. read[p].payer >= a /\ from # to
    BY <1>1, <1>2 DEF Commit, IInv, ProcInv, FundedSteps, MoneySteps
  <2>2. QED
    BY <1>1, <1>2, <1>5, <2>1, JobFacts
<1>7. balances' = [balances EXCEPT ![from] = @ - a, ![to] = @ + a]
  <2>1. balances' = [balances EXCEPT ![from] = read[p].payer - a, ![to] = read[p].payee + a]
    BY <1>1, <1>2 DEF Commit, NewPayerBalance, NewPayeeBalance
  <2>2. QED
    BY <1>5, <1>6, <2>1 DEF IInv, TypeOK
<1>8. Payments' = Payments \cup {payment} /\ \A q \in Payments : q.key # k
  <2>1. \A i \in Keys : transfers'[i] = IF i = k THEN row ELSE transfers[i]
    BY <1>4 DEF IInv, TypeOK
  <2>2. Completed' = Completed \cup {k} /\ k \notin Completed
    BY <1>3, <1>4, <2>1 DEF Completed, NoRow
  <2>3. QED
    BY <1>4, <2>1, <2>2 DEF Payments, Completed
<1>9. SettleEntity(j)
  BY <1>1 DEF Commit
<1>10. CASE j.kind = "transfer"
  <2>1. Settled' = Settled
    BY <1>9, <1>10 DEF SettleEntity, EventRow, Settled
  <2>2. B!Pay(k, from, to, a, NoEntity)
    BY <1>6, <1>7, <1>8, <2>1 DEF B!Pay, Payments, Settled
  <2>3. QED
    BY <1>2, <2>2 DEF B!BankNext
<1>11. CASE j.kind \in {"accept", "claim"}
  <2>1. PICK o \in Entities : o = j.entity
    BY <1>1, <1>11, JobFacts DEF Entities
  <2>2. PICK type \in SettlingTypes : process_events' = process_events \cup {EventRow(o, type, k)}
    BY <1>2, <1>9, <1>11, <2>1 DEF SettleEntity, SettlingTypes
  <2>3. Settled' = Settled \cup {[obligation |-> o, key |-> k]}
    <3>1. PICK e : /\ e.type \in SettlingTypes /\ e.entity = o /\ e.key = k
                   /\ process_events' = process_events \cup {e}
      BY <2>2 DEF EventRow
    <3>2. {w \in process_events' : w.type \in SettlingTypes}
            = {w \in process_events : w.type \in SettlingTypes} \cup {e}
      BY <3>1
    <3>3. QED
      BY <3>1, <3>2 DEF Settled, SettlingTypes
  <2>4. PayInv(p) /\ pc[p] \in MoneySteps
    BY DEF EntityInv, Commit, MoneySteps
  <2>5. SettlingEvents(o) = {}
    BY <1>1, <1>11, <2>1, <2>4, JobFacts DEF PayInv, EntityInv, EventsInv, ObligationPaidOnce
  <2>6. \A s \in Settled : s.obligation # o
    BY <2>5 DEF Settled, SettlingEvents
  <2>7. terms \in TermsOf(o)
    BY <1>1, <1>2, <1>11, <2>1, JobFacts, NullsAssumption DEF TermsOf, Payer, Payee, Amount
  <2>8. B!Pay(k, from, to, a, o)
    BY <1>6, <1>7, <1>8, <2>3, <2>6, <2>7 DEF B!Pay, Payments, Settled
  <2>9. QED
    BY <1>2, <2>8 DEF B!BankNext
<1>12. QED
  BY <1>1, <1>10, <1>11, JobFacts

(* What Bank sees at first is what it begins with.                         *)
LEMMA InitBank == Init => B!BankInit
BY DEF Init, B!BankInit, Completed, NoRow

(* A commit is a step of Bank, and no other step changes what Bank sees.   *)
LEMMA BankStep == IInv /\ LedgerInv /\ EntityInv /\ [Next]_vars => [B!BankNext]_(B!bankVars)
<1> SUFFICES ASSUME IInv, LedgerInv, EntityInv, [Next]_vars
             PROVE  B!BankNext \/ (balances' = balances /\ Payments' = Payments
                                      /\ Settled' = Settled)
  BY DEF B!bankVars, Payments, Settled
<1>1. CASE \E p \in Procs : Commit(p)
  BY <1>1, CommitPays
<1>2. ASSUME NEW p \in Procs, CommitRefused(p)
      PROVE  balances' = balances /\ Payments' = Payments /\ Settled' = Settled
  <2>1. PICK k \in Keys : k = job[p].key /\ transfers[k] = NoRow
    BY <1>2, JobFacts DEF CommitRefused, IInv, ProcInv, LedgerInv, KeyInv, KeySteps
  <2>2. PICK row : row.status # "completed" /\ transfers' = [transfers EXCEPT ![k] = row]
    BY <1>2, <2>1 DEF CommitRefused, TransferRow, RefusedStatus
  <2>3. Completed' = Completed /\ \A i \in Completed : transfers'[i] = transfers[i]
    BY <2>1, <2>2 DEF IInv, TypeOK, Completed, NoRow
  <2>4. Payments' = Payments
    BY <2>3 DEF Payments
  <2>5. balances' = balances /\ Settled' = Settled
    BY <1>2 DEF CommitRefused, RefusedStatus, EventRow, Settled
  <2>6. QED
    BY <2>4, <2>5
<1>3. ASSUME NEW p \in Procs, DecideClaim(p), ExpireLink(p)
      PROVE  balances' = balances /\ Payments' = Payments /\ Settled' = Settled
  BY <1>3 DEF ExpireLink, EventRow, Payments, Settled, Completed
<1>4. CASE UNCHANGED <<balances, transfers, process_events>>
  BY <1>4 DEF Payments, Settled, Completed
<1>5. QED
  BY <1>1, <1>2, <1>3, <1>4, OthersKeepEntities

(* The handlers of the three routes (process_transfer, accept_request,     *)
(* claim_link), run concurrently and failing at any await, implement Bank: *)
(* a step is one whole payment, or changes nothing that Bank sees.         *)
THEOREM BankImplemented == Spec => ImplementsBank
BY InitBank, BankStep, EntityInvariance, PTL DEF Spec, ImplementsBank, B!BankSpec
-----------------------------------------------------------------------------
(* A request is answered when it ends, and what it announces is committed. *)
(* A link that names a transfer names the one that paid its claimer.       *)
AnswerInv ==
    /\ \A p \in Procs : pc[p] # "idle" => answer[p] = "none"
    /\ \A p \in Procs : pc[p] = "publish" =>
            job[p].key \in Keys /\ transfers[job[p].key] = TransferRow(job[p], "completed")
    /\ \A l \in Links : payment_links[l].transfer_id # NoKey =>
            /\ payment_links[l].transfer_id \in Keys
            /\ transfers[payment_links[l].transfer_id] =
                  [sender |-> LinkRow[l].creator, recipient |-> payment_links[l].claimer_id,
                   amount |-> LinkRow[l].amount, status |-> "completed"]

(* How a request may be answered: by an answer that promises nothing, or   *)
(* truly.                                                                  *)
TrueAnswer(p) ==
    LET j == job[p] IN
    /\ j \in Jobs
    /\ \/ answer[p] = "completed" /\ transfers[j.key] = TransferRow(j, "completed")
       \/ answer[p] \in {"rejected", "flagged"} /\ transfers[j.key] = TransferRow(j, answer[p])
       \/ /\ answer[p] = "replay" /\ j.kind = "transfer"
          /\ transfers[j.key] # NoRow /\ SamePayload(transfers[j.key], j)
       \/ /\ answer[p] = "replay" /\ j.kind = "claim"
          /\ payment_links[j.entity].transfer_id # NoKey
          /\ payment_links[j.entity].claimer_id = j.actor

EmptyAnswers == {"none", "conflict", "insufficient", "forbidden", "gone", "own_link", "error"}

TruthInv == \A p \in Procs : answer[p] \in EmptyAnswers \/ TrueAnswer(p)

AnswersInv == IInv /\ LedgerInv /\ EntityInv /\ AnswerInv /\ TruthInv

(* Rows and the transfer of a claimed link are there to stay.              *)
LEMMA FactsStay ==
    ASSUME AnswersInv, [Next]_vars
    PROVE  /\ \A k \in Keys : transfers[k] # NoRow => transfers'[k] = transfers[k]
           /\ \A l \in Links : payment_links[l].transfer_id # NoKey =>
                 /\ payment_links'[l].transfer_id = payment_links[l].transfer_id
                 /\ payment_links'[l].claimer_id = payment_links[l].claimer_id
<1> USE DEF AnswersInv
<1>1. ASSUME NEW p \in Procs, Commit(p)
      PROVE  /\ \A k \in Keys : transfers[k] # NoRow => transfers'[k] = transfers[k]
             /\ \A l \in Links : payment_links[l].transfer_id # NoKey =>
                   payment_links'[l] = payment_links[l]
  <2>1. \A k \in Keys : transfers[k] # NoRow => transfers'[k] = transfers[k]
    BY <1>1, CommitFacts DEF Commit, IInv, TypeOK
  <2>2. job[p].kind = "claim" => /\ job[p].entity \in Links
                                 /\ payment_links[job[p].entity].transfer_id = NoKey
    <3>1. PayInv(p) /\ pc[p] \in MoneySteps /\ job[p] \in Jobs
      BY <1>1, CommitFacts DEF EntityInv, Commit, MoneySteps
    <3>2. QED
      BY <3>1, JobFacts DEF PayInv, EntityInv, EventsInv, ObligationPaidOnce
  <2>3. SettleEntity(job[p])
    BY <1>1 DEF Commit
  <2>4. QED
    BY <2>1, <2>2, <2>3 DEF SettleEntity, IInv, TypeOK
<1>2. ASSUME NEW p \in Procs, CommitRefused(p)
      PROVE  /\ \A k \in Keys : transfers[k] # NoRow => transfers'[k] = transfers[k]
             /\ payment_links' = payment_links
  BY <1>2 DEF CommitRefused, IInv, TypeOK, LedgerInv, KeyInv, KeySteps
<1>3. ASSUME NEW p \in Procs, ExpireLink(p)
      PROVE  /\ transfers' = transfers
             /\ \A l \in Links : /\ payment_links'[l].transfer_id = payment_links[l].transfer_id
                                 /\ payment_links'[l].claimer_id = payment_links[l].claimer_id
  BY <1>3 DEF ExpireLink, IInv, TypeOK, LinkStates
<1>4. CASE UNCHANGED <<transfers, payment_links>>
  BY <1>4
<1>5. QED
  BY <1>1, <1>2, <1>3, <1>4, OthersKeepEntities

(* What a step of a handler does to its answer.                            *)
LEMMA AnswerChanges ==
    ASSUME AnswersInv, NEW p \in Procs, Advance(p)
    PROVE  /\ job' = job
           /\ \A q \in Procs \ {p} : answer'[q] = answer[q]
           /\ answer'[p] \in EmptyAnswers \/ TrueAnswer(p)'
           /\ pc'[p] # "idle" => answer'[p] = answer[p]
           /\ pc'[p] = "publish" =>
                 job[p].key \in Keys /\ transfers'[job[p].key] = TransferRow(job[p], "completed")
           /\ \A q \in Procs \ {p} : pc'[q] = pc[q]
<1> USE DEF AnswersInv, IInv, TypeOK
<1>1. answer[p] = "none" /\ job[p] \in Jobs /\ pc[p] # "idle"
  <2>1. pc[p] # "idle"
    BY DEF Advance, LookupKey, IncrVelocity, InsertRefused, ReadBalance, CommitRefused,
           DuplicateKey, LockEntity, DecideAccept, DecideClaim, LockFirst, LockSecond,
           UpdateBalances, InsertTransfer, InsertDebit, InsertCredit, Commit, Publish
  <2>2. QED
    BY <2>1 DEF AnswerInv, ProcInv
<1> DEFINE Goal ==
      /\ job' = job
      /\ \A q \in Procs \ {p} : answer'[q] = answer[q] /\ pc'[q] = pc[q]
      /\ answer'[p] \in EmptyAnswers \/ TrueAnswer(p)'
      /\ pc'[p] # "idle" => answer'[p] = answer[p]
      /\ pc'[p] = "publish" =>
            job[p].key \in Keys /\ transfers'[job[p].key] = TransferRow(job[p], "completed")
<1>2. ASSUME NEW step \in Steps \ {"publish"}, Goto(p, step), UNCHANGED <<job, answer>>
      PROVE  Goal
  BY <1>1, <1>2 DEF Goto, EmptyAnswers
<1>3. ASSUME NEW outcome \in EmptyAnswers, Finish(p, outcome)
      PROVE  Goal
  BY <1>3 DEF Finish
<1>4. ASSUME NEW outcome \in Answers, Finish(p, outcome), TrueAnswer(p)'
      PROVE  Goal
  BY <1>4 DEF Finish
<1>5. CASE LookupKey(p)
  <2>1. CASE transfers[job[p].key] = NoRow
    BY <1>2, <1>5, <2>1 DEF LookupKey, Steps, MoneySteps, RefusalSteps
  <2>2. CASE transfers[job[p].key] # NoRow /\ ~SamePayload(transfers[job[p].key], job[p])
    BY <1>3, <1>5, <2>2 DEF LookupKey, EmptyAnswers
  <2>3. CASE transfers[job[p].key] # NoRow /\ SamePayload(transfers[job[p].key], job[p])
    <3>1. /\ Finish(p, "replay") /\ transfers' = transfers /\ job' = job
          /\ job[p].kind = "transfer"
      BY <1>5, <2>3 DEF LookupKey, Finish, dbVars, ProcInv, TransferSteps
    <3>2. answer'[p] = "replay"
      BY <3>1 DEF Finish
    <3>3. TrueAnswer(p)'
      BY <1>1, <2>3, <3>1, <3>2 DEF TrueAnswer
    <3>4. QED
      BY <1>4, <3>1, <3>3 DEF Answers
  <2>4. QED
    BY <2>1, <2>2, <2>3
<1>6. CASE CommitRefused(p)
  <2>1. /\ RefusedStatus(job[p]) \in {"rejected", "flagged"}
        /\ Finish(p, RefusedStatus(job[p])) /\ job' = job
        /\ transfers' = [transfers EXCEPT
              ![job[p].key] = TransferRow(job[p], RefusedStatus(job[p]))]
    BY <1>6 DEF CommitRefused, RefusedStatus, Finish
  <2>2. answer'[p] = RefusedStatus(job[p])
    BY <2>1 DEF Finish
  <2>3. TrueAnswer(p)'
    BY <1>1, <2>1, <2>2, JobFacts DEF TrueAnswer
  <2>4. QED
    BY <1>4, <2>1, <2>3 DEF Answers
<1>7. CASE Commit(p)
  <2>1. job' = job /\ transfers'[job[p].key] = TransferRow(job[p], "completed")
    BY <1>1, <1>7, JobFacts DEF Commit, Finish
  <2>2. CASE job[p].kind = "transfer"
    BY <1>1, <1>7, <2>1, <2>2, JobFacts DEF Commit, Goto, EmptyAnswers
  <2>3. CASE job[p].kind # "transfer"
    <3>1. Finish(p, "completed")
      BY <1>7, <2>3 DEF Commit
    <3>2. answer'[p] = "completed"
      BY <3>1 DEF Finish
    <3>3. TrueAnswer(p)'
      BY <1>1, <2>1, <3>2 DEF TrueAnswer
    <3>4. QED
      BY <1>4, <3>1, <3>3 DEF Answers
  <2>4. QED
    BY <2>2, <2>3
<1>8. CASE Publish(p)
  <2>1. Finish(p, "completed") /\ transfers' = transfers /\ job' = job
    BY <1>8 DEF Publish, Finish, dbVars
  <2>2. transfers[job[p].key] = TransferRow(job[p], "completed")
    BY <1>8 DEF Publish, AnswerInv
  <2>3. answer'[p] = "completed"
    BY <2>1 DEF Finish
  <2>4. TrueAnswer(p)'
    BY <1>1, <2>1, <2>2, <2>3 DEF TrueAnswer
  <2>5. QED
    BY <1>4, <2>1, <2>4 DEF Answers
<1>9. CASE DecideClaim(p) /\ Rollback(p, "replay")
  <2>1. Finish(p, "replay") /\ UNCHANGED <<transfers, payment_links, job>>
    BY <1>9 DEF Rollback, Finish, dbVars
  <2>2. /\ job[p].kind = "claim" /\ job[p].entity \in Links
        /\ payment_links[job[p].entity].status = "claimed"
        /\ payment_links[job[p].entity].claimer_id = job[p].actor
    <3>1. ~ExpireLink(p) /\ ~Proceed(p) /\ answer'[p] = "replay"
      BY <1>1, <2>1 DEF ExpireLink, Proceed, Finish
    <3>2. \A outcome \in EmptyAnswers : ~Rollback(p, outcome)
      BY <3>1 DEF Rollback, Finish, EmptyAnswers
    <3>3. QED
      BY <1>1, <1>9, <3>1, <3>2, JobFacts DEF DecideClaim, EmptyAnswers
  <2>3. payment_links[job[p].entity].transfer_id # NoKey
    BY <2>2 DEF EntityInv, EventsInv, ObligationPaidOnce
  <2>4. answer'[p] = "replay"
    BY <2>1 DEF Finish
  <2>5. TrueAnswer(p)'
    BY <1>1, <2>1, <2>2, <2>3, <2>4 DEF TrueAnswer
  <2>6. QED
    BY <1>4, <2>1, <2>5 DEF Answers
<1>10. ASSUME NEW outcome \in EmptyAnswers, Rollback(p, outcome)
       PROVE  Goal
  BY <1>3, <1>10 DEF Rollback
<1>11. CASE DecideClaim(p)
  <2>1. CASE ExpireLink(p)
    BY <1>3, <2>1 DEF ExpireLink, EmptyAnswers
  <2>2. CASE Proceed(p)
    BY <1>2, <2>2 DEF Proceed, Steps, MoneySteps
  <2>3. QED
    BY <1>9, <1>10, <1>11, <2>1, <2>2 DEF DecideClaim, EmptyAnswers
<1>12. CASE DecideAccept(p)
  BY <1>2, <1>10, <1>12 DEF DecideAccept, Proceed, Steps, MoneySteps, EmptyAnswers
<1>13. CASE DuplicateKey(p)
  BY <1>10, <1>13 DEF DuplicateKey, EmptyAnswers
<1>14. CASE UpdateBalances(p)
  BY <1>2, <1>10, <1>14 DEF UpdateBalances, Steps, MoneySteps, EmptyAnswers
<1>15. CASE IncrVelocity(p) \/ InsertRefused(p) \/ ReadBalance(p) \/ LockEntity(p)
  BY <1>2, <1>15 DEF IncrVelocity, InsertRefused, InsertKey, ReadBalance, LockEntity, Steps,
                     MoneySteps, RefusalSteps
<1>16. CASE LockFirst(p) \/ LockSecond(p) \/ InsertTransfer(p) \/ InsertDebit(p) \/ InsertCredit(p)
  BY <1>2, <1>16 DEF LockFirst, LockSecond, InsertTransfer, InsertKey, InsertDebit, InsertCredit,
                     Steps, MoneySteps
<1>17. Goal
  BY <1>5, <1>6, <1>7, <1>8, <1>11, <1>12, <1>13, <1>14, <1>15, <1>16 DEF Advance
<1>18. QED
  BY <1>17

(* The two parts of the invariant make every answer true.                  *)
LEMMA TrueAnswersSuffice ==
    ASSUME AnswerInv, TruthInv
    PROVE  AnswersAreTrue
<1> SUFFICES ASSUME NEW p \in Procs, TrueAnswer(p)
             PROVE  LET j == job[p] IN
                    /\ answer[p] = "completed" => transfers[j.key] = TransferRow(j, "completed")
                    /\ answer[p] \in {"rejected", "flagged"} =>
                          transfers[j.key] = TransferRow(j, answer[p])
                    /\ answer[p] = "replay" /\ j.kind = "transfer" =>
                          transfers[j.key] # NoRow /\ SamePayload(transfers[j.key], j)
                    /\ answer[p] = "replay" /\ j.kind = "claim" =>
                          LET k == payment_links[j.entity].transfer_id IN
                          /\ k \in Keys
                          /\ transfers[k] = [TransferRow(j, "completed") EXCEPT !.recipient = j.actor]
  BY DEF AnswersAreTrue, TruthInv, EmptyAnswers
<1>1. CASE answer[p] # "replay" \/ job[p].kind # "claim"
  BY <1>1 DEF TrueAnswer
<1>2. CASE answer[p] = "replay" /\ job[p].kind = "claim"
  <2>1. /\ job[p] \in Jobs /\ job[p].entity \in Links
        /\ payment_links[job[p].entity].transfer_id # NoKey
        /\ payment_links[job[p].entity].claimer_id = job[p].actor
    BY <1>2, JobFacts DEF TrueAnswer
  <2>2. TransferRow(job[p], "completed") =
          [sender |-> LinkRow[job[p].entity].creator, recipient |-> job[p].actor,
           amount |-> LinkRow[job[p].entity].amount, status |-> "completed"]
    BY <1>2 DEF TransferRow, Payer, Payee, Amount
  <2>3. QED
    BY <1>2, <2>1, <2>2 DEF AnswerInv
<1>3. QED
  BY <1>1, <1>2

(* An answer that was true stays true, since rows and links keep what it   *)
(* speaks of.                                                              *)
LEMMA TrueAnswersStay ==
    ASSUME AnswersInv, [Next]_vars, NEW p \in Procs, TrueAnswer(p),
           answer'[p] = answer[p], job'[p] = job[p]
    PROVE  TrueAnswer(p)'
<1>1. job[p] \in Jobs
  BY DEF TrueAnswer
<1>2. job[p].key \in Keys /\ (job[p].kind = "claim" => job[p].entity \in Links)
  BY <1>1, JobFacts
<1>3. \A status : TransferRow(job[p], status) # NoRow
  BY DEF TransferRow, NoRow
<1>4. /\ transfers[job[p].key] # NoRow => transfers'[job[p].key] = transfers[job[p].key]
      /\ \A l \in Links : payment_links[l].transfer_id # NoKey =>
            /\ payment_links'[l].transfer_id = payment_links[l].transfer_id
            /\ payment_links'[l].claimer_id = payment_links[l].claimer_id
  BY <1>2, FactsStay
<1>5. QED
  BY <1>1, <1>2, <1>3, <1>4 DEF TrueAnswer

(* The transfer of a link is the one that its claim wrote.                 *)
LEMMA LinkRowsStep ==
    ASSUME AnswersInv, [Next]_vars, NEW l \in Links, payment_links'[l].transfer_id # NoKey
    PROVE  /\ payment_links'[l].transfer_id \in Keys
           /\ transfers'[payment_links'[l].transfer_id] =
                 [sender |-> LinkRow[l].creator, recipient |-> payment_links'[l].claimer_id,
                  amount |-> LinkRow[l].amount, status |-> "completed"]
<1> USE DEF AnswersInv
<1>1. CASE payment_links[l].transfer_id # NoKey
  <2>1. /\ payment_links'[l].transfer_id = payment_links[l].transfer_id
        /\ payment_links'[l].claimer_id = payment_links[l].claimer_id
    BY <1>1, FactsStay
  <2>2. /\ payment_links[l].transfer_id \in Keys
        /\ transfers[payment_links[l].transfer_id] =
              [sender |-> LinkRow[l].creator, recipient |-> payment_links[l].claimer_id,
               amount |-> LinkRow[l].amount, status |-> "completed"]
    BY <1>1 DEF AnswerInv
  <2>3. transfers[payment_links[l].transfer_id].status = "completed"
    BY <2>2
  <2>4. NoRow.status = "none"
    BY DEF NoRow
  <2>5. transfers[payment_links[l].transfer_id] # NoRow
    BY <2>3, <2>4
  <2>6. transfers'[payment_links[l].transfer_id] = transfers[payment_links[l].transfer_id]
    BY <2>2, <2>5, FactsStay
  <2>7. QED
    BY <2>1, <2>2, <2>6
<1>2. CASE payment_links[l].transfer_id = NoKey
  <2>1. payment_links'[l] # payment_links[l]
    BY <1>2
  <2>2. ~\E p \in Procs : CommitRefused(p)
    BY <2>1 DEF CommitRefused
  <2>3. ASSUME NEW p \in Procs, ExpireLink(p) PROVE FALSE
    <3>1. payment_links' = [payment_links EXCEPT ![job[p].entity].status = "expired"]
      BY <2>3 DEF ExpireLink
    <3>2. payment_links \in [Links -> LinkStates]
      BY DEF IInv, TypeOK
    <3>3. payment_links'[l].transfer_id = payment_links[l].transfer_id
      BY <3>1, <3>2 DEF LinkStates
    <3>4. QED
      BY <1>2, <3>3
  <2>4. PICK p \in Procs : Commit(p)
    BY <2>1, <2>2, <2>3, OthersKeepEntities
  <2>5. SettleEntity(job[p]) /\ job[p] \in Jobs /\ job[p].key \in Keys
    BY <2>4, CommitFacts, JobFacts DEF Commit
  <2>6. /\ job[p].kind = "claim" /\ job[p].entity = l
        /\ payment_links' = [payment_links EXCEPT ![l] =
              [status |-> "claimed", claimer_id |-> job[p].actor, transfer_id |-> job[p].key]]
    BY <2>1, <2>5 DEF SettleEntity, IInv, TypeOK
  <2>7. transfers'[job[p].key] = TransferRow(job[p], "completed")
    BY <2>4, <2>5 DEF Commit, IInv, TypeOK
  <2>8. payment_links'[l] =
          [status |-> "claimed", claimer_id |-> job[p].actor, transfer_id |-> job[p].key]
    BY <2>6 DEF IInv, TypeOK
  <2>9. QED
    BY <2>5, <2>6, <2>7, <2>8 DEF TransferRow, Payer, Payee, Amount
<1>3. QED
  BY <1>1, <1>2

(* Every step keeps the answers true.                                      *)
LEMMA AnswersStep == AnswersInv /\ [Next]_vars => AnswersInv'
<1> SUFFICES ASSUME AnswersInv, [Next]_vars PROVE AnswersInv'
  OBVIOUS
<1>1. IInv' /\ LedgerInv' /\ EntityInv'
  BY IInvStep, LedgerStep, EntityStep DEF AnswersInv
<1> DEFINE Part(p) ==
      /\ pc'[p] # "idle" => answer'[p] = "none"
      /\ pc'[p] = "publish" =>
            job'[p].key \in Keys /\ transfers'[job'[p].key] = TransferRow(job'[p], "completed")
      /\ answer'[p] \in EmptyAnswers \/ TrueAnswer(p)'
<1>2. ASSUME NEW p \in Procs, pc'[p] = pc[p], answer'[p] = answer[p], job'[p] = job[p]
      PROVE  Part(p)
  <2>1. answer'[p] \in EmptyAnswers \/ TrueAnswer(p)'
    BY <1>2, TrueAnswersStay DEF AnswersInv, TruthInv
  <2>2. pc[p] = "publish" =>
          job[p].key \in Keys /\ transfers'[job[p].key] = TransferRow(job[p], "completed")
    BY FactsStay DEF AnswersInv, AnswerInv, TransferRow, NoRow
  <2>3. QED
    BY <1>2, <2>1, <2>2 DEF AnswersInv, AnswerInv
<1>3. ASSUME NEW q \in Procs, NEW p \in Procs
      PROVE  /\ Start(q) => Part(p)
             /\ Advance(q) => Part(p)
             /\ Fail(q) => Part(p)
  <2> USE DEF AnswersInv, IInv, TypeOK
  <2>1. CASE p # q /\ (Start(q) \/ Advance(q) \/ Fail(q))
    <3>1. pc'[p] = pc[p] /\ answer'[p] = answer[p] /\ job'[p] = job[p]
      BY <2>1, AnswerChanges DEF Start, Goto, Fail, Rollback, Finish
    <3>2. QED
      BY <1>2, <3>1
  <2>2. CASE p = q /\ Start(q)
    <3>1. answer'[p] = "none" /\ pc'[p] \in {"lookup_key", "lock_entity"}
      BY <2>2 DEF Start, Goto
    <3>2. QED
      BY <3>1 DEF EmptyAnswers
  <2>3. CASE p = q /\ Fail(q)
    <3>1. answer'[p] = "error" /\ pc'[p] = "idle"
      BY <2>3 DEF Fail, Rollback, Finish
    <3>2. QED
      BY <3>1 DEF EmptyAnswers
  <2>4. CASE p = q /\ Advance(q)
    <3>1. /\ job' = job
          /\ answer'[p] \in EmptyAnswers \/ TrueAnswer(p)'
          /\ pc'[p] # "idle" => answer'[p] = answer[p]
          /\ pc'[p] = "publish" =>
                job[p].key \in Keys /\ transfers'[job[p].key] = TransferRow(job[p], "completed")
      BY <2>4, AnswerChanges
    <3>2. pc[p] # "idle"
      BY <2>4
      DEF Advance, LookupKey, IncrVelocity, InsertRefused, ReadBalance, CommitRefused,
          DuplicateKey, LockEntity, DecideAccept, DecideClaim, LockFirst, LockSecond,
          UpdateBalances, InsertTransfer, InsertDebit, InsertCredit, Commit, Publish
    <3>3. QED
      BY <3>1, <3>2 DEF AnswerInv
  <2>5. QED
    BY <2>1, <2>2, <2>3, <2>4
<1>4. ASSUME NEW p \in Procs PROVE Part(p)
  <2>1. CASE (\E l \in Links : Lapse(l)) \/ UNCHANGED vars
    BY <1>2, <2>1 DEF Lapse, vars, procVars
  <2>2. QED
    BY <1>3, <2>1 DEF Next
<1>5. TruthInv'
  BY <1>4 DEF TruthInv
<1>6. AnswerInv'
  BY <1>4, LinkRowsStep DEF AnswerInv
<1>7. QED
  BY <1>1, <1>5, <1>6 DEF AnswersInv

(* Nobody has been answered at first.                                      *)
LEMMA InitAnswers == Init => AnswersInv
BY InitIInv, InitLedgerInv, InitEntityInv
DEF Init, AnswersInv, AnswerInv, TruthInv, EmptyAnswers

(* What a caller is told is true and stays so: "completed" has its         *)
(* payment, a replay the row it repeats, a refusal its refused row.        *)
THEOREM AnswersTrue == Spec => []AnswersAreTrue
<1>1. AnswersInv => AnswersAreTrue
  BY TrueAnswersSuffice DEF AnswersInv
<1>2. QED
  BY InitAnswers, <1>1, AnswersStep, PTL DEF Spec
-----------------------------------------------------------------------------
(***************************************************************************)
(* The life of requests and links beside their payment, for every number   *)
(* of users, requests, links, viewers, keys and calls.  The invariants of  *)
(* the handlers that move money carry over, since the new steps change a   *)
(* row only while nobody holds it; what is added says which events may     *)
(* stand beside which status.                                              *)
(***************************************************************************)
CancelledEvent(l) == EventRow(l, "cancelled", NoKey)

(* A cancelled link is not paid, and a viewer may only make it expired.    *)
CancelInv ==
    \A l \in Links : CancelledEvent(l) \in process_events =>
        SettlingEvents(l) = {} /\ payment_links[l].status \in {"cancelled", "expired"}

HandlerInv == IInv /\ LedgerInv /\ EntityInv

LifeInv == CancelInv /\ OneResolution /\ ClaimedLinksArePaid

ObligationInv == HandlerInv /\ ObligationTypeOK /\ LifeInv

(* The invariant holds of the seeded requests and links.                   *)
LEMMA ObligationInitInv == ObligationInit => ObligationInv
<1> SUFFICES ASSUME ObligationInit PROVE ObligationInv
  OBVIOUS
<1>1. Init /\ asked = {} /\ created = {} /\ expiring = [v \in Viewers |-> NoEntity]
  BY DEF ObligationInit, RequestInit, LinkInit
<1>2. HandlerInv
  BY <1>1, InitIInv, InitLedgerInv, InitEntityInv DEF HandlerInv
<1>3. ObligationTypeOK
  BY <1>1, <1>2 DEF HandlerInv, IInv, ObligationTypeOK, RequestTypeOK, LinkTypeOK
<1>4. LifeInv
  BY <1>1 DEF Init, LifeInv, CancelInv, OneResolution, Resolutions, ClaimedLinksArePaid
<1>5. QED
  BY <1>2, <1>3, <1>4 DEF ObligationInv
-----------------------------------------------------------------------------
(* The steps that do not move money: one row, held by nobody, changes its  *)
(* status, or none does, and at most an event that settles nothing comes.  *)
StatusStep ==
    /\ UNCHANGED <<balances, transfers, ledger, tx_history, ledger_seq, lockVars, redisVars,
                   lapsed, procVars, published>>
    /\ \A r \in Requests : money_requests'[r] # money_requests[r] =>
          /\ entity_lock[r] = NoProc
          /\ money_requests[r] = "pending" /\ money_requests'[r] \in {"rejected", "cancelled"}
          /\ process_events' = process_events \cup {EventRow(r, money_requests'[r], NoKey)}
    /\ \A l \in Links : payment_links'[l] # payment_links[l] =>
          /\ entity_lock[l] = NoProc
          /\ payment_links'[l].claimer_id = payment_links[l].claimer_id
          /\ payment_links'[l].transfer_id = payment_links[l].transfer_id
          /\ \/ payment_links'[l].status = "expired"
             \/ /\ payment_links'[l].status = "cancelled"
                /\ payment_links[l].status \notin {"claimed", "expired"}
    /\ \/ process_events' = process_events
       \/ \E e \in Entities, type \in {"created", "rejected", "cancelled"} :
             /\ process_events' = process_events \cup {EventRow(e, type, NoKey)}
             /\ \/ type = "created"
                \/ /\ e \in Requests
                   /\ money_requests[e] = "pending" /\ money_requests'[e] = type
                \/ /\ e \in Links /\ type = "cancelled"
                   /\ payment_links[e].status \notin {"claimed", "expired"}
                   /\ payment_links'[e].status = "cancelled"

(* Create, reject, cancel, view and expiry change one status at most.      *)
LEMMA LifeStepsAreStatusSteps ==
    ASSUME ObligationInv, RequestStep \/ LinkStep
    PROVE  StatusStep /\ TypeOK'
<1> USE DEF ObligationInv, HandlerInv, IInv
<1>1. ASSUME NEW r \in Requests, CreateRequest(r)
      PROVE  StatusStep /\ TypeOK'
  BY <1>1 DEF CreateRequest, othersThanRequests, StatusStep, TypeOK, Entities,
              lockVars, redisVars, procVars
<1>2. ASSUME NEW r \in Requests, NEW status \in {"rejected", "cancelled"}, Close(r, status)
      PROVE  StatusStep /\ TypeOK'
  <2>1. money_requests' = [money_requests EXCEPT ![r] = status] /\ entity_lock[r] = NoProc
    BY <1>2 DEF Close
  <2>2. \A q \in Requests : money_requests'[q] = IF q = r THEN status ELSE money_requests[q]
    BY <2>1 DEF TypeOK
  <2>3. StatusStep
    BY <1>2, <2>1, <2>2 DEF Close, othersThanRequests, StatusStep, Entities
  <2>4. TypeOK'
    BY <1>2, <2>1, <2>3 DEF Close, othersThanRequests, TypeOK, lockVars, redisVars, procVars
  <2>5. QED
    BY <2>3, <2>4
<1>3. ASSUME NEW l \in Links, CreateLink(l)
      PROVE  StatusStep /\ TypeOK'
  BY <1>3 DEF CreateLink, othersThanLinks, StatusStep, TypeOK, Entities,
              lockVars, redisVars, procVars
<1>4. ASSUME NEW v \in Viewers, ViewFails(v) \/ \E l \in Links : ViewLink(v, l)
      PROVE  StatusStep /\ TypeOK'
  BY <1>4 DEF ViewFails, ViewLink, vars, dbVars, StatusStep, TypeOK, lockVars, redisVars, procVars
<1>5. ASSUME NEW l \in Links, NEW status \in {"expired", "cancelled"},
             payment_links' = [payment_links EXCEPT ![l].status = status],
             entity_lock[l] = NoProc,
             status = "cancelled" => payment_links[l].status \notin {"claimed", "expired"},
             UNCHANGED othersThanLinks,
             \/ process_events' = process_events
             \/ /\ status = "cancelled"
                /\ process_events' = process_events \cup {EventRow(l, "cancelled", NoKey)}
      PROVE  StatusStep /\ TypeOK'
  <2>1. \A m \in Links : payment_links'[m] =
            IF m = l THEN [payment_links[l] EXCEPT !.status = status] ELSE payment_links[m]
    BY <1>5 DEF TypeOK
  <2>2. payment_links[l] \in LinkStates
    BY DEF TypeOK
  <2>3. [payment_links[l] EXCEPT !.status = status]
           = [status |-> status, claimer_id |-> payment_links[l].claimer_id,
              transfer_id |-> payment_links[l].transfer_id]
    BY <2>2 DEF LinkStates
  <2>4. StatusStep
    BY <1>5, <2>1, <2>3 DEF othersThanLinks, StatusStep, Entities
  <2>5. payment_links' \in [Links -> LinkStates]
    BY <1>5, <2>2, <2>3 DEF TypeOK, LinkStates
  <2>6. TypeOK'
    BY <1>5, <2>5 DEF othersThanLinks, TypeOK, lockVars, redisVars, procVars
  <2>7. QED
    BY <2>4, <2>6
<1>6. ASSUME NEW v \in Viewers, MarkExpired(v)
      PROVE  StatusStep /\ TypeOK'
  <2>1. expiring[v] \in Links
    BY <1>6 DEF MarkExpired, ObligationTypeOK, LinkTypeOK
  <2>2. QED
    BY <1>5, <1>6, <2>1 DEF MarkExpired
<1>7. ASSUME NEW u \in Users, NEW l \in Links, CancelLink(u, l)
      PROVE  StatusStep /\ TypeOK'
  BY <1>5, <1>7 DEF CancelLink
<1>8. QED
  BY <1>1, <1>2, <1>3, <1>4, <1>6, <1>7
  DEF RequestStep, LinkStep, RejectRequest, CancelRequest

(* Nothing that a request in flight relies on changes in such a step.      *)
LEMMA StatusStepsKeepHandlers ==
    ASSUME HandlerInv, StatusStep, TypeOK'
    PROVE  HandlerInv'
<1> USE DEF HandlerInv
<1>1. IInv'
  BY DEF IInv, ProcInv, ReadsAreFresh, StatusStep, lockVars, procVars
<1>2. LedgerInv'
  BY DEF LedgerInv, RowIds, TopRows, Chains, RowsOf, Precedes, IdsInv, KeyInv, StatusStep,
         lockVars, procVars
<1>3. \A e \in Entities : SettlingEvents(e)' = SettlingEvents(e)
  BY DEF StatusStep, SettlingEvents, EventRow
<1>4. ObligationPaidOnce'
  <2>1. \A r \in Requests : money_requests'[r] = "accepted" <=> money_requests[r] = "accepted"
    BY DEF StatusStep
  <2>2. \A l \in Links : payment_links'[l].transfer_id = payment_links[l].transfer_id
    BY DEF StatusStep
  <2>3. transfers' = transfers
    BY DEF StatusStep
  <2>4. QED
    BY <1>3, <2>1, <2>2, <2>3 DEF EntityInv, ObligationPaidOnce, PaymentOf, TermsOf, Entities
<1>5. EventsInv'
  <2>1. \A v \in process_events' : v.type \in SettlingTypes => v \in process_events
    BY DEF StatusStep, EventRow, SettlingTypes
  <2>2. \A l \in Links : SettlingEvents(l) # {} => payment_links[l].status \in {"claimed", "expired"}
    BY DEF EntityInv, EventsInv
  <2>3. \A l \in Links :
          /\ payment_links'[l].status = "claimed" => payment_links[l].status = "claimed"
          /\ payment_links[l].status \in {"claimed", "expired"}
                => payment_links'[l].status \in {"claimed", "expired"}
    BY DEF StatusStep
  <2>4. QED
    BY <1>3, <2>1, <2>2, <2>3 DEF EntityInv, EventsInv, Entities
<1>6. ASSUME NEW q \in Procs
      PROVE  PayInv(q)'
  <2>1. PayInv(q) /\ UNCHANGED <<pc, job, entity_lock>>
    BY DEF EntityInv, StatusStep, lockVars, procVars
  <2>2. \A r \in Requests : entity_lock[r] = q => money_requests'[r] = money_requests[r]
    BY NullsAssumption DEF StatusStep
  <2>3. \A l \in Links : entity_lock[l] = q => payment_links'[l] = payment_links[l]
    BY NullsAssumption DEF StatusStep
  <2>4. QED
    BY <2>1, <2>2, <2>3, HeldEntity DEF PayInv
<1>7. QED
  BY <1>1, <1>2, <1>4, <1>5, <1>6 DEF EntityInv

(* Such a change keeps what the log says beside the status.                *)
LEMMA StatusStepsKeepLife ==
    ASSUME HandlerInv, LifeInv, StatusStep
    PROVE  LifeInv'
<1> USE DEF HandlerInv, LifeInv
<1>1. \A e \in Entities : SettlingEvents(e)' = SettlingEvents(e)
  BY DEF StatusStep, SettlingEvents, EventRow
<1>2. CancelInv'
  <2> SUFFICES ASSUME NEW l \in Links, CancelledEvent(l) \in process_events'
               PROVE  SettlingEvents(l) = {} /\ payment_links'[l].status \in {"cancelled", "expired"}
    BY <1>1 DEF CancelInv, Entities, CancelledEvent
  <2>1. CASE CancelledEvent(l) \in process_events
    BY <2>1 DEF CancelInv, StatusStep
  <2>2. CASE CancelledEvent(l) \notin process_events
    <3>1. /\ payment_links[l].status \notin {"claimed", "expired"}
          /\ payment_links'[l].status = "cancelled"
      BY <2>2, NullsAssumption DEF StatusStep, CancelledEvent, EventRow, Entities
    <3>2. QED
      BY <3>1 DEF EntityInv, EventsInv
  <2>3. QED
    BY <2>1, <2>2
<1>3. OneResolution'
  <2> SUFFICES ASSUME NEW r \in Requests
               PROVE  IF money_requests'[r] = "pending"
                      THEN Resolutions(r)' = {}
                      ELSE \E v \in process_events' :
                              /\ Resolutions(r)' = {v}
                              /\ v.type = money_requests'[r]
                              /\ v.key \in Keys <=> money_requests'[r] = "accepted"
    BY DEF OneResolution
  <2>1. CASE money_requests'[r] = money_requests[r]
    <3>1. \A v \in process_events' \ process_events : v.entity # r \/ v.type = "created"
      BY <2>1, NullsAssumption DEF StatusStep, EventRow
    <3>2. process_events \subseteq process_events'
      BY DEF StatusStep
    <3>3. Resolutions(r)' = Resolutions(r)
      BY <3>1, <3>2 DEF Resolutions
    <3>4. QED
      BY <2>1, <3>2, <3>3 DEF OneResolution
  <2>2. CASE money_requests'[r] # money_requests[r]
    <3> DEFINE w == EventRow(r, money_requests'[r], NoKey)
    <3>1. /\ Resolutions(r) = {} /\ process_events' = process_events \cup {w}
          /\ money_requests'[r] \in {"rejected", "cancelled"}
      BY <2>2 DEF StatusStep, OneResolution
    <3>2. w.entity = r /\ w.type = money_requests'[r] /\ w.key = NoKey
      BY DEF EventRow
    <3>3. Resolutions(r)' = {w}
      BY <3>1, <3>2 DEF Resolutions
    <3>4. QED
      BY <3>1, <3>2, <3>3, NullsAssumption
  <2>3. QED
    BY <2>1, <2>2
<1>4. ClaimedLinksArePaid'
  <2>1. \A l \in Links : payment_links'[l].status = "claimed" => payment_links'[l] = payment_links[l]
    BY DEF StatusStep
  <2>2. transfers' = transfers
    BY DEF StatusStep
  <2>3. QED
    BY <2>1, <2>2 DEF ClaimedLinksArePaid
<1>5. QED
  BY <1>2, <1>3, <1>4
-----------------------------------------------------------------------------
(* A row under a fresh key leaves the row of every claimed link alone.     *)
LEMMA ClaimedRowsStay ==
    ASSUME HandlerInv, ClaimedLinksArePaid, NEW k \in Keys, transfers[k] = NoRow, NEW row,
           transfers' = [transfers EXCEPT ![k] = row],
           NEW l \in Links, payment_links[l].status = "claimed"
    PROVE  transfers'[payment_links[l].transfer_id] = transfers[payment_links[l].transfer_id]
<1>1. /\ payment_links[l].transfer_id \in Keys
      /\ transfers[payment_links[l].transfer_id].status = "completed"
  BY DEF ClaimedLinksArePaid
<1>2. payment_links[l].transfer_id # k
  BY <1>1 DEF NoRow
<1>3. QED
  BY <1>1, <1>2 DEF HandlerInv, IInv, TypeOK

(* An event of no request leaves the resolutions as they are.              *)
LEMMA ResolutionsStay ==
    ASSUME OneResolution, NEW e, e.entity \notin Requests,
           process_events' = process_events \cup {e}, UNCHANGED money_requests
    PROVE  OneResolution'
<1>1. \A r \in Requests : Resolutions(r)' = Resolutions(r)
  BY DEF Resolutions
<1>2. QED
  BY <1>1 DEF OneResolution

(* So does the recorded refusal of a transfer.                             *)
LEMMA RefusalKeepsLife ==
    ASSUME HandlerInv, LifeInv, NEW p \in Procs, CommitRefused(p)
    PROVE  LifeInv'
<1> USE DEF HandlerInv, LifeInv
<1>1. PICK k, row, e :
        /\ k \in Keys
        /\ transfers[k] = NoRow /\ transfers' = [transfers EXCEPT ![k] = row]
        /\ process_events' = process_events \cup {e}
        /\ e.entity = NoEntity /\ e.type \notin SettlingTypes \cup {"cancelled"}
        /\ UNCHANGED <<money_requests, payment_links>>
  <2>1. job[p].key \in Keys /\ transfers[job[p].key] = NoRow
    BY JobFacts DEF CommitRefused, IInv, ProcInv, LedgerInv, KeyInv, KeySteps
  <2>2. EventRow(NoEntity, RefusedStatus(job[p]), job[p].key).type \notin SettlingTypes \cup {"cancelled"}
    BY DEF EventRow, RefusedStatus, SettlingTypes
  <2>3. EventRow(NoEntity, RefusedStatus(job[p]), job[p].key).entity = NoEntity
    BY DEF EventRow
  <2>4. QED
    BY <2>1, <2>2, <2>3 DEF CommitRefused
<1>2. CancelInv'
  BY <1>1 DEF CancelInv, CancelledEvent, EventRow, SettlingEvents, SettlingTypes
<1>3. OneResolution'
  BY <1>1, ResolutionsStay, NullsAssumption DEF Entities
<1>4. ClaimedLinksArePaid'
  BY <1>1, ClaimedRowsStay DEF ClaimedLinksArePaid
<1>5. QED
  BY <1>2, <1>3, <1>4

(* So does a claim that finds its link past the deadline and expires it.   *)
LEMMA ExpiryKeepsLife ==
    ASSUME HandlerInv, LifeInv, NEW p \in Procs, DecideClaim(p), ExpireLink(p)
    PROVE  LifeInv'
<1> USE DEF HandlerInv, LifeInv
<1>1. PICK link \in Links : link = job[p].entity
  BY JobFacts DEF DecideClaim, IInv, ProcInv
<1>2. /\ payment_links' = [payment_links EXCEPT ![link].status = "expired"]
      /\ process_events' = process_events \cup {EventRow(link, "expired", NoKey)}
      /\ UNCHANGED <<transfers, money_requests>>
  BY <1>1 DEF ExpireLink
<1>3. \A l \in Links : payment_links'[l].status = "expired" \/ payment_links'[l] = payment_links[l]
  BY <1>2 DEF IInv, TypeOK, LinkStates
<1>4. CancelInv'
  BY <1>2, <1>3 DEF CancelInv, CancelledEvent, EventRow, SettlingEvents
<1>5. OneResolution'
  <2>1. EventRow(link, "expired", NoKey).entity \notin Requests
    BY NullsAssumption DEF EventRow
  <2>2. QED
    BY <1>2, <2>1, ResolutionsStay
<1>6. ClaimedLinksArePaid'
  BY <1>2, <1>3 DEF ClaimedLinksArePaid
<1>7. QED
  BY <1>4, <1>5, <1>6

(* So does a payment that commits.                                         *)
LEMMA CommitKeepsLife ==
    ASSUME HandlerInv, LifeInv, NEW p \in Procs, Commit(p)
    PROVE  LifeInv'
<1> USE DEF HandlerInv, LifeInv
<1> DEFINE j == job[p]
           row == TransferRow(j, "completed")
<1>1. /\ j \in Jobs /\ j.key \in Keys /\ transfers[j.key] = NoRow
      /\ transfers' = [transfers EXCEPT ![j.key] = row]
      /\ SettleEntity(j) /\ PayInv(p) /\ pc[p] \in MoneySteps
  BY CommitFacts, JobFacts DEF Commit, EntityInv, MoneySteps
<1>2. \A l \in Links : payment_links[l].status = "claimed" =>
         transfers'[payment_links[l].transfer_id] = transfers[payment_links[l].transfer_id]
  BY <1>1, ClaimedRowsStay
<1>3. CASE j.kind = "transfer"
  <2> DEFINE e == EventRow(NoEntity, "completed", j.key)
  <2>1. /\ e.entity = NoEntity /\ e.type = "completed" /\ NoEntity \notin Links \cup Requests
        /\ process_events' = process_events \cup {e}
        /\ UNCHANGED <<money_requests, payment_links>>
    BY <1>1, <1>3, NullsAssumption DEF SettleEntity, EventRow, Entities
  <2>2. CancelInv'
    BY <2>1 DEF CancelInv, CancelledEvent, EventRow, SettlingEvents
  <2>3. OneResolution'
    BY <2>1, ResolutionsStay
  <2>4. ClaimedLinksArePaid'
    BY <1>2, <2>1 DEF ClaimedLinksArePaid
  <2>5. QED
    BY <2>2, <2>3, <2>4
<1>4. CASE j.kind = "accept"
  <2> DEFINE e == EventRow(j.entity, "accepted", j.key)
  <2>1. /\ j.entity \in Requests /\ j.entity \notin Links
        /\ money_requests[j.entity] = "pending"
    BY <1>1, <1>4, JobFacts, NullsAssumption DEF PayInv
  <2>2. /\ e.entity = j.entity /\ e.type = "accepted" /\ e.key = j.key
        /\ process_events' = process_events \cup {e}
        /\ money_requests' = [money_requests EXCEPT ![j.entity] = "accepted"]
        /\ payment_links' = payment_links
    BY <1>1, <1>4 DEF SettleEntity, EventRow
  <2>3. \A r \in Requests : money_requests'[r] =
            IF r = j.entity THEN "accepted" ELSE money_requests[r]
    BY <2>2 DEF IInv, TypeOK
  <2>4. CancelInv'
    BY <2>1, <2>2 DEF CancelInv, CancelledEvent, EventRow, SettlingEvents
  <2>5. \A r \in Requests : Resolutions(r)' = IF r = j.entity THEN {e} ELSE Resolutions(r)
    BY <2>1, <2>2 DEF Resolutions, OneResolution
  <2>6. OneResolution'
    BY <1>1, <2>2, <2>3, <2>5 DEF OneResolution
  <2>7. ClaimedLinksArePaid'
    BY <1>2, <2>2 DEF ClaimedLinksArePaid
  <2>8. QED
    BY <2>4, <2>6, <2>7
<1>5. CASE j.kind = "claim"
  <2> DEFINE e == EventRow(j.entity, "claimed", j.key)
             claimed == [status |-> "claimed", claimer_id |-> j.actor, transfer_id |-> j.key]
  <2>1. /\ j.entity \in Links /\ j.entity \notin Requests
        /\ payment_links[j.entity].status = "active"
    BY <1>1, <1>5, JobFacts, NullsAssumption DEF PayInv
  <2>2. /\ e.entity = j.entity /\ e.type = "claimed" /\ e.key = j.key
        /\ process_events' = process_events \cup {e}
        /\ money_requests' = money_requests
        /\ payment_links' = [payment_links EXCEPT ![j.entity] = claimed]
    BY <1>1, <1>5 DEF SettleEntity, EventRow
  <2>3. \A l \in Links : payment_links'[l] = IF l = j.entity THEN claimed ELSE payment_links[l]
    BY <2>1, <2>2 DEF IInv, TypeOK
  <2>4. \A l \in Links : CancelledEvent(l) \in process_events' =>
            CancelledEvent(l) \in process_events /\ l # j.entity
    BY <2>1, <2>2 DEF CancelInv, CancelledEvent, EventRow
  <2>5. CancelInv'
    BY <2>2, <2>3, <2>4 DEF CancelInv, CancelledEvent, EventRow, SettlingEvents
  <2>6. OneResolution'
    BY <2>1, <2>2, ResolutionsStay
  <2>7. /\ row.status = "completed" /\ row.sender = LinkRow[j.entity].creator
        /\ row.recipient = j.actor
    BY <1>5 DEF TransferRow, Payer, Payee
  <2>8. transfers'[j.key] = row
    BY <1>1 DEF IInv, TypeOK
  <2>9. ClaimedLinksArePaid'
    BY <1>1, <1>2, <2>3, <2>7, <2>8 DEF ClaimedLinksArePaid
  <2>10. QED
    BY <2>5, <2>6, <2>9
<1>6. QED
  BY <1>1, <1>3, <1>4, <1>5, JobFacts

(* So do all steps of the handlers that move money.                        *)
LEMMA HandlersKeepLife ==
    ASSUME HandlerInv, LifeInv, [Next]_vars
    PROVE  LifeInv'
<1>1. CASE UNCHANGED <<transfers, money_requests, payment_links, process_events>>
  BY <1>1 DEF LifeInv, CancelInv, CancelledEvent, SettlingEvents, OneResolution, Resolutions,
              ClaimedLinksArePaid
<1>2. QED
  BY <1>1, CommitKeepsLife, RefusalKeepsLife, ExpiryKeepsLife, OthersKeepEntities
-----------------------------------------------------------------------------
(* The variables that clients add: what exists, and what viewers found.    *)
LEMMA LifeTypes ==
    ASSUME ObligationTypeOK, TypeOK',
           \/ UNCHANGED <<asked, created, expiring>>
           \/ RequestStep /\ UNCHANGED <<created, expiring>>
           \/ LinkStep /\ UNCHANGED asked
    PROVE  ObligationTypeOK'
<1> USE DEF ObligationTypeOK, RequestTypeOK, LinkTypeOK
<1>1. CASE UNCHANGED <<asked, created, expiring>>
  BY <1>1
<1>2. CASE RequestStep /\ UNCHANGED <<created, expiring>>
  <2>1. asked' \subseteq Requests
    BY <1>2 DEF RequestStep, CreateRequest, RejectRequest, CancelRequest, Close
  <2>2. QED
    BY <1>2, <2>1
<1>3. CASE LinkStep /\ UNCHANGED asked
  <2>1. created \subseteq created' /\ created' \subseteq Links
    BY <1>3 DEF LinkStep, CreateLink, ViewLink, MarkExpired, ViewFails, CancelLink
  <2>2. expiring' \in [Viewers -> created \cup {NoEntity}]
    BY <1>3 DEF LinkStep, CreateLink, ViewLink, MarkExpired, ViewFails, CancelLink
  <2>3. QED
    BY <1>3, <2>1, <2>2
<1>4. QED
  BY <1>1, <1>2, <1>3

(* Every step keeps the invariant.                                         *)
LEMMA ObligationStep == ObligationInv /\ [ObligationNext]_obligationVars => ObligationInv'
<1> SUFFICES ASSUME ObligationInv, [ObligationNext]_obligationVars PROVE ObligationInv'
  OBVIOUS
<1>1. CASE [Next]_vars /\ UNCHANGED <<asked, created, expiring>>
  <2>1. HandlerInv'
    BY <1>1, IInvStep, LedgerStep, EntityStep DEF ObligationInv, HandlerInv
  <2>2. LifeInv'
    BY <1>1, HandlersKeepLife DEF ObligationInv
  <2>3. ObligationTypeOK'
    BY <1>1, <2>1, LifeTypes DEF ObligationInv, HandlerInv, IInv
  <2>4. QED
    BY <2>1, <2>2, <2>3 DEF ObligationInv
<1>2. CASE \/ RequestStep /\ UNCHANGED <<created, expiring>>
           \/ LinkStep /\ UNCHANGED asked
  <2>1. StatusStep /\ TypeOK'
    BY <1>2, LifeStepsAreStatusSteps
  <2>2. HandlerInv'
    BY <2>1, StatusStepsKeepHandlers DEF ObligationInv
  <2>3. LifeInv'
    BY <2>1, StatusStepsKeepLife DEF ObligationInv
  <2>4. ObligationTypeOK'
    BY <1>2, <2>1, LifeTypes DEF ObligationInv
  <2>5. QED
    BY <2>2, <2>3, <2>4 DEF ObligationInv
<1>3. QED
  BY <1>1, <1>2 DEF ObligationNext, obligationVars, CallsNameRequests, CallsNameLinks

(* So it holds in every state.                                             *)
LEMMA ObligationInvariance == ObligationSpec => []ObligationInv
BY ObligationInitInv, ObligationStep, PTL DEF ObligationSpec

(* The handlers of requests and links keep the calls they answer and the   *)
(* rows they write to their types, beside payments of every kind.          *)
THEOREM ObligationTypes == ObligationSpec => []ObligationTypeOK
<1>1. ObligationInv => ObligationTypeOK
  BY DEF ObligationInv
<1>2. QED
  BY <1>1, ObligationInvariance, PTL

(* A claim and a cancel of one link never both succeed.                    *)
THEOREM CancelledUnpaid == ObligationSpec => []CancelledLinksAreUnpaid
<1>1. ObligationInv => CancelledLinksAreUnpaid
  BY DEF ObligationInv, LifeInv, CancelInv, CancelledEvent, CancelledLinksAreUnpaid
<1>2. QED
  BY <1>1, ObligationInvariance, PTL

(* A link that says claimed has paid its claimer by the transfer it names. *)
THEOREM ClaimedPaid == ObligationSpec => []ClaimedLinksArePaid
<1>1. ObligationInv => ClaimedLinksArePaid
  BY DEF ObligationInv, LifeInv
<1>2. QED
  BY <1>1, ObligationInvariance, PTL

(* A resolved request has one resolution, which its status shows, and was  *)
(* paid only if that is "accepted".                                        *)
THEOREM ResolvedOnce == ObligationSpec => []OneResolution
<1>1. ObligationInv => OneResolution
  BY DEF ObligationInv, LifeInv
<1>2. QED
  BY <1>1, ObligationInvariance, PTL

(* What BankProofs shows of the handlers alone holds beside cancellations, *)
(* rejections and viewers too: nothing is paid twice or on other terms.    *)
THEOREM ObligationsStillPaidOnce == ObligationSpec => []ObligationPaidOnce
<1>1. ObligationInv => ObligationPaidOnce
  BY DEF ObligationInv, HandlerInv, EntityInv
<1>2. QED
  BY <1>1, ObligationInvariance, PTL
-----------------------------------------------------------------------------
(* How a step may change the rows of requests and links.                   *)
LEMMA RowChanges ==
    ASSUME ObligationInv, [ObligationNext]_obligationVars
    PROVE  /\ \A r \in Requests : money_requests'[r] # money_requests[r] =>
                 money_requests[r] = "pending"
           /\ \A l \in Links :
                 \/ payment_links'[l] = payment_links[l]
                 \/ payment_links[l].status = "active" /\ payment_links'[l].status = "claimed"
                 \/ /\ payment_links'[l].status \in {"cancelled", "expired"}
                    /\ payment_links'[l].transfer_id = payment_links[l].transfer_id
<1> USE DEF ObligationInv, HandlerInv, IInv
<1>1. CASE RequestStep \/ LinkStep
  <2>1. StatusStep
    BY <1>1, LifeStepsAreStatusSteps
  <2>2. QED
    BY <2>1 DEF StatusStep
<1>2. CASE [Next]_vars
  <2>1. ASSUME NEW p \in Procs, Commit(p)
        PROVE  /\ \A r \in Requests : money_requests'[r] # money_requests[r] =>
                     money_requests[r] = "pending"
               /\ \A l \in Links :
                     \/ payment_links'[l] = payment_links[l]
                     \/ payment_links[l].status = "active" /\ payment_links'[l].status = "claimed"
    <3>1. PayInv(p) /\ pc[p] \in MoneySteps /\ SettleEntity(job[p]) /\ job[p] \in Jobs
      BY <2>1, CommitFacts DEF Commit, EntityInv, MoneySteps
    <3>2. QED
      BY <3>1, JobFacts DEF SettleEntity, PayInv, TypeOK
  <2>2. ASSUME NEW p \in Procs, ExpireLink(p)
        PROVE  /\ money_requests' = money_requests
               /\ \A l \in Links :
                     \/ payment_links'[l] = payment_links[l]
                     \/ /\ payment_links'[l].status = "expired"
                        /\ payment_links'[l].transfer_id = payment_links[l].transfer_id
    BY <2>2 DEF ExpireLink, TypeOK, LinkStates
  <2>3. ASSUME NEW p \in Procs, CommitRefused(p)
        PROVE  UNCHANGED <<money_requests, payment_links>>
    BY <2>3 DEF CommitRefused
  <2>4. CASE UNCHANGED <<money_requests, payment_links>>
    BY <2>4
  <2>5. QED
    BY <1>2, <2>1, <2>2, <2>3, <2>4, OthersKeepEntities
<1>3. QED
  BY <1>1, <1>2 DEF ObligationNext, obligationVars

(* Accept, reject and cancel of one request leave exactly one outcome.     *)
THEOREM ResolvedStay == ObligationSpec => ResolvedRequestsStay
<1>1. ObligationInv /\ [ObligationNext]_obligationVars =>
        [\A r \in Requests :
            money_requests[r] # "pending" => money_requests'[r] = money_requests[r]]_requestVars
  BY RowChanges
<1>2. QED
  BY <1>1, ObligationInvariance, PTL DEF ObligationSpec, ResolvedRequestsStay

(* A link that was cancelled or has expired is never paid afterwards.      *)
THEOREM ClosedStay == ObligationSpec => ClosedLinksStayUnpaid
<1>1. ObligationInv /\ [ObligationNext]_obligationVars =>
        [\A l \in Links : payment_links[l].status \in {"cancelled", "expired"} =>
            /\ payment_links'[l].status \in {"cancelled", "expired"}
            /\ payment_links'[l].transfer_id = payment_links[l].transfer_id]_linkVars
  BY RowChanges
<1>2. QED
  BY <1>1, ObligationInvariance, PTL DEF ObligationSpec, ClosedLinksStayUnpaid
-----------------------------------------------------------------------------
(***************************************************************************)
(* The life of requests and links beside the payments takes nothing back:  *)
(* what holds of the handlers that move money holds of the whole system.   *)
(* It changes statuses only, so it moves no money, charges nobody, takes   *)
(* no lock that it keeps, answers no payment, and settles nothing.         *)
(***************************************************************************)
SystemInv == AnswersInv /\ LocksInv /\ CapInv /\ NoMoneyCreated /\ KeyMovesMoneyOnce

(* A step of the system is one of a money-moving handler, or changes a     *)
(* status at most.                                                         *)
LEMMA SystemSteps ==
    ASSUME ObligationInv, [ObligationNext]_obligationVars
    PROVE  [Next]_vars \/ (StatusStep /\ TypeOK')
BY LifeStepsAreStatusSteps DEF ObligationNext, obligationVars

(* A change of status leaves answers, locks, charges and money alone.      *)
LEMMA StatusStepsKeepSystem ==
    ASSUME SystemInv, StatusStep, TypeOK'
    PROVE  SystemInv'
<1> USE DEF SystemInv, AnswersInv
<1>1. UNCHANGED <<balances, transfers, ledger, tx_history, lockVars, redisVars, procVars>>
  BY DEF StatusStep
<1>2. IInv' /\ LedgerInv' /\ EntityInv'
  BY StatusStepsKeepHandlers DEF HandlerInv
<1>3. \A l \in Links : /\ payment_links'[l].transfer_id = payment_links[l].transfer_id
                       /\ payment_links'[l].claimer_id = payment_links[l].claimer_id
  BY DEF StatusStep
<1>4. AnswerInv'
  BY <1>1, <1>3 DEF AnswerInv, TransferRow, procVars
<1>5. TruthInv'
  <2>1. ASSUME NEW p \in Procs, TrueAnswer(p) PROVE TrueAnswer(p)'
    <3>1. job[p] \in Jobs /\ (job[p].kind = "claim" => job[p].entity \in Links)
      BY <2>1, JobFacts DEF TrueAnswer
    <3>2. UNCHANGED <<transfers, answer, job>>
      BY <1>1 DEF procVars
    <3>3. QED
      BY <1>3, <2>1, <3>1, <3>2 DEF TrueAnswer
  <2>2. QED
    BY <1>1, <2>1 DEF TruthInv, procVars
<1>6. LocksInv'
  BY <1>1 DEF LocksInv, LockInv, lockVars, procVars
<1>7. CapInv'
  BY <1>1 DEF CapInv, UserCap, SentBy, InFlight, TransferOutflow, Committing, redisVars, procVars
<1>8. NoMoneyCreated' /\ KeyMovesMoneyOnce'
  BY <1>1 DEF NoMoneyCreated, KeyMovesMoneyOnce, Legs
<1>9. QED
  BY <1>2, <1>4, <1>5, <1>6, <1>7, <1>8

(* What holds of the handlers alone holds of the whole system.             *)
LEMMA SystemInvariance == ObligationSpec => [](ObligationInv /\ SystemInv)
<1>1. ObligationInit => SystemInv
  BY InitAnswers, InitLocks, InitCap, InitMoney, InitKeys
  DEF ObligationInit, RequestInit, SystemInv
<1>2. ObligationInv /\ SystemInv /\ [ObligationNext]_obligationVars => SystemInv'
  <2> SUFFICES ASSUME ObligationInv, SystemInv, [ObligationNext]_obligationVars
               PROVE  SystemInv'
    OBVIOUS
  <2>1. CASE [Next]_vars
    <3>1. AnswersInv' /\ IInv'
      BY <2>1, AnswersStep DEF SystemInv, AnswersInv
    <3>2. QED
      BY <2>1, <3>1, LocksStep, CapStep, MoneyStep, KeysStep DEF SystemInv, AnswersInv
  <2>2. CASE StatusStep /\ TypeOK'
    BY <2>2, StatusStepsKeepSystem
  <2>3. QED
    BY <2>1, <2>2, SystemSteps
<1>3. QED
  BY <1>1, <1>2, ObligationInvariance, PTL DEF ObligationSpec

(* The whole system implements Bank: beside users who create, reject,      *)
(* cancel and view, a payment is still one step, covered, and made once.   *)
THEOREM SystemImplementsBank == ObligationSpec => ImplementsBank
<1>1. ObligationInit => B!BankInit
  BY InitBank DEF ObligationInit, RequestInit
<1>2. ObligationInv /\ [ObligationNext]_obligationVars => [B!BankNext]_(B!bankVars)
  <2> SUFFICES ASSUME ObligationInv, [ObligationNext]_obligationVars
               PROVE  [B!BankNext]_(B!bankVars)
    OBVIOUS
  <2>1. CASE [Next]_vars
    BY <2>1, BankStep DEF ObligationInv, HandlerInv
  <2>2. CASE StatusStep
    <3>1. Settled' = Settled
      BY <2>2 DEF StatusStep, Settled, EventRow
    <3>2. balances' = balances /\ Payments' = Payments
      BY <2>2 DEF StatusStep, Payments, Completed
    <3>3. QED
      BY <3>1, <3>2 DEF B!bankVars, Payments, Settled
  <2>3. QED
    BY <2>1, <2>2, SystemSteps
<1>3. QED
  BY <1>1, <1>2, ObligationInvariance, PTL DEF ObligationSpec, ImplementsBank, B!BankSpec

(* The books of the whole system: the ledger explains the balances, no     *)
(* paisa is created or lost, and each key pays once.                       *)
THEOREM SystemBooksBalance ==
    ObligationSpec => [](LedgerExplainsBalances /\ NoMoneyCreated /\ KeyMovesMoneyOnce)
<1>1. SystemInv => LedgerExplainsBalances /\ NoMoneyCreated /\ KeyMovesMoneyOnce
  BY BooksExplain DEF SystemInv, AnswersInv
<1>2. QED
  BY <1>1, SystemInvariance, PTL

(* The daily cap holds of a user's transfers in the whole system.          *)
THEOREM SystemDailyCap == ObligationSpec => []DailyCapHolds
<1>1. SystemInv => DailyCapHolds
  BY CapBounds DEF SystemInv, AnswersInv
<1>2. QED
  BY <1>1, SystemInvariance, PTL

(* No set of requests of the whole system waits on itself: rejecting,      *)
(* cancelling and expiring keep no lock while they wait for one.           *)
THEOREM SystemDeadlockFree == ObligationSpec => []NoDeadlock
<1>1. SystemInv => NoDeadlock
  BY NoCycle DEF SystemInv, AnswersInv
<1>2. QED
  BY <1>1, SystemInvariance, PTL

(* What a payer, acceptor or claimer was told stays true whatever becomes  *)
(* of the status of the request or link.                                   *)
THEOREM SystemAnswersTrue == ObligationSpec => []AnswersAreTrue
<1>1. SystemInv => AnswersAreTrue
  BY TrueAnswersSuffice DEF SystemInv, AnswersInv
<1>2. QED
  BY <1>1, SystemInvariance, PTL

(* No step of the whole system rewrites or drops a record of money.        *)
THEOREM SystemRecordsStay == ObligationSpec => RecordsArePermanent
<1>1. ObligationInv /\ [ObligationNext]_obligationVars => [RecordsKept]_vars
  <2> SUFFICES ASSUME ObligationInv, [ObligationNext]_obligationVars PROVE RecordsKept
    OBVIOUS
  <2>1. CASE [Next]_vars
    BY <2>1, RecordsStep DEF ObligationInv, HandlerInv
  <2>2. CASE StatusStep
    BY <2>2 DEF StatusStep, RecordsKept
  <2>3. QED
    BY <2>1, <2>2, SystemSteps
<1>2. QED
  BY <1>1, ObligationInvariance, PTL DEF ObligationSpec, RecordsArePermanent, RecordsKept
-----------------------------------------------------------------------------
(***************************************************************************)
(* The audit: on the live tables its contracts hold at every instant, and  *)
(* since it reads them one query after another, an alarm only means that   *)
(* payments of the user were committed meanwhile.                          *)
(***************************************************************************)
(* The rows of a user add up to the balance, and the first of them starts  *)
(* from zero.                                                              *)
RowsTotal(u) == SumFunctionOnSet([r \in ledger |-> Delta(r)], RowsOf(u))

BookInv ==
    \A u \in Users :
        /\ IsFiniteSet(RowsOf(u))
        /\ RowsTotal(u) = balances[u]
        /\ \E r \in RowsOf(u) : FirstRow(r, u) /\ r.running_balance = Delta(r)

(* The audit has met no error but of contract 1, goes through the users in *)
(* order, and remembers a part of the rows that explains what it read.     *)
AuditInv ==
    /\ audit \in [at : {"idle", "sum", "balance", "rows", "done"}, user : 0 .. NUsers]
    /\ audit.at \in {"idle", "sum"} => errors = {}
    /\ audit.at \in {"balance", "rows"} => audit.user \in Users
    /\ audited \in [Users -> SUBSET ledger]
    /\ \A u \in Users : audited[u] \subseteq RowsOf(u)
    /\ seen_balance \in [Users -> Nat \cup {NoBalance}]
    /\ audit.at = "rows" =>
          seen_balance[audit.user]
            = SumFunctionOnSet([r \in audited[audit.user] |-> Delta(r)], audited[audit.user])
    /\ \A e \in errors :
          /\ e.contract = 1 /\ e.user \in Users
          /\ RowsOf(e.user) # audited[e.user]
          /\ audit.at \in {"balance", "rows"} => e.user < audit.user
-----------------------------------------------------------------------------
(* Registration gives each user one row, from zero to the opening balance. *)
LEMMA InitBook == Init => BookInv
<1> SUFFICES ASSUME Init, NEW u \in Users
             PROVE  /\ IsFiniteSet(RowsOf(u))
                    /\ RowsTotal(u) = balances[u]
                    /\ \E r \in RowsOf(u) : FirstRow(r, u) /\ r.running_balance = Delta(r)
  BY DEF BookInv
<1> DEFINE opening == [id |-> u, user |-> u, direction |-> 1, amount |-> SEED_BALANCE_PAISA,
                       running_balance |-> SEED_BALANCE_PAISA, key |-> NoKey]
           f == [r \in ledger |-> Delta(r)]
<1>1. RowsOf(u) = {opening} /\ opening \in ledger
  BY DEF Init, RowsOf
<1>2. SEED_BALANCE_PAISA \in Int /\ u \in Nat
  BY AmountsAssumption, UsersAssumption DEF PaisaAmounts, Users
<1>3. Delta(opening) = SEED_BALANCE_PAISA
  BY <1>2 DEF Delta
<1>4. FirstRow(opening, u) /\ opening.running_balance = Delta(opening)
  BY <1>1, <1>2, <1>3 DEF FirstRow
<1>5. f[opening] = SEED_BALANCE_PAISA
  BY <1>1, <1>3
<1> HIDE DEF opening, f
<1>6. IsFiniteSet({opening}) /\ Cardinality({opening}) = 1
  BY FS_Singleton
<1>7. SumFunctionOnSet(f, {opening}) = SEED_BALANCE_PAISA
  <2>1. IsFiniteSet({}) /\ opening \notin {} /\ {} \cup {opening} = {opening}
    BY FS_EmptySet
  <2>2. SumFunctionOnSet(f, {} \cup {opening}) = f[opening] + SumFunctionOnSet(f, {})
    BY <1>2, <1>5, <2>1, SumAdd
  <2>3. QED
    BY <1>2, <1>5, <2>1, <2>2, SumEmpty
<1>8. balances[u] = SEED_BALANCE_PAISA
  BY DEF Init
<1>9. QED
  BY <1>1, <1>4, <1>6, <1>7, <1>8 DEF RowsTotal, f

(* Every row moves its user by a whole number of paisa.                    *)
LEMMA DeltaType ==
    ASSUME NEW r \in LedgerRows
    PROVE  Delta(r) \in Int /\ r.id \in Nat
<1>1. r.amount \in Nat /\ r.direction \in {-1, 1} /\ r.id \in Nat
  BY DEF LedgerRows, PaisaAmounts
<1>2. r.amount * 1 = r.amount /\ r.amount * (-1) = -r.amount
  BY <1>1
<1>3. QED
  BY <1>1, <1>2 DEF Delta

(* A new row of a user, after all the others, adds its movement.           *)
LEMMA BookGrows ==
    ASSUME IInv, IInv', BookInv, NEW u \in Users, NEW row \in ledger', row \notin ledger,
           ledger \subseteq ledger', RowsOf(u)' = RowsOf(u) \cup {row},
           \A t \in RowsOf(u) : t.id < row.id, balances'[u] = balances[u] + Delta(row)
    PROVE  /\ IsFiniteSet(RowsOf(u)')
           /\ RowsTotal(u)' = balances'[u]
           /\ \E r \in RowsOf(u)' : FirstRow(r, u)' /\ r.running_balance = Delta(r)
<1> DEFINE f == [r \in ledger |-> Delta(r)]
           g == [r \in ledger' |-> Delta(r)]
<1>1. IsFiniteSet(RowsOf(u)) /\ RowsTotal(u) = balances[u] /\ IsFiniteSet(RowsOf(u) \cup {row})
  BY FS_AddElement DEF BookInv
<1>2. /\ row \notin RowsOf(u) /\ row \in LedgerRows
      /\ \A r \in RowsOf(u) : r \in ledger /\ r \in LedgerRows
  BY DEF RowsOf, IInv, TypeOK
<1>3. \A r \in RowsOf(u) : f[r] = g[r]
  BY <1>2
<1>4. g[row] = Delta(row) /\ \A r \in RowsOf(u) \cup {row} : g[r] \in Int
  <2>1. g[row] = Delta(row)
    OBVIOUS
  <2>2. \A r \in RowsOf(u) : g[r] = Delta(r)
    BY <1>2
  <2>3. QED
    BY <1>2, <2>1, <2>2, DeltaType
<1>5. /\ RowsTotal(u) = SumFunctionOnSet(f, RowsOf(u))
      /\ RowsTotal(u)' = SumFunctionOnSet(g, RowsOf(u) \cup {row})
  BY DEF RowsTotal
<1> HIDE DEF f, g
<1>6. SumFunctionOnSet(f, RowsOf(u)) = SumFunctionOnSet(g, RowsOf(u))
  BY <1>1, <1>3, SumAgree
<1>7. SumFunctionOnSet(g, RowsOf(u) \cup {row}) = g[row] + SumFunctionOnSet(g, RowsOf(u))
  BY <1>1, <1>2, <1>4, SumAdd
<1>8. balances[u] \in Int /\ Delta(row) \in Int
  BY <1>2, DeltaType DEF IInv, TypeOK
<1>9. RowsTotal(u)' = balances'[u]
  BY <1>1, <1>4, <1>5, <1>6, <1>7, <1>8
<1>10. PICK first \in RowsOf(u) : FirstRow(first, u) /\ first.running_balance = Delta(first)
  BY DEF BookInv
<1>11. FirstRow(first, u)'
  <2>1. first.id \in Nat /\ row.id \in Nat
    BY <1>2, <1>10, DeltaType
  <2>2. QED
    BY <1>2, <1>10, <2>1 DEF FirstRow
<1>12. QED
  BY <1>1, <1>9, <1>10, <1>11

(* Where neither the rows nor the balance of a user change, nothing does.  *)
LEMMA BookStays ==
    ASSUME BookInv, NEW u \in Users,
           ledger \subseteq ledger', RowsOf(u)' = RowsOf(u), balances'[u] = balances[u]
    PROVE  /\ IsFiniteSet(RowsOf(u)')
           /\ RowsTotal(u)' = balances'[u]
           /\ \E r \in RowsOf(u)' : FirstRow(r, u)' /\ r.running_balance = Delta(r)
<1> DEFINE f == [r \in ledger |-> Delta(r)]
           g == [r \in ledger' |-> Delta(r)]
<1>1. IsFiniteSet(RowsOf(u)) /\ RowsTotal(u) = balances[u]
  BY DEF BookInv
<1>2. \A r \in RowsOf(u) : f[r] = g[r]
  BY DEF RowsOf
<1>3. RowsTotal(u) = SumFunctionOnSet(f, RowsOf(u)) /\ RowsTotal(u)' = SumFunctionOnSet(g, RowsOf(u))
  BY DEF RowsTotal
<1> HIDE DEF f, g
<1>4. RowsTotal(u)' = RowsTotal(u)
  BY <1>1, <1>2, <1>3, SumAgree
<1>5. QED
  BY <1>1, <1>4 DEF BookInv, FirstRow

(* Every step of a payment keeps the books.                                *)
LEMMA BookStep == IInv /\ IInv' /\ LedgerInv /\ BookInv /\ [Next]_vars => BookInv'
<1> SUFFICES ASSUME IInv, IInv', LedgerInv, BookInv, [Next]_vars, NEW u \in Users
             PROVE  /\ IsFiniteSet(RowsOf(u)')
                    /\ RowsTotal(u)' = balances'[u]
                    /\ \E r \in RowsOf(u)' : FirstRow(r, u)' /\ r.running_balance = Delta(r)
  BY DEF BookInv, Users
<1>1. ASSUME NEW p \in Procs, Commit(p)
      PROVE  /\ IsFiniteSet(RowsOf(u)')
             /\ RowsTotal(u)' = balances'[u]
             /\ \E r \in RowsOf(u)' : FirstRow(r, u)' /\ r.running_balance = Delta(r)
  <2> DEFINE j == job[p]
             d == LedgerRow(ids[p].debit, Payer(j), -1, j, NewPayerBalance(p))
             c == LedgerRow(ids[p].credit, Payee(j), 1, j, NewPayeeBalance(p))
  <2>1. ledger' = ledger \cup {d, c}
    BY <1>1 DEF Commit
  <2>2. /\ Payer(j) \in Users /\ Payee(j) \in Users /\ Payer(j) # Payee(j) /\ Amount(j) \in Nat
        /\ balances' = [balances EXCEPT ![Payer(j)] = balances[Payer(j)] - Amount(j),
                                        ![Payee(j)] = balances[Payee(j)] + Amount(j)]
    BY <1>1, CommitBalances
  <2>3. /\ ids[p].debit < ids[p].credit /\ ids[p].debit \in Nat /\ ids[p].credit \in Nat
        /\ \A t \in ledger : t.user \in {Payer(j), Payee(j)} =>
              t.id \in Nat /\ t.id < ids[p].debit
    BY <1>1, CommitFacts
  <2>4. /\ d.user = Payer(j) /\ d.id = ids[p].debit /\ Delta(d) = 0 - Amount(j)
        /\ c.user = Payee(j) /\ c.id = ids[p].credit /\ Delta(c) = Amount(j)
    BY <2>2 DEF LedgerRow, Delta
  <2>5. balances \in [Users -> Int]
    BY DEF IInv, TypeOK
  <2> HIDE DEF d, c, j
  <2>6. d \notin ledger /\ c \notin ledger
    BY <2>3, <2>4
  <2>7. CASE u = Payer(j)
    <3>1. /\ d \in ledger' /\ ledger \subseteq ledger' /\ RowsOf(u)' = RowsOf(u) \cup {d}
          /\ \A t \in RowsOf(u) : t.id < d.id
      BY <2>1, <2>2, <2>3, <2>4, <2>7 DEF RowsOf
    <3>2. balances'[u] = balances[u] + Delta(d)
      BY <2>2, <2>4, <2>5, <2>7
    <3>3. QED
      BY <2>6, <3>1, <3>2, BookGrows
  <2>8. CASE u = Payee(j)
    <3>1. /\ c \in ledger' /\ ledger \subseteq ledger' /\ RowsOf(u)' = RowsOf(u) \cup {c}
          /\ \A t \in RowsOf(u) : t.id < c.id
      BY <2>1, <2>2, <2>3, <2>4, <2>8 DEF RowsOf
    <3>2. balances'[u] = balances[u] + Delta(c)
      BY <2>2, <2>4, <2>5, <2>8
    <3>3. QED
      BY <2>6, <3>1, <3>2, BookGrows
  <2>9. CASE u # Payer(j) /\ u # Payee(j)
    <3>1. ledger \subseteq ledger' /\ RowsOf(u)' = RowsOf(u)
      BY <2>1, <2>4, <2>9 DEF RowsOf
    <3>2. balances'[u] = balances[u]
      BY <2>2, <2>5, <2>9
    <3>3. QED
      BY <3>1, <3>2, BookStays
  <2>10. QED
    BY <2>7, <2>8, <2>9
<1>2. CASE \A p \in Procs : ~Commit(p)
  <2>1. balances' = balances /\ ledger' = ledger
    BY <1>2, OthersKeepRecords DEF CommitRefused
  <2>2. QED
    BY <2>1, BookStays DEF RowsOf
<1>3. QED
  BY <1>1, <1>2

(* So they are right in every state.                                       *)
LEMMA BookInvariance == Spec => [](IInv /\ LedgerInv /\ BookInv)
BY InitBook, BookStep, LedgerInvariance, PTL DEF Spec

(* A running balance follows from the row before, also as the audit counts. *)
LEMMA NoChainBroken ==
    ASSUME IInv, LedgerInv, BookInv, NEW u \in Users
    PROVE  ~ChainBroken(u)
<1>1. ASSUME NEW r \in RowsOf(u), FirstRow(r, u) PROVE r.running_balance = Delta(r)
  <2>1. PICK first \in RowsOf(u) : FirstRow(first, u) /\ first.running_balance = Delta(first)
    BY DEF BookInv
  <2>2. r.id \in Nat /\ first.id \in Nat /\ r.id <= first.id /\ first.id <= r.id
    BY <1>1, <2>1 DEF FirstRow, RowsOf, IInv, TypeOK, LedgerRows
  <2>3. r.id = first.id
    BY <2>2
  <2>4. r = first
    BY <2>3 DEF LedgerInv, RowIds, RowsOf
  <2>5. QED
    BY <2>1, <2>4
<1>2. ASSUME NEW r \in RowsOf(u), NEW s \in RowsOf(u), Precedes(r, s)
      PROVE  s.running_balance = r.running_balance + Delta(s)
  <2>1. r \in ledger /\ s \in ledger /\ s.amount \in Nat /\ s.direction \in {-1, 1}
    BY DEF RowsOf, IInv, TypeOK, LedgerRows, PaisaAmounts
  <2>2. s.running_balance = r.running_balance + s.direction * s.amount
    BY <1>2, <2>1 DEF LedgerInv, Chains
  <2>3. s.direction * s.amount = s.amount * s.direction
    BY <2>1
  <2>4. QED
    BY <2>2, <2>3 DEF Delta
<1>3. QED
  BY <1>1, <1>2 DEF ChainBroken

(* A sum over the rows depends on these rows only, not on what else the    *)
(* ledger holds.                                                           *)
LEMMA RowsTotalOfRows ==
    ASSUME NEW u, IsFiniteSet(RowsOf(u))
    PROVE  RowsTotal(u) = SumFunctionOnSet([r \in RowsOf(u) |-> Delta(r)], RowsOf(u))
<1> DEFINE f == [r \in ledger |-> Delta(r)]
           g == [r \in RowsOf(u) |-> Delta(r)]
<1>1. \A r \in RowsOf(u) : f[r] = g[r]
  BY DEF RowsOf
<1> HIDE DEF f, g
<1>2. SumFunctionOnSet(f, RowsOf(u)) = SumFunctionOnSet(g, RowsOf(u))
  BY <1>1, SumAgree
<1>3. QED
  BY <1>2 DEF RowsTotal, f, g

(* Payments only add rows, so what was remembered stays a part of them and *)
(* a difference, once there, remains.                                      *)
LEMMA PaymentsKeepAudit ==
    ASSUME IInv, AuditInv, ledger \subseteq ledger',
           UNCHANGED <<audit, seen_balance, errors, audited>>
    PROVE  AuditInv'
<1>1. \A u \in Users : RowsOf(u) \subseteq RowsOf(u)'
  BY DEF RowsOf
<1>2. ASSUME NEW e \in errors PROVE RowsOf(e.user)' # audited[e.user]
  <2>1. PICK u \in Users : u = e.user
    BY DEF AuditInv
  <2>2. audited[u] \subseteq RowsOf(u) /\ RowsOf(u) # audited[u]
    BY <2>1 DEF AuditInv
  <2>3. RowsOf(u)' # audited[u]
    BY <1>1, <2>2
  <2>4. QED
    BY <2>1, <2>3
<1>3. audited \in [Users -> SUBSET ledger']
  BY DEF AuditInv
<1>4. \A u \in Users : audited[u] \subseteq RowsOf(u)'
  BY <1>1 DEF AuditInv
<1>5. QED
  BY <1>2, <1>3, <1>4 DEF AuditInv, Users

(* The next user is a later one.                                           *)
LEMMA NextUserLater ==
    ASSUME NEW u \in 0 .. NUsers
    PROVE  /\ NextUser(u) \in [at : {"idle", "sum", "balance", "rows", "done"}, user : 0 .. NUsers]
           /\ NextUser(u).at \in {"balance", "done"}
           /\ NextUser(u).at = "balance" => NextUser(u).user \in Users /\ NextUser(u).user = u + 1
BY UsersAssumption DEF NextUser, Users

(* A step of the audit keeps its invariant.                                *)
LEMMA AuditStep ==
    ASSUME IInv, LedgerInv, BookInv, NoMoneyCreated, AuditInv, Audit
    PROVE  AuditInv'
<1>1. ledger' = ledger /\ balances' = balances
  BY DEF Audit, BeginAudit, CheckTotal, ReadUserBalance, CheckRows, bankState, dbVars
<1>2. \A u : RowsOf(u)' = RowsOf(u)
  BY <1>1 DEF RowsOf
<1>3. CASE BeginAudit
  BY <1>1, <1>2, <1>3, UsersAssumption DEF BeginAudit, AuditInv
<1>4. CASE CheckTotal
  <2>1. errors' = errors /\ errors = {}
    BY <1>4 DEF CheckTotal, Balances, NoMoneyCreated, AuditInv
  <2>2. audit' = NextUser(0) /\ 0 \in 0 .. NUsers
    BY <1>4, UsersAssumption DEF CheckTotal
  <2>3. QED
    BY <1>1, <1>2, <1>4, <2>1, <2>2, NextUserLater DEF CheckTotal, AuditInv
<1>5. CASE ReadUserBalance
  <2> DEFINE u == audit.user
  <2>1. /\ u \in Users /\ audit.at = "balance"
        /\ seen_balance' = [seen_balance EXCEPT ![u] = balances[u]]
        /\ audited' = [audited EXCEPT ![u] = RowsOf(u)]
        /\ audit' = [audit EXCEPT !.at = "rows"] /\ errors' = errors
    BY <1>5 DEF ReadUserBalance, AuditInv
  <2>2. balances[u] = SumFunctionOnSet([r \in RowsOf(u) |-> Delta(r)], RowsOf(u))
    BY <2>1, RowsTotalOfRows DEF BookInv
  <2>3. audit'.at = "rows" /\ audit'.user = u
        /\ audit' \in [at : {"idle", "sum", "balance", "rows", "done"}, user : 0 .. NUsers]
    BY <2>1 DEF AuditInv
  <2>4. audited' \in [Users -> SUBSET ledger] /\ \A v \in Users : audited'[v] \subseteq RowsOf(v)
    BY <2>1 DEF AuditInv, RowsOf
  <2>5. seen_balance' \in [Users -> Nat \cup {NoBalance}]
    BY <2>1 DEF AuditInv, IInv, TypeOK
  <2>6. seen_balance'[u]
          = SumFunctionOnSet([r \in audited'[u] |-> Delta(r)], audited'[u])
    BY <2>1, <2>2 DEF AuditInv
  <2>7. \A e \in errors : e.user < u /\ audited'[e.user] = audited[e.user]
    BY <2>1 DEF AuditInv, Users
  <2> HIDE DEF u
  <2>8. QED
    BY <1>1, <1>2, <2>1, <2>3, <2>4, <2>5, <2>6, <2>7 DEF AuditInv
<1>6. CASE CheckRows
  <2> DEFINE u == audit.user
             found == [contract |-> 1, user |-> u]
  <2>1. /\ u \in Users /\ audit.at = "rows" /\ audit' = NextUser(u)
        /\ UNCHANGED <<seen_balance, audited>>
        /\ errors \subseteq errors' /\ errors' \subseteq errors \cup {found}
        /\ found \in errors' => found \in errors \/ RowsTotal(u) # seen_balance[u]
    BY <1>6, NoChainBroken DEF CheckRows, AuditInv, RowsTotal
  <2>2. found \in errors' => RowsOf(u) # audited[u]
    <3>1. found \notin errors
      BY <2>1 DEF AuditInv, Users
    <3>2. RowsOf(u) = audited[u] => RowsTotal(u) = seen_balance[u]
      BY <2>1, RowsTotalOfRows DEF AuditInv, BookInv
    <3>3. QED
      BY <2>1, <3>1, <3>2
  <2>3. u \in 0 .. NUsers
    BY <2>1 DEF Users
  <2>4. \A e \in errors' : /\ e.contract = 1 /\ e.user \in Users
                           /\ RowsOf(e.user) # audited[e.user]
                           /\ e.user <= u
    BY <2>1, <2>2 DEF AuditInv, Users
  <2>5. /\ audit' \in [at : {"idle", "sum", "balance", "rows", "done"}, user : 0 .. NUsers]
        /\ audit'.at \in {"balance", "done"}
        /\ audit'.at = "balance" => audit'.user \in Users /\ audit'.user = u + 1
    BY <2>1, <2>3, NextUserLater
  <2>6. ASSUME NEW e \in errors', audit'.at \in {"balance", "rows"} PROVE e.user < audit'.user
    <3>1. e.user <= u /\ audit'.user = u + 1
      BY <2>4, <2>5, <2>6
    <3>2. e.user \in Nat /\ u \in Nat
      BY <2>1, <2>4, UsersAssumption DEF Users
    <3> HIDE DEF u
    <3>3. QED
      BY <3>1, <3>2
  <2> HIDE DEF u, found
  <2>7. QED
    BY <1>1, <1>2, <2>1, <2>4, <2>5, <2>6 DEF AuditInv
<1>7. QED
  BY <1>3, <1>4, <1>5, <1>6 DEF Audit

(* The audit runs beside the handlers, so what holds of them holds here.   *)
LEMMA AuditRefines == AuditSpec => Spec
<1>1. AuditInit => Init
  BY DEF AuditInit
<1>2. [AuditNext]_auditVars => [Next]_vars
  BY DEF AuditNext, Audit, BeginAudit, CheckTotal, ReadUserBalance, CheckRows, auditVars,
         bankState, vars
<1>3. QED
  BY <1>1, <1>2, PTL DEF AuditSpec, Spec

(* So it holds throughout the audit.                                       *)
LEMMA AuditInvariance == AuditSpec => []AuditInv
<1>1. AuditInit => AuditInv
  BY UsersAssumption DEF AuditInit, AuditInv
<1>2. /\ IInv /\ LedgerInv /\ BookInv /\ NoMoneyCreated /\ AuditInv
      /\ [AuditNext]_auditVars /\ (ledger \subseteq ledger')
      => AuditInv'
  <2> SUFFICES ASSUME IInv, LedgerInv, BookInv, NoMoneyCreated, AuditInv,
                      [AuditNext]_auditVars, ledger \subseteq ledger'
               PROVE  AuditInv'
    OBVIOUS
  <2>1. CASE Audit
    BY <2>1, AuditStep
  <2>2. CASE UNCHANGED <<audit, seen_balance, errors, audited>>
    BY <2>2, PaymentsKeepAudit
  <2>3. QED
    BY <2>1, <2>2 DEF AuditNext, auditVars
<1>3. RecordsArePermanent => [][ledger \subseteq ledger']_vars
  <2>1. [RecordsKept]_vars => [ledger \subseteq ledger']_vars
    BY DEF RecordsKept
  <2>2. QED
    BY <2>1, PTL DEF RecordsArePermanent, RecordsKept
<1>4. [ledger \subseteq ledger']_vars => ledger \subseteq ledger'
  BY DEF vars, dbVars
<1>5. QED
  BY <1>1, <1>2, <1>3, <1>4, AuditRefines, RecordsStay, BookInvariance, MoneyConserved, PTL
  DEF AuditSpec

(* Beside any payments, the audit never misjudges the total or the chains. *)
THEOREM TotalsAndChainsHold == AuditSpec => []TotalsAndChainsHoldLive
<1>1. AuditInv => TotalsAndChainsHoldLive
  BY DEF AuditInv, TotalsAndChainsHoldLive
<1>2. QED
  BY <1>1, AuditInvariance, PTL

(* It reports a balance only for a user whose ledger has grown since.      *)
THEOREM AlarmsMeanMovement == AuditSpec => []AlarmMeansMovement
<1>1. AuditInv => AlarmMeansMovement
  BY DEF AuditInv, AlarmMeansMovement
<1>2. QED
  BY <1>1, AuditInvariance, PTL
=============================================================================

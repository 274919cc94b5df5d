--------------------------- MODULE MoneyMovement ---------------------------
(***************************************************************************)
(* The three handlers that move money, as concurrent requests against one  *)
(* Postgres database (READ COMMITTED) and one Redis counter:               *)
(*                                                                         *)
(*   process_transfer  src/src/features/transfers/service.rs               *)
(*   accept_request    src/src/features/requests/service.rs                *)
(*   claim_link        src/src/features/links/service.rs                   *)
(*                                                                         *)
(* One action is one statement that other requests can observe or be       *)
(* blocked by.  What a transaction writes before COMMIT is visible to it   *)
(* alone, so it is kept in the request's own variables (read, ids) and the *)
(* tables change in the Commit actions.  Row locks are held to the end of  *)
(* the transaction.  An INSERT whose idempotency key is in another open    *)
(* transaction waits for that transaction, as a UNIQUE index makes it.     *)
(*                                                                         *)
(* A request enters after its PIN was verified, its amount parsed and its  *)
(* recipient resolved: those steps touch none of the state kept here.      *)
(***************************************************************************)
EXTENDS Integers, FiniteSets, Functions

CONSTANTS
    NUsers,              \* users are 1..NUsers, numbered in the order of their ids
    Procs,               \* requests the server can have in flight
    Keys,                \* idempotency keys chosen by the clients
    Requests, Links,     \* money requests and payment links already created
    RequestRow, LinkRow, \* their immutable columns
    Jobs,                \* the calls the clients may make
    SEED_BALANCE_PAISA, PER_TRANSFER_CAP_PAISA, DAILY_OUTFLOW_CAP_PAISA,
    MaxCalls,            \* bound on the calls made in a behaviour
    NoProc, NoUser, NoKey, NoEntity

Users == 1..NUsers
Entities == Requests \cup Links
PaisaAmounts == Nat \ {0}

TransferJobs == {j \in [kind : {"transfer"}, actor : Users, recipient : Users,
                        amount : PaisaAmounts, entity : {NoEntity}, key : Keys] :
                    j.actor # j.recipient}
AcceptJobs == [kind : {"accept"}, actor : Users, entity : Requests, key : Keys]
ClaimJobs == [kind : {"claim"}, actor : Users, entity : Links, key : Keys]

ASSUME UsersAssumption == NUsers \in Nat
ASSUME NullsAssumption ==
    /\ NoProc \notin Procs
    /\ NoKey \notin Keys
    /\ NoEntity \notin Entities
    /\ NoUser \notin Users
    /\ Requests \cap Links = {}
ASSUME RowsAssumption ==
    /\ RequestRow \in [Requests -> [requester : Users, debtor : Users, amount : PaisaAmounts]]
    /\ \A r \in Requests : RequestRow[r].requester # RequestRow[r].debtor
    /\ LinkRow \in [Links -> [creator : Users, amount : PaisaAmounts]]
ASSUME JobsAssumption == \A j \in Jobs : j \in TransferJobs \cup AcceptJobs \cup ClaimJobs
ASSUME AmountsAssumption ==
    /\ SEED_BALANCE_PAISA \in PaisaAmounts
    /\ PER_TRANSFER_CAP_PAISA \in Nat
    /\ DAILY_OUTFLOW_CAP_PAISA \in Nat
    /\ MaxCalls \in Nat

VARIABLES
    \* committed tables
    balances,        \* balances[u]: amount_paisa
    transfers,       \* transfers[k]: the row with idempotency_key k, or NoRow
    ledger,          \* rows of the ledger
    tx_history,      \* rows of the read model
    process_events,  \* rows of the event log that concern entities and transfers
    money_requests,  \* money_requests[r]: status
    payment_links,   \* payment_links[l]: status, claimer_id, transfer_id
    \* database state that survives no transaction, or every one
    ledger_seq,      \* next id of the BIGSERIAL column: never rolled back
    balance_lock,    \* balance_lock[u]: the request holding the row FOR UPDATE
    entity_lock,     \* the same for money_requests and payment_links rows
    key_lock,        \* key_lock[k]: the open transaction that inserted key k
    \* Redis
    daily_outflow,   \* daily_outflow[u]: the velocity counter of the day
    failed_open,     \* keys of the transfers a failed INCR let on (nothing reads it back)
    \* the clock
    lapsed,          \* links whose expires_at has passed
    \* requests in flight
    pc, job, read, ids, answer, calls,
    \* NATS
    published        \* keys of the transfers announced on events.transfer

dbVars == <<balances, transfers, ledger, tx_history, process_events,
            money_requests, payment_links>>
lockVars == <<balance_lock, entity_lock, key_lock>>
redisVars == <<daily_outflow, failed_open>>
procVars == <<pc, job, read, ids, answer, calls>>
vars == <<dbVars, ledger_seq, lockVars, redisVars, lapsed, procVars, published>>

NoRow == [status |-> "none"]
NoJob == [kind |-> "none"]
NoRead == [payer |-> 0, payee |-> 0]
NoIds == [debit |-> 0, credit |-> 0]

MoneySteps == {"lock_first", "lock_second", "update", "insert_transfer",
               "ledger_debit", "ledger_credit", "commit"}
RefusalSteps == {"insert_refused", "read_balance", "commit_refused"}
Steps == MoneySteps \cup RefusalSteps
            \cup {"lookup_key", "incr_velocity", "lock_entity", "read_entity", "publish"}
Answers == {"none", "completed", "replay", "conflict", "rejected", "flagged",
            "insufficient", "forbidden", "gone", "own_link", "error"}
-----------------------------------------------------------------------------
(* Who pays whom and how much: process_transfer takes it from the request, *)
(* the other two from the locked row.                                      *)
Payer(j) == CASE j.kind = "transfer" -> j.actor
              [] j.kind = "accept"   -> RequestRow[j.entity].debtor
              [] j.kind = "claim"    -> LinkRow[j.entity].creator
Payee(j) == CASE j.kind = "transfer" -> j.recipient
              [] j.kind = "accept"   -> RequestRow[j.entity].requester
              [] j.kind = "claim"    -> j.actor
Amount(j) == CASE j.kind = "transfer" -> j.amount
               [] j.kind = "accept"   -> RequestRow[j.entity].amount
               [] j.kind = "claim"    -> LinkRow[j.entity].amount

(* The ascending order of user ids in which both balance rows are locked.  *)
PayerFirst_Always(j) == TRUE                    \* mutant: payer's row first

PayerFirst(j) == Payer(j) < Payee(j)
FirstToLock(j) == IF PayerFirst(j) THEN Payer(j) ELSE Payee(j)
SecondToLock(j) == IF PayerFirst(j) THEN Payee(j) ELSE Payer(j)

NewPayerBalance(p) == read[p].payer - Amount(job[p])
NewPayeeBalance(p) == read[p].payee + Amount(job[p])

(* What register_user left behind, once for each user.                     *)
Init ==
    /\ balances = [u \in Users |-> SEED_BALANCE_PAISA]
    /\ transfers = [k \in Keys |-> NoRow]
    /\ ledger = {[id |-> u, user |-> u, direction |-> 1, amount |-> SEED_BALANCE_PAISA,
                  running_balance |-> SEED_BALANCE_PAISA, key |-> NoKey] : u \in Users}
    /\ tx_history = {[user |-> u, status |-> "completed", kind |-> "funding", direction |-> 1,
                      amount |-> SEED_BALANCE_PAISA, balance_after |-> SEED_BALANCE_PAISA,
                      key |-> NoKey] : u \in Users}
    /\ process_events = {}
    /\ money_requests = [r \in Requests |-> "pending"]
    /\ payment_links = [l \in Links |->
            [status |-> "active", claimer_id |-> NoUser, transfer_id |-> NoKey]]
    /\ ledger_seq = NUsers + 1
    /\ balance_lock = [u \in Users |-> NoProc]
    /\ entity_lock = [e \in Entities |-> NoProc]
    /\ key_lock = [k \in Keys |-> NoProc]
    /\ daily_outflow = [u \in Users |-> 0]
    /\ failed_open = {}
    /\ lapsed = {}
    /\ pc = [p \in Procs |-> "idle"]
    /\ job = [p \in Procs |-> NoJob]
    /\ read = [p \in Procs |-> NoRead]
    /\ ids = [p \in Procs |-> NoIds]
    /\ answer = [p \in Procs |-> "none"]
    /\ calls = 0
    /\ published = {}
-----------------------------------------------------------------------------
Goto(p, step) == pc' = [pc EXCEPT ![p] = step]

(* The response of the handler; what it read dies with it.                 *)
Finish(p, outcome) ==
    /\ pc' = [pc EXCEPT ![p] = "idle"]
    /\ answer' = [answer EXCEPT ![p] = outcome]
    /\ read' = [read EXCEPT ![p] = NoRead]
    /\ ids' = [ids EXCEPT ![p] = NoIds]
    /\ UNCHANGED <<job, calls>>

(* The end of a transaction, by COMMIT or by ROLLBACK.                     *)
ReleaseLocks(p) ==
    /\ balance_lock' = [u \in Users |-> IF balance_lock[u] = p THEN NoProc ELSE balance_lock[u]]
    /\ entity_lock' = [e \in Entities |-> IF entity_lock[e] = p THEN NoProc ELSE entity_lock[e]]
    /\ key_lock' = [k \in Keys |-> IF key_lock[k] = p THEN NoProc ELSE key_lock[k]]

Rollback_Leaks(p, outcome) ==                   \* mutant: transaction left open
    /\ Finish(p, outcome)
    /\ UNCHANGED <<dbVars, lockVars, ledger_seq, redisVars, lapsed, published>>

(* A return while a transaction is open drops it, which rolls it back.     *)
Rollback(p, outcome) ==
    /\ ReleaseLocks(p)
    /\ Finish(p, outcome)
    /\ UNCHANGED <<dbVars, ledger_seq, redisVars, lapsed, published>>

(* A client calls; a retry of an earlier call is the same job again.       *)
Start(p) ==
    /\ pc[p] = "idle"
    /\ calls < MaxCalls
    /\ calls' = calls + 1
    /\ \E j \in Jobs :
        /\ job' = [job EXCEPT ![p] = j]
        /\ Goto(p, IF j.kind = "transfer" THEN "lookup_key" ELSE "lock_entity")
    /\ answer' = [answer EXCEPT ![p] = "none"]
    /\ UNCHANGED <<dbVars, ledger_seq, lockVars, redisVars, lapsed, read, ids, published>>

(* Step 5 of process_transfer, an unlocked SELECT by idempotency key.      *)
SamePayload(row, j) ==
    /\ row.sender = Payer(j)
    /\ row.recipient = Payee(j)
    /\ row.amount = Amount(j)

LookupKey_AnyPayload(p) ==                      \* mutant: payload not compared
    /\ pc[p] = "lookup_key"
    /\ \/ /\ transfers[job[p].key] = NoRow
          /\ Goto(p, "incr_velocity")
          /\ UNCHANGED <<job, read, ids, answer, calls>>
       \/ transfers[job[p].key] # NoRow /\ Finish(p, "replay")
    /\ UNCHANGED <<dbVars, ledger_seq, lockVars, redisVars, lapsed, published>>

LookupKey(p) ==
    /\ pc[p] = "lookup_key"
    /\ LET row == transfers[job[p].key] IN
        \/ /\ row = NoRow
           /\ Goto(p, IF Amount(job[p]) > PER_TRANSFER_CAP_PAISA
                        THEN "insert_refused" ELSE "incr_velocity")
           /\ UNCHANGED <<job, read, ids, answer, calls>>
        \/ /\ row # NoRow
           /\ Finish(p, IF SamePayload(row, job[p]) THEN "replay" ELSE "conflict")
    /\ UNCHANGED <<dbVars, ledger_seq, lockVars, redisVars, lapsed, published>>

IncrVelocity_OldTotal(p) ==                     \* mutant: total before this transfer
    /\ pc[p] = "incr_velocity"
    /\ LET u == Payer(job[p]) IN
        /\ daily_outflow' = [daily_outflow EXCEPT ![u] = @ + Amount(job[p])]
        /\ Goto(p, IF daily_outflow[u] > DAILY_OUTFLOW_CAP_PAISA
                     THEN "insert_refused" ELSE "lock_first")
    /\ UNCHANGED <<dbVars, ledger_seq, lockVars, failed_open, lapsed, job, read, ids, answer,
                   calls, published>>

(* Step 7: INCR the counter of the day, then look at the result.  A Redis  *)
(* error, reported whether or not the INCR took effect, reads as zero.     *)
IncrVelocity(p) ==
    /\ pc[p] = "incr_velocity"
    /\ LET u == Payer(job[p])
           incremented == [daily_outflow EXCEPT ![u] = @ + Amount(job[p])]
       IN  \/ /\ daily_outflow' = incremented
              /\ failed_open' = failed_open
              /\ Goto(p, IF daily_outflow'[u] > DAILY_OUTFLOW_CAP_PAISA
                           THEN "insert_refused" ELSE "lock_first")
           \/ /\ daily_outflow' \in {daily_outflow, incremented}
              /\ failed_open' = failed_open \cup {job[p].key}
              /\ Goto(p, "lock_first")
    /\ UNCHANGED <<dbVars, ledger_seq, lockVars, lapsed, job, read, ids, answer, calls, published>>

(* The refusals of steps 6 and 7 are recorded under the key they came with. *)
RefusedStatus(j) == IF Amount(j) > PER_TRANSFER_CAP_PAISA THEN "rejected" ELSE "flagged"

InsertKey_Upsert(p, next) ==                    \* mutant: ON CONFLICT DO UPDATE
    /\ key_lock[job[p].key] = NoProc
    /\ key_lock' = [key_lock EXCEPT ![job[p].key] = p]
    /\ Goto(p, next)
    /\ UNCHANGED <<dbVars, ledger_seq, balance_lock, entity_lock, redisVars, lapsed,
                   job, read, ids, answer, calls, published>>

InsertKey(p, next) ==
    /\ transfers[job[p].key] = NoRow
    /\ key_lock[job[p].key] = NoProc
    /\ key_lock' = [key_lock EXCEPT ![job[p].key] = p]
    /\ Goto(p, next)
    /\ UNCHANGED <<dbVars, ledger_seq, balance_lock, entity_lock, redisVars, lapsed,
                   job, read, ids, answer, calls, published>>

InsertRefused(p) == pc[p] = "insert_refused" /\ InsertKey(p, "read_balance")

ReadBalance(p) ==
    /\ pc[p] = "read_balance"
    /\ read' = [read EXCEPT ![p].payer = balances[Payer(job[p])]]
    /\ Goto(p, "commit_refused")
    /\ UNCHANGED <<dbVars, ledger_seq, lockVars, redisVars, lapsed, job, ids, answer, calls,
                   published>>

TransferRow(j, status) ==
    [sender |-> Payer(j), recipient |-> Payee(j), amount |-> Amount(j), status |-> status]
HistoryRow(u, j, status, direction, after) ==
    [user |-> u, status |-> status, kind |-> j.kind, direction |-> direction,
     amount |-> Amount(j), balance_after |-> after, key |-> j.key]
EventRow(e, type, k) == [entity |-> e, type |-> type, key |-> k]

CommitRefused(p) ==
    /\ pc[p] = "commit_refused"
    /\ LET j == job[p]
           status == RefusedStatus(j)
       IN  /\ transfers' = [transfers EXCEPT ![j.key] = TransferRow(j, status)]
           /\ tx_history' = tx_history \cup {HistoryRow(Payer(j), j, status, -1, read[p].payer)}
           /\ process_events' = process_events \cup {EventRow(NoEntity, status, j.key)}
           /\ Finish(p, status)
    /\ ReleaseLocks(p)
    /\ UNCHANGED <<balances, ledger, money_requests, payment_links, ledger_seq, redisVars,
                   lapsed, published>>

(* A key that a committed row already holds: the unique violation is an    *)
(* error for the caller, there is no second lookup.                        *)
DuplicateKey(p) ==
    /\ pc[p] \in {"insert_refused", "insert_transfer"}
    /\ transfers[job[p].key] # NoRow
    /\ Rollback(p, "error")
-----------------------------------------------------------------------------
LockEntity_NoForUpdate(p) ==                    \* mutant: plain SELECT
    /\ pc[p] = "lock_entity"
    /\ Goto(p, "read_entity")
    /\ UNCHANGED <<dbVars, ledger_seq, lockVars, redisVars, lapsed,
                   job, read, ids, answer, calls, published>>

(* accept_request and claim_link begin by locking their row.               *)
LockEntity(p) ==
    /\ pc[p] = "lock_entity"
    /\ entity_lock[job[p].entity] = NoProc
    /\ entity_lock' = [entity_lock EXCEPT ![job[p].entity] = p]
    /\ Goto(p, "read_entity")
    /\ UNCHANGED <<dbVars, ledger_seq, balance_lock, key_lock, redisVars, lapsed,
                   job, read, ids, answer, calls, published>>

Proceed(p) ==
    /\ Goto(p, "lock_first")
    /\ UNCHANGED <<dbVars, ledger_seq, lockVars, redisVars, lapsed,
                   job, read, ids, answer, calls, published>>

DecideAccept_NoStatusCheck(p) ==                \* mutant: any status accepted
    /\ pc[p] = "read_entity"
    /\ job[p].kind = "accept"
    /\ LET debtor == job[p].actor = RequestRow[job[p].entity].debtor
       IN  \/ ~debtor /\ Rollback(p, "forbidden")
           \/ debtor /\ Proceed(p)

DecideAccept(p) ==
    /\ pc[p] = "read_entity"
    /\ job[p].kind = "accept"
    /\ LET r == job[p].entity
           pending == money_requests[r] = "pending"
           debtor == job[p].actor = RequestRow[r].debtor
       IN  \/ ~pending /\ Rollback(p, "conflict")
           \/ pending /\ ~debtor /\ Rollback(p, "forbidden")
           \/ pending /\ debtor /\ Proceed(p)

(* The claim that finds the link past its deadline records the expiry,     *)
(* whatever the status it found, claimed excepted.                         *)
ExpireLink_Status(p) ==                         \* mutant: a status the schema lacks
    LET l == job[p].entity IN
    /\ payment_links' = [payment_links EXCEPT ![l].status = "lapsed"]
    /\ ReleaseLocks(p)
    /\ Finish(p, "gone")
    /\ UNCHANGED <<balances, transfers, ledger, tx_history, process_events, money_requests,
                   ledger_seq, redisVars, lapsed, published>>

ExpireLink(p) ==
    LET l == job[p].entity IN
    /\ payment_links' = [payment_links EXCEPT ![l].status = "expired"]
    /\ process_events' = process_events \cup {EventRow(l, "expired", NoKey)}
    /\ ReleaseLocks(p)
    /\ Finish(p, "gone")
    /\ UNCHANGED <<balances, transfers, ledger, tx_history, money_requests, ledger_seq,
                   redisVars, lapsed, published>>

IsCancelled_Never(link) == FALSE                \* mutant: check forgotten

IsCancelled(link) == link.status = "cancelled"

DecideClaim(p) ==
    /\ pc[p] = "read_entity"
    /\ job[p].kind = "claim"
    /\ LET l == job[p].entity
           link == payment_links[l]
           claimed == link.status = "claimed"
           expired == link.status = "expired" \/ l \in lapsed
           cancelled == IsCancelled(link)
           own == job[p].actor = LinkRow[l].creator
       IN  \/ claimed /\ link.claimer_id = job[p].actor /\ Rollback(p, "replay")
           \/ claimed /\ link.claimer_id # job[p].actor /\ Rollback(p, "conflict")
           \/ ~claimed /\ expired /\ ExpireLink(p)
           \/ ~claimed /\ ~expired /\ cancelled /\ Rollback(p, "conflict")
           \/ ~claimed /\ ~expired /\ ~cancelled /\ own /\ Rollback(p, "own_link")
           \/ ~claimed /\ ~expired /\ ~cancelled /\ ~own /\ Proceed(p)
-----------------------------------------------------------------------------
(* SELECT ... FROM balances ORDER BY user_id FOR UPDATE locks one row at a *)
(* time; the values it returns are those of the locked rows.               *)
LockFirst(p) ==
    /\ pc[p] = "lock_first"
    /\ balance_lock[FirstToLock(job[p])] = NoProc
    /\ balance_lock' = [balance_lock EXCEPT ![FirstToLock(job[p])] = p]
    /\ Goto(p, "lock_second")
    /\ UNCHANGED <<dbVars, ledger_seq, entity_lock, key_lock, redisVars, lapsed,
                   job, read, ids, answer, calls, published>>

LockSecond_Autocommit(p) ==                     \* mutant: SELECT outside the transaction
    /\ pc[p] = "lock_second"
    /\ balance_lock[SecondToLock(job[p])] = NoProc
    /\ balance_lock' = [balance_lock EXCEPT ![FirstToLock(job[p])] = NoProc]
    /\ read' = [read EXCEPT ![p] = [payer |-> balances[Payer(job[p])],
                                    payee |-> balances[Payee(job[p])]]]
    /\ Goto(p, "update")
    /\ UNCHANGED <<dbVars, ledger_seq, entity_lock, key_lock, redisVars, lapsed,
                   job, ids, answer, calls, published>>

LockSecond(p) ==
    /\ pc[p] = "lock_second"
    /\ balance_lock[SecondToLock(job[p])] = NoProc
    /\ balance_lock' = [balance_lock EXCEPT ![SecondToLock(job[p])] = p]
    /\ read' = [read EXCEPT ![p] = [payer |-> balances[Payer(job[p])],
                                    payee |-> balances[Payee(job[p])]]]
    /\ Goto(p, "update")
    /\ UNCHANGED <<dbVars, ledger_seq, entity_lock, key_lock, redisVars, lapsed,
                   job, ids, answer, calls, published>>

UpdateBalances_Unchecked(p) ==                  \* mutant: funds not checked
    /\ pc[p] = "update"
    /\ Goto(p, "insert_transfer")
    /\ UNCHANGED <<dbVars, ledger_seq, lockVars, redisVars, lapsed,
                   job, read, ids, answer, calls, published>>

(* The two UPDATEs write the balances computed from what was read; nobody  *)
(* sees them before Commit.                                                *)
UpdateBalances(p) ==
    /\ pc[p] = "update"
    /\ \/ read[p].payer < Amount(job[p]) /\ Rollback(p, "insufficient")
       \/ /\ read[p].payer >= Amount(job[p])
          /\ Goto(p, "insert_transfer")
          /\ UNCHANGED <<dbVars, ledger_seq, lockVars, redisVars, lapsed,
                         job, read, ids, answer, calls, published>>

InsertTransfer(p) == pc[p] = "insert_transfer" /\ InsertKey(p, "ledger_debit")

(* Each ledger INSERT takes its id from the sequence when it executes.     *)
InsertDebit(p) ==
    /\ pc[p] = "ledger_debit"
    /\ ids' = [ids EXCEPT ![p].debit = ledger_seq]
    /\ ledger_seq' = ledger_seq + 1
    /\ Goto(p, "ledger_credit")
    /\ UNCHANGED <<dbVars, lockVars, redisVars, lapsed, job, read, answer, calls, published>>

InsertCredit(p) ==
    /\ pc[p] = "ledger_credit"
    /\ ids' = [ids EXCEPT ![p].credit = ledger_seq]
    /\ ledger_seq' = ledger_seq + 1
    /\ Goto(p, "commit")
    /\ UNCHANGED <<dbVars, lockVars, redisVars, lapsed, job, read, answer, calls, published>>

LedgerRow(id, u, direction, j, after) ==
    [id |-> id, user |-> u, direction |-> direction, amount |-> Amount(j),
     running_balance |-> after, key |-> j.key]

SettleEntity_NoTransferId(j) ==                 \* mutant: transfer_id not written
    /\ process_events' = process_events \cup {EventRow(j.entity, "claimed", j.key)}
    /\ payment_links' = [payment_links EXCEPT ![j.entity].status = "claimed",
                                              ![j.entity].claimer_id = j.actor]
    /\ money_requests' = money_requests

(* What the transaction writes beside the money: the event, and the status *)
(* of the request or link it pays.                                         *)
SettleEntity(j) ==
    \/ /\ j.kind = "transfer"
       /\ process_events' = process_events \cup {EventRow(NoEntity, "completed", j.key)}
       /\ UNCHANGED <<money_requests, payment_links>>
    \/ /\ j.kind = "accept"
       /\ process_events' = process_events \cup {EventRow(j.entity, "accepted", j.key)}
       /\ money_requests' = [money_requests EXCEPT ![j.entity] = "accepted"]
       /\ payment_links' = payment_links
    \/ /\ j.kind = "claim"
       /\ process_events' = process_events \cup {EventRow(j.entity, "claimed", j.key)}
       /\ payment_links' = [payment_links EXCEPT ![j.entity] =
             [status |-> "claimed", claimer_id |-> j.actor, transfer_id |-> j.key]]
       /\ money_requests' = money_requests

(* COMMIT makes every write of the transaction visible at once: balances,  *)
(* transfer, two ledger rows, two history rows, the entity, the event.     *)
Commit(p) ==
    /\ pc[p] = "commit"
    /\ LET j == job[p] IN
        /\ balances' = [balances EXCEPT ![Payer(j)] = NewPayerBalance(p),
                                        ![Payee(j)] = NewPayeeBalance(p)]
        /\ transfers' = [transfers EXCEPT ![j.key] = TransferRow(j, "completed")]
        /\ ledger' = ledger \cup
                {LedgerRow(ids[p].debit, Payer(j), -1, j, NewPayerBalance(p)),
                 LedgerRow(ids[p].credit, Payee(j), 1, j, NewPayeeBalance(p))}
        /\ tx_history' = tx_history \cup
                {HistoryRow(Payer(j), j, "completed", -1, NewPayerBalance(p)),
                 HistoryRow(Payee(j), j, "completed", 1, NewPayeeBalance(p))}
        /\ SettleEntity(j)
        /\ \/ /\ j.kind = "transfer"
              /\ Goto(p, "publish")
              /\ UNCHANGED <<job, read, ids, answer, calls>>
           \/ j.kind # "transfer" /\ Finish(p, "completed")
    /\ ReleaseLocks(p)
    /\ UNCHANGED <<ledger_seq, redisVars, lapsed, published>>

(* NATS may be absent or refuse: the transfer stands either way.           *)
Publish(p) ==
    /\ pc[p] = "publish"
    /\ published' \in {published, published \cup {job[p].key}}
    /\ Finish(p, "completed")
    /\ UNCHANGED <<dbVars, ledger_seq, lockVars, redisVars, lapsed>>
-----------------------------------------------------------------------------
(* Any await of the handler may fail or never return: a database error, a  *)
(* pool timeout, a client that hangs up, the server dying.  The open       *)
(* transaction rolls back; what was committed, and the Redis counter, stay. *)
Fail(p) ==
    /\ pc[p] # "idle"
    /\ Rollback(p, "error")

Lapse(l) ==
    /\ l \notin lapsed
    /\ lapsed' = lapsed \cup {l}
    /\ UNCHANGED <<dbVars, ledger_seq, lockVars, redisVars, procVars, published>>

Advance(p) ==
    \/ LookupKey(p) \/ IncrVelocity(p)
    \/ InsertRefused(p) \/ ReadBalance(p) \/ CommitRefused(p) \/ DuplicateKey(p)
    \/ LockEntity(p) \/ DecideAccept(p) \/ DecideClaim(p)
    \/ LockFirst(p) \/ LockSecond(p) \/ UpdateBalances(p) \/ InsertTransfer(p)
    \/ InsertDebit(p) \/ InsertCredit(p) \/ Commit(p) \/ Publish(p)

Next ==
    \/ \E p \in Procs : Start(p) \/ Advance(p) \/ Fail(p)
    \/ \E l \in Links : Lapse(l)

Spec == Init /\ [][Next]_vars
-----------------------------------------------------------------------------
(* Every variable keeps its type: rows have the columns of the schema, and *)
(* balances stay within CHECK (amount_paisa >= 0).                         *)
TransferRows == [sender : Users, recipient : Users, amount : PaisaAmounts,
                 status : {"completed", "rejected", "flagged"}]
LedgerRows == [id : Nat, user : Users, direction : {-1, 1}, amount : PaisaAmounts,
               running_balance : Nat, key : Keys \cup {NoKey}]
LinkStates == [status : {"active", "claimed", "expired", "cancelled"},
               claimer_id : Users \cup {NoUser}, transfer_id : Keys \cup {NoKey}]

TypeOK ==
    /\ balances \in [Users -> Nat]
    /\ transfers \in [Keys -> TransferRows \cup {NoRow}]
    /\ ledger \subseteq LedgerRows
    /\ money_requests \in [Requests -> {"pending", "accepted", "rejected", "cancelled"}]
    /\ payment_links \in [Links -> LinkStates]
    /\ ledger_seq \in Nat
    /\ balance_lock \in [Users -> Procs \cup {NoProc}]
    /\ entity_lock \in [Entities -> Procs \cup {NoProc}]
    /\ key_lock \in [Keys -> Procs \cup {NoProc}]
    /\ daily_outflow \in [Users -> Nat]
    /\ failed_open \subseteq Keys
    /\ lapsed \subseteq Links
    /\ pc \in [Procs -> Steps \cup {"idle"}]
    /\ job \in [Procs -> Jobs \cup {NoJob}]
    /\ read \in [Procs -> [payer : Nat, payee : Nat]]
    /\ ids \in [Procs -> [debit : Nat, credit : Nat]]
    /\ answer \in [Procs -> Answers]
    /\ calls \in Nat
    /\ published \subseteq Keys

(* Money is neither created nor lost: the balances always add up to what   *)
(* registration put in (the audit's second contract).                      *)
NoMoneyCreated == SumFunctionOnSet(balances, Users) = NUsers * SEED_BALANCE_PAISA

(* The ledger explains every balance: read in id order, each row of a user *)
(* continues from the one before it, and the last row is the balance (the  *)
(* audit's first and third contracts), though ids are taken before commit. *)
RowsOf(u) == {r \in ledger : r.user = u}
Precedes(r, s) ==
    /\ r.user = s.user
    /\ r.id < s.id
    /\ \A t \in RowsOf(r.user) : t.id <= r.id \/ s.id <= t.id

LedgerExplainsBalances ==
    /\ \A r, s \in ledger :
          Precedes(r, s) => s.running_balance = r.running_balance + s.direction * s.amount
    /\ \A u \in Users : \A r \in RowsOf(u) :
          (\A t \in RowsOf(u) : t.id <= r.id) => r.running_balance = balances[u]

(* A key moves money at most once, by one debit and one credit that match  *)
(* the transfer row kept under it, however many requests carry the key.    *)
Legs(k) == {r \in ledger : r.key = k}

KeyMovesMoneyOnce ==
    \A k \in Keys :
        IF transfers[k].status = "completed"
        THEN \E d, c \in ledger :
                /\ Legs(k) = {d, c}
                /\ d.direction = -1 /\ d.user = transfers[k].sender
                /\ c.direction = 1 /\ c.user = transfers[k].recipient
                /\ d.amount = transfers[k].amount /\ c.amount = transfers[k].amount
        ELSE Legs(k) = {}

(* A money request or a payment link is paid at most once, on its own      *)
(* terms, and a request counts as accepted exactly when it has been paid.  *)
SettlingEvents(e) == {v \in process_events : v.entity = e /\ v.type \in {"accepted", "claimed"}}
TermsOf(e) ==
    IF e \in Requests
    THEN {[payer |-> RequestRow[e].debtor, payee |-> RequestRow[e].requester,
           amount |-> RequestRow[e].amount]}
    ELSE {[payer |-> LinkRow[e].creator, payee |-> u, amount |-> LinkRow[e].amount] : u \in Users}
PaymentOf(row) == [payer |-> row.sender, payee |-> row.recipient, amount |-> row.amount]

ObligationPaidOnce ==
    /\ \A e \in Entities : \A v, w \in SettlingEvents(e) : v = w
    /\ \A e \in Entities : \A v \in SettlingEvents(e) :
          /\ transfers[v.key].status = "completed"
          /\ PaymentOf(transfers[v.key]) \in TermsOf(e)
    /\ \A r \in Requests : money_requests[r] = "accepted" <=> SettlingEvents(r) # {}
    /\ \A l \in Links : payment_links[l].transfer_id # NoKey <=> SettlingEvents(l) # {}

(* What a user sends by transfers in a day stays within the daily cap, for *)
(* concurrent transfers too.  Only a transfer whose own INCR failed comes  *)
(* on top of it, and does not let the others exceed it.                    *)
SentBy(u) ==
    {h \in tx_history : /\ h.user = u /\ h.kind = "transfer"
                        /\ h.status = "completed" /\ h.direction = -1
                        /\ h.key \notin failed_open}
TransferOutflow(u) == SumFunctionOnSet([h \in tx_history |-> h.amount], SentBy(u))

DailyCapHolds == \A u \in Users : TransferOutflow(u) <= DAILY_OUTFLOW_CAP_PAISA

(* Between locking both rows and committing, a request's copy of the two   *)
(* balances is the committed one: no update is lost.                       *)
HoldsBoth == {"update", "insert_transfer", "ledger_debit", "ledger_credit", "commit"}

ReadsAreFresh ==
    \A p \in Procs : pc[p] \in HoldsBoth =>
        /\ balance_lock[Payer(job[p])] = p
        /\ balance_lock[Payee(job[p])] = p
        /\ read[p] = [payer |-> balances[Payer(job[p])], payee |-> balances[Payee(job[p])]]

(* No set of requests waits on itself, through balance rows, entity rows   *)
(* and uncommitted keys taken together.                                    *)
WaitsFor(p) ==
    {q \in Procs :
        \/ pc[p] = "lock_entity" /\ entity_lock[job[p].entity] = q
        \/ pc[p] = "lock_first" /\ balance_lock[FirstToLock(job[p])] = q
        \/ pc[p] = "lock_second" /\ balance_lock[SecondToLock(job[p])] = q
        \/ pc[p] \in {"insert_refused", "insert_transfer"} /\ key_lock[job[p].key] = q}

NoDeadlock ==
    \A S \in (SUBSET Procs) \ {{}} : \E p \in S : WaitsFor(p) \cap S = {}

(* An answer tells the truth about the record that stays: "completed" has  *)
(* its payment, a replay the row it repeats, a refusal its refused row.    *)
AnswersAreTrue ==
    \A p \in Procs :
        LET j == job[p] IN
        /\ answer[p] = "completed" => transfers[j.key] = TransferRow(j, "completed")
        /\ answer[p] \in {"rejected", "flagged"} => transfers[j.key] = TransferRow(j, answer[p])
        /\ answer[p] = "replay" /\ j.kind = "transfer" =>
                transfers[j.key] # NoRow /\ SamePayload(transfers[j.key], j)
        /\ answer[p] = "replay" /\ j.kind = "claim" =>
                LET k == payment_links[j.entity].transfer_id IN
                /\ k \in Keys
                /\ transfers[k] = [TransferRow(j, "completed") EXCEPT !.recipient = j.actor]

(* What was recorded is never rewritten: a transfer row under its key, the *)
(* rows of the ledger and of the history, and the ids already handed out.  *)
RecordsArePermanent ==
    [][ /\ \A k \in Keys : transfers[k] # NoRow => transfers'[k] = transfers[k]
        /\ ledger \subseteq ledger'
        /\ \A r \in ledger' \ ledger : \A t \in ledger : t.user = r.user => t.id < r.id
        /\ tx_history \subseteq tx_history' ]_vars

(* The three handlers implement the bank of module Bank.                   *)
Completed == {k \in Keys : transfers[k].status = "completed"}

B == INSTANCE Bank WITH
        Obligations <- Entities,
        NoObligation <- NoEntity,
        Opening <- SEED_BALANCE_PAISA,
        Amounts <- {Amount(j) : j \in Jobs},
        Terms <- [e \in Entities |-> TermsOf(e)],
        funds <- balances,
        payments <- {[key |-> k, payer |-> transfers[k].sender, payee |-> transfers[k].recipient,
                      amount |-> transfers[k].amount] : k \in Completed},
        settled <- {[obligation |-> v.entity, key |-> v.key] :
                      v \in {w \in process_events : w.type \in {"accepted", "claimed"}}}

ImplementsBank == B!BankSpec

(* Every call is answered, with a result or an error.                      *)
EveryCallAnswered == \A p \in Procs : pc[p] # "idle" ~> pc[p] = "idle"

(* "Same key with matching payload -> 200 replay" (transfers/service.rs:66): *)
(* no transfer meets, at its INSERT, the committed row of an identical call. *)
SamePayloadReplays ==
    \A p \in Procs :
        /\ pc[p] \in {"insert_refused", "insert_transfer"}
        /\ job[p].kind = "transfer"
        /\ transfers[job[p].key] # NoRow
        => ~SamePayload(transfers[job[p].key], job[p])
=============================================================================

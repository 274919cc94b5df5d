------------------------ MODULE MoneyMovementProofs -------------------------
(***************************************************************************)
(* Theorems about MoneyMovement, for every number of users, requests, keys *)
(* and calls.  The inductive invariant IInv has three parts: the types,    *)
(* what a request has established when it reaches a step (ProcInv), and    *)
(* the freshness of the balances it read (ReadsAreFresh).  Four sections   *)
(* build on it: the lock order, the ledger, the totals and the daily cap.  *)
(***************************************************************************)
EXTENDS MoneyMovement, SumTheorems, WellFoundedInduction

TransferSteps == RefusalSteps \cup {"lookup_key", "incr_velocity", "publish"}
EntitySteps == {"lock_entity", "read_entity"}
FundedSteps == {"insert_transfer", "ledger_debit", "ledger_credit", "commit"}
KeySteps == {"read_balance", "commit_refused", "ledger_debit", "ledger_credit", "commit"}

(* What a request has established by the step it is at: the kind of its    *)
(* job, that payer and payee differ, its first row lock, and the funds.    *)
ProcInv(p) ==
    /\ pc[p] # "idle" => job[p] \in Jobs
    /\ pc[p] \in TransferSteps => job[p].kind = "transfer"
    /\ pc[p] \in EntitySteps => job[p].kind # "transfer"
    /\ pc[p] \in MoneySteps => Payer(job[p]) # Payee(job[p])
    /\ pc[p] = "lock_second" => balance_lock[FirstToLock(job[p])] = p
    /\ pc[p] \in FundedSteps => read[p].payer >= Amount(job[p])

IInv == TypeOK /\ (\A p \in Procs : ProcInv(p)) /\ ReadsAreFresh
-----------------------------------------------------------------------------
(* What the columns of a job give: its parties, its amount and its key.    *)
LEMMA JobFacts ==
    ASSUME NEW j \in Jobs
    PROVE  /\ j.kind \in {"transfer", "accept", "claim"}
           /\ j.key \in Keys
           /\ Payer(j) \in Users /\ Payee(j) \in Users
           /\ Amount(j) \in Nat /\ Amount(j) > 0
           /\ FirstToLock(j) \in Users /\ SecondToLock(j) \in Users
           /\ j.kind = "transfer" => Payer(j) # Payee(j)
           /\ j.kind = "accept" => j.entity \in Requests /\ Payer(j) # Payee(j)
           /\ j.kind = "claim" =>
                /\ j.entity \in Links /\ j.actor \in Users
                /\ j.actor # LinkRow[j.entity].creator => Payer(j) # Payee(j)
<1>1. j \in TransferJobs \cup AcceptJobs \cup ClaimJobs
  BY JobsAssumption
<1>2. CASE j \in TransferJobs
  BY <1>2 DEF TransferJobs, Payer, Payee, Amount, PaisaAmounts, FirstToLock, SecondToLock
<1>3. CASE j \in AcceptJobs
  BY <1>3, RowsAssumption
  DEF AcceptJobs, Payer, Payee, Amount, PaisaAmounts, FirstToLock, SecondToLock
<1>4. CASE j \in ClaimJobs
  BY <1>4, RowsAssumption
  DEF ClaimJobs, Payer, Payee, Amount, PaisaAmounts, FirstToLock, SecondToLock
<1>5. QED
  BY <1>1, <1>2, <1>3, <1>4

(* The two rows a payment locks are those of its payer and its payee.      *)
LEMMA LockOrder ==
    ASSUME NEW j
    PROVE  \/ FirstToLock(j) = Payer(j) /\ SecondToLock(j) = Payee(j)
           \/ FirstToLock(j) = Payee(j) /\ SecondToLock(j) = Payer(j)
BY DEF FirstToLock, SecondToLock

(* An empty server over freshly opened accounts satisfies the invariant.   *)
LEMMA InitIInv == Init => IInv
<1> SUFFICES ASSUME Init PROVE IInv
  OBVIOUS
<1>1. TypeOK
  BY UsersAssumption, AmountsAssumption
  DEF Init, TypeOK, Users, Entities, PaisaAmounts, TransferRows, LedgerRows, LinkStates,
      NoJob, NoRead, NoIds, Answers
<1>2. \A p \in Procs : ProcInv(p)
  BY DEF Init, ProcInv, TransferSteps, RefusalSteps, EntitySteps, MoneySteps, FundedSteps
<1>3. ReadsAreFresh
  BY DEF Init, ReadsAreFresh, HoldsBoth
<1>4. QED
  BY <1>1, <1>2, <1>3 DEF IInv
-----------------------------------------------------------------------------
(* A rollback, at whatever step, keeps the invariant: it frees only the    *)
(* request's own locks and leaves the balances as they are.                *)
LEMMA RollbackIInv ==
    ASSUME IInv, NEW p \in Procs, NEW outcome \in Answers, Rollback(p, outcome)
    PROVE  IInv'
<1>1. TypeOK'
  BY DEF IInv, TypeOK, Rollback, ReleaseLocks, Finish, NoRead, NoIds, dbVars, redisVars
<1>2. ASSUME NEW q \in Procs PROVE ProcInv(q)'
  BY NullsAssumption, LockOrder, JobFacts
  DEF IInv, TypeOK, ProcInv, Rollback, ReleaseLocks, Finish,
      TransferSteps, RefusalSteps, EntitySteps, MoneySteps, FundedSteps
<1>3. ReadsAreFresh'
  BY NullsAssumption, JobFacts
  DEF IInv, TypeOK, ProcInv, ReadsAreFresh, HoldsBoth, Rollback, ReleaseLocks, Finish, dbVars
<1>4. QED
  BY <1>1, <1>2, <1>3 DEF IInv

(* The call that arrives is one of Jobs, at the first step of its kind.    *)
LEMMA StartIInv ==
    ASSUME IInv, NEW p \in Procs, Start(p)
    PROVE  IInv'
<1>1. TypeOK'
  BY JobFacts
  DEF IInv, TypeOK, ProcInv, Start, Goto, Answers, dbVars, lockVars, redisVars,
      Steps, TransferSteps, RefusalSteps, EntitySteps, MoneySteps, FundedSteps
<1>2. ASSUME NEW q \in Procs PROVE ProcInv(q)'
  BY NullsAssumption, JobFacts, LockOrder
  DEF IInv, TypeOK, ProcInv, Start, Goto, lockVars, TransferSteps, RefusalSteps,
      EntitySteps, MoneySteps, FundedSteps
<1>3. ReadsAreFresh'
  BY NullsAssumption, JobFacts
  DEF IInv, TypeOK, ProcInv, ReadsAreFresh, HoldsBoth, MoneySteps, Start, Goto,
      dbVars, lockVars
<1>4. QED
  BY <1>1, <1>2, <1>3 DEF IInv

(* The lookup answers, or leaves the transfer at a step of transfers only. *)
LEMMA LookupKeyIInv ==
    ASSUME IInv, NEW p \in Procs, LookupKey(p)
    PROVE  IInv'
<1>1. TypeOK'
  <2>1. CASE transfers[job[p].key] = NoRow
    BY <2>1
    DEF IInv, TypeOK, LookupKey, Goto, Steps, RefusalSteps, dbVars, lockVars, redisVars
  <2>2. CASE transfers[job[p].key] # NoRow
    <3>1. PICK outcome \in {"replay", "conflict"} : Finish(p, outcome)
      BY <2>2 DEF LookupKey
    <3>2. QED
      BY <2>2, <3>1
      DEF IInv, TypeOK, LookupKey, Finish, NoRead, NoIds, Answers, dbVars, lockVars, redisVars
  <2>3. QED
    BY <2>1, <2>2
<1>2. ASSUME NEW q \in Procs PROVE ProcInv(q)'
  BY NullsAssumption, JobFacts, LockOrder
  DEF IInv, TypeOK, ProcInv, LookupKey, Goto, Finish, lockVars, TransferSteps,
      RefusalSteps, EntitySteps, MoneySteps, FundedSteps
<1>3. ReadsAreFresh'
  BY NullsAssumption, JobFacts
  DEF IInv, TypeOK, ProcInv, ReadsAreFresh, HoldsBoth, MoneySteps, LookupKey, Goto,
      Finish, dbVars, lockVars
<1>4. QED
  BY <1>1, <1>2, <1>3 DEF IInv

(* The counter only grows, and only a transfer, whose parties differ, goes *)
(* on to the locks.                                                        *)
LEMMA IncrVelocityIInv ==
    ASSUME IInv, NEW p \in Procs, IncrVelocity(p)
    PROVE  IInv'
<1>1. TypeOK'
  <2> DEFINE u == Payer(job[p])
  <2>1. u \in Users /\ Amount(job[p]) \in Nat /\ job[p].key \in Keys
    BY JobFacts DEF IInv, TypeOK, ProcInv, IncrVelocity
  <2>2. [daily_outflow EXCEPT ![u] = @ + Amount(job[p])] \in [Users -> Nat]
    BY <2>1 DEF IInv, TypeOK
  <2>3. daily_outflow' \in [Users -> Nat] /\ failed_open' \subseteq Keys
    BY <2>1, <2>2 DEF IInv, TypeOK, IncrVelocity
  <2>4. pc' \in [Procs -> Steps \cup {"idle"}]
    BY DEF IInv, TypeOK, IncrVelocity, Goto, Steps, MoneySteps, RefusalSteps
  <2>5. QED
    BY <2>3, <2>4 DEF IInv, TypeOK, IncrVelocity, dbVars, lockVars
<1>2. ASSUME NEW q \in Procs PROVE ProcInv(q)'
  BY NullsAssumption, JobFacts, LockOrder
  DEF IInv, TypeOK, ProcInv, IncrVelocity, Goto, lockVars, TransferSteps,
      RefusalSteps, EntitySteps, MoneySteps, FundedSteps
<1>3. ReadsAreFresh'
  BY NullsAssumption, JobFacts
  DEF IInv, TypeOK, ProcInv, ReadsAreFresh, HoldsBoth, MoneySteps, IncrVelocity,
      Goto, dbVars, lockVars
<1>4. QED
  BY <1>1, <1>2, <1>3 DEF IInv

(* The refused row is inserted under the key of the transfer.              *)
LEMMA InsertRefusedIInv ==
    ASSUME IInv, NEW p \in Procs, InsertRefused(p)
    PROVE  IInv'
<1>1. TypeOK'
  BY JobFacts
  DEF IInv, TypeOK, ProcInv, InsertRefused, InsertKey, Goto, dbVars, lockVars,
      redisVars, Steps, TransferSteps, RefusalSteps, EntitySteps, MoneySteps,
      FundedSteps
<1>2. ASSUME NEW q \in Procs PROVE ProcInv(q)'
  BY NullsAssumption, JobFacts, LockOrder
  DEF IInv, TypeOK, ProcInv, InsertRefused, InsertKey, Goto, lockVars,
      TransferSteps, RefusalSteps, EntitySteps, MoneySteps, FundedSteps
<1>3. ReadsAreFresh'
  BY NullsAssumption, JobFacts
  DEF IInv, TypeOK, ProcInv, ReadsAreFresh, HoldsBoth, MoneySteps, InsertRefused,
      InsertKey, Goto, dbVars, lockVars
<1>4. QED
  BY <1>1, <1>2, <1>3 DEF IInv

(* The unlocked read of a refusal takes a balance, a natural number.       *)
LEMMA ReadBalanceIInv ==
    ASSUME IInv, NEW p \in Procs, ReadBalance(p)
    PROVE  IInv'
<1>1. TypeOK'
  <2>1. balances[Payer(job[p])] \in Nat
    BY JobFacts DEF IInv, TypeOK, ProcInv, ReadBalance
  <2>2. read' \in [Procs -> [payer : Nat, payee : Nat]]
    BY <2>1 DEF IInv, TypeOK, ReadBalance
  <2>3. pc' \in [Procs -> Steps \cup {"idle"}]
    BY DEF IInv, TypeOK, ReadBalance, Goto, Steps, RefusalSteps
  <2>4. QED
    BY <2>2, <2>3 DEF IInv, TypeOK, ReadBalance, dbVars, lockVars, redisVars
<1>2. ASSUME NEW q \in Procs PROVE ProcInv(q)'
  BY NullsAssumption, JobFacts, LockOrder
  DEF IInv, TypeOK, ProcInv, ReadBalance, Goto, lockVars, TransferSteps,
      RefusalSteps, EntitySteps, MoneySteps, FundedSteps
<1>3. ReadsAreFresh'
  BY NullsAssumption, JobFacts
  DEF IInv, TypeOK, ProcInv, ReadsAreFresh, HoldsBoth, MoneySteps, ReadBalance,
      Goto, dbVars, lockVars
<1>4. QED
  BY <1>1, <1>2, <1>3 DEF IInv

(* A refusal commits a transfer row and no balance.                        *)
LEMMA CommitRefusedIInv ==
    ASSUME IInv, NEW p \in Procs, CommitRefused(p)
    PROVE  IInv'
<1>1. TypeOK'
  BY JobFacts
  DEF IInv, TypeOK, ProcInv, CommitRefused, ReleaseLocks, Finish, RefusedStatus,
      TransferRow, TransferRows, PaisaAmounts, NoRead, NoIds, Answers, dbVars,
      lockVars, redisVars, Steps, TransferSteps, RefusalSteps, EntitySteps,
      MoneySteps, FundedSteps
<1>2. ASSUME NEW q \in Procs PROVE ProcInv(q)'
  BY NullsAssumption, JobFacts, LockOrder
  DEF IInv, TypeOK, ProcInv, CommitRefused, ReleaseLocks, Finish, lockVars,
      TransferSteps, RefusalSteps, EntitySteps, MoneySteps, FundedSteps
<1>3. ReadsAreFresh'
  BY NullsAssumption, JobFacts
  DEF IInv, TypeOK, ProcInv, ReadsAreFresh, HoldsBoth, MoneySteps, CommitRefused,
      ReleaseLocks, Finish, dbVars, lockVars
<1>4. QED
  BY <1>1, <1>2, <1>3 DEF IInv

(* The row of the money request or of the link is locked, and no other     *)
(* lock.                                                                   *)
LEMMA LockEntityIInv ==
    ASSUME IInv, NEW p \in Procs, LockEntity(p)
    PROVE  IInv'
<1>1. TypeOK'
  BY JobFacts
  DEF IInv, TypeOK, ProcInv, LockEntity, Goto, Entities, dbVars, lockVars,
      redisVars, Steps, TransferSteps, RefusalSteps, EntitySteps, MoneySteps,
      FundedSteps
<1>2. ASSUME NEW q \in Procs PROVE ProcInv(q)'
  BY NullsAssumption, JobFacts, LockOrder
  DEF IInv, TypeOK, ProcInv, LockEntity, Goto, lockVars, TransferSteps,
      RefusalSteps, EntitySteps, MoneySteps, FundedSteps
<1>3. ReadsAreFresh'
  BY NullsAssumption, JobFacts
  DEF IInv, TypeOK, ProcInv, ReadsAreFresh, HoldsBoth, MoneySteps, LockEntity, Goto,
      dbVars, lockVars
<1>4. QED
  BY <1>1, <1>2, <1>3 DEF IInv

(* An accept or a claim that is admitted has two different parties.        *)
LEMMA ProceedIInv ==
    ASSUME IInv, NEW p \in Procs, Proceed(p),
           job[p] \in Jobs, Payer(job[p]) # Payee(job[p])
    PROVE  IInv'
<1>1. TypeOK'
  BY JobFacts
  DEF IInv, TypeOK, ProcInv, Proceed, Goto, dbVars, lockVars, redisVars, Steps,
      TransferSteps, RefusalSteps, EntitySteps, MoneySteps, FundedSteps
<1>2. ASSUME NEW q \in Procs PROVE ProcInv(q)'
  BY NullsAssumption, JobFacts, LockOrder
  DEF IInv, TypeOK, ProcInv, Proceed, Goto, lockVars, TransferSteps, RefusalSteps,
      EntitySteps, MoneySteps, FundedSteps
<1>3. ReadsAreFresh'
  BY NullsAssumption, JobFacts
  DEF IInv, TypeOK, ProcInv, ReadsAreFresh, HoldsBoth, MoneySteps, Proceed, Goto,
      dbVars, lockVars
<1>4. QED
  BY <1>1, <1>2, <1>3 DEF IInv

(* An expiry found by a claim writes the status of a link and ends the     *)
(* request.                                                                *)
LEMMA ExpireLinkIInv ==
    ASSUME IInv, NEW p \in Procs, job[p].entity \in Links, ExpireLink(p)
    PROVE  IInv'
<1>1. TypeOK'
  <2>1. payment_links' \in [Links -> LinkStates]
    <3>1. ASSUME NEW row \in LinkStates PROVE [row EXCEPT !.status = "expired"] \in LinkStates
      BY DEF LinkStates
    <3>2. payment_links' = [payment_links EXCEPT ![job[p].entity] =
                               [payment_links[job[p].entity] EXCEPT !.status = "expired"]]
      BY DEF ExpireLink
    <3>3. QED
      BY <3>1, <3>2 DEF IInv, TypeOK
  <2>2. /\ balance_lock' \in [Users -> Procs \cup {NoProc}]
        /\ entity_lock' \in [Entities -> Procs \cup {NoProc}]
        /\ key_lock' \in [Keys -> Procs \cup {NoProc}]
    BY DEF IInv, TypeOK, ExpireLink, ReleaseLocks
  <2>3. /\ pc' \in [Procs -> Steps \cup {"idle"}]
        /\ answer' \in [Procs -> Answers]
        /\ read' \in [Procs -> [payer : Nat, payee : Nat]]
        /\ ids' \in [Procs -> [debit : Nat, credit : Nat]]
        /\ job' = job /\ calls' = calls
    BY DEF IInv, TypeOK, ExpireLink, Finish, NoRead, NoIds, Answers
  <2>4. /\ balances' = balances /\ transfers' = transfers /\ ledger' = ledger
        /\ money_requests' = money_requests /\ ledger_seq' = ledger_seq
        /\ daily_outflow' = daily_outflow /\ failed_open' = failed_open
        /\ lapsed' = lapsed /\ published' = published
    BY DEF ExpireLink, redisVars
  <2>5. QED
    BY <2>1, <2>2, <2>3, <2>4 DEF IInv, TypeOK
<1>2. ASSUME NEW q \in Procs PROVE ProcInv(q)'
  BY NullsAssumption, JobFacts, LockOrder
  DEF IInv, TypeOK, ProcInv, ExpireLink, ReleaseLocks, Finish, lockVars,
      TransferSteps, RefusalSteps, EntitySteps, MoneySteps, FundedSteps
<1>3. ReadsAreFresh'
  BY NullsAssumption, JobFacts
  DEF IInv, TypeOK, ProcInv, ReadsAreFresh, HoldsBoth, MoneySteps, ExpireLink,
      ReleaseLocks, Finish, dbVars, lockVars
<1>4. QED
  BY <1>1, <1>2, <1>3 DEF IInv

(* The first lock is the one ProcInv remembers until the second is taken.  *)
LEMMA LockFirstIInv ==
    ASSUME IInv, NEW p \in Procs, LockFirst(p)
    PROVE  IInv'
<1>1. TypeOK'
  BY JobFacts
  DEF IInv, TypeOK, ProcInv, LockFirst, Goto, dbVars, lockVars, redisVars, Steps,
      TransferSteps, RefusalSteps, EntitySteps, MoneySteps, FundedSteps
<1>2. ASSUME NEW q \in Procs PROVE ProcInv(q)'
  BY NullsAssumption, JobFacts, LockOrder
  DEF IInv, TypeOK, ProcInv, LockFirst, Goto, lockVars, TransferSteps, RefusalSteps,
      EntitySteps, MoneySteps, FundedSteps
<1>3. ReadsAreFresh'
  BY NullsAssumption, JobFacts
  DEF IInv, TypeOK, ProcInv, ReadsAreFresh, HoldsBoth, MoneySteps, LockFirst, Goto,
      dbVars, lockVars
<1>4. QED
  BY <1>1, <1>2, <1>3 DEF IInv

(* With the second lock both rows are held and their values are read.      *)
LEMMA LockSecondIInv ==
    ASSUME IInv, NEW p \in Procs, LockSecond(p)
    PROVE  IInv'
<1>1. TypeOK'
  BY JobFacts
  DEF IInv, TypeOK, ProcInv, LockSecond, Goto, dbVars, lockVars, redisVars, Steps,
      TransferSteps, RefusalSteps, EntitySteps, MoneySteps, FundedSteps
<1>2. ASSUME NEW q \in Procs PROVE ProcInv(q)'
  BY NullsAssumption, JobFacts, LockOrder
  DEF IInv, TypeOK, ProcInv, LockSecond, Goto, lockVars, TransferSteps,
      RefusalSteps, EntitySteps, MoneySteps, FundedSteps
<1>3. ReadsAreFresh'
  <2> SUFFICES ASSUME NEW q \in Procs, pc'[q] \in HoldsBoth
               PROVE  /\ balance_lock'[Payer(job[q])] = q
                      /\ balance_lock'[Payee(job[q])] = q
                      /\ read'[q] = [payer |-> balances[Payer(job[q])],
                                     payee |-> balances[Payee(job[q])]]
    BY DEF LockSecond, ReadsAreFresh, dbVars
  <2>1. CASE q = p
    <3>1. job[p] \in Jobs /\ balance_lock[FirstToLock(job[p])] = p
      BY DEF IInv, ProcInv, LockSecond
    <3>2. QED
      BY <2>1, <3>1, JobFacts, LockOrder DEF LockSecond, IInv, TypeOK
  <2>2. CASE q # p
    BY <2>2, NullsAssumption, JobFacts
    DEF LockSecond, Goto, IInv, TypeOK, ProcInv, ReadsAreFresh, HoldsBoth
  <2>3. QED
    BY <2>1, <2>2
<1>4. QED
  BY <1>1, <1>2, <1>3 DEF IInv

(* Past the check of the funds, the payer's balance covers the amount.     *)
LEMMA FundedIInv ==
    ASSUME IInv, NEW p \in Procs, UpdateBalances(p), read[p].payer >= Amount(job[p])
    PROVE  IInv'
<1>1. /\ pc[p] = "update"
      /\ Goto(p, "insert_transfer")
      /\ UNCHANGED <<dbVars, ledger_seq, lockVars, redisVars, lapsed,
                     job, read, ids, answer, calls, published>>
  <2>1. Amount(job[p]) \in Nat /\ read[p].payer \in Nat
    BY JobFacts DEF IInv, TypeOK, ProcInv, UpdateBalances
  <2>2. QED
    BY <2>1 DEF UpdateBalances
<1>2. TypeOK'
  BY <1>1 DEF IInv, TypeOK, Goto, Steps, MoneySteps, dbVars, lockVars, redisVars
<1>3. ASSUME NEW q \in Procs PROVE ProcInv(q)'
  BY <1>1
  DEF IInv, TypeOK, ProcInv, Goto, lockVars, TransferSteps, RefusalSteps, EntitySteps,
      MoneySteps, FundedSteps
<1>4. ReadsAreFresh'
  BY <1>1 DEF IInv, TypeOK, ReadsAreFresh, HoldsBoth, Goto, dbVars, lockVars
<1>5. QED
  BY <1>2, <1>3, <1>4 DEF IInv

(* The funds checked at the update are still there at the inserts.         *)
LEMMA InsertTransferIInv ==
    ASSUME IInv, NEW p \in Procs, InsertTransfer(p)
    PROVE  IInv'
<1>1. TypeOK'
  BY JobFacts
  DEF IInv, TypeOK, ProcInv, InsertTransfer, InsertKey, Goto, dbVars, lockVars,
      redisVars, Steps, TransferSteps, RefusalSteps, EntitySteps, MoneySteps,
      FundedSteps
<1>2. ASSUME NEW q \in Procs PROVE ProcInv(q)'
  BY NullsAssumption, JobFacts, LockOrder
  DEF IInv, TypeOK, ProcInv, InsertTransfer, InsertKey, Goto, lockVars,
      TransferSteps, RefusalSteps, EntitySteps, MoneySteps, FundedSteps
<1>3. ReadsAreFresh'
  BY NullsAssumption, JobFacts
  DEF IInv, TypeOK, ProcInv, ReadsAreFresh, HoldsBoth, MoneySteps, InsertTransfer,
      InsertKey, Goto, dbVars, lockVars
<1>4. QED
  BY <1>1, <1>2, <1>3 DEF IInv

(* The debit row has an id of the sequence.                                *)
LEMMA InsertDebitIInv ==
    ASSUME IInv, NEW p \in Procs, InsertDebit(p)
    PROVE  IInv'
<1>1. TypeOK'
  <2>1. /\ ids' \in [Procs -> [debit : Nat, credit : Nat]]
        /\ ledger_seq' \in Nat
    <3>1. ledger_seq \in Nat /\ ids \in [Procs -> [debit : Nat, credit : Nat]]
      BY DEF IInv, TypeOK
    <3>2. [ids[p] EXCEPT !.debit = ledger_seq] \in [debit : Nat, credit : Nat]
      BY <3>1
    <3>3. QED
      BY <3>1, <3>2 DEF InsertDebit
  <2>2. pc' \in [Procs -> Steps \cup {"idle"}]
    BY DEF IInv, TypeOK, InsertDebit, Goto, Steps, MoneySteps
  <2>3. QED
    BY <2>1, <2>2 DEF IInv, TypeOK, InsertDebit, dbVars, lockVars, redisVars
<1>2. ASSUME NEW q \in Procs PROVE ProcInv(q)'
  BY NullsAssumption, JobFacts, LockOrder
  DEF IInv, TypeOK, ProcInv, InsertDebit, Goto, lockVars, TransferSteps,
      RefusalSteps, EntitySteps, MoneySteps, FundedSteps
<1>3. ReadsAreFresh'
  BY NullsAssumption, JobFacts
  DEF IInv, TypeOK, ProcInv, ReadsAreFresh, HoldsBoth, MoneySteps, InsertDebit,
      Goto, dbVars, lockVars
<1>4. QED
  BY <1>1, <1>2, <1>3 DEF IInv

(* The credit row has the next one.                                        *)
LEMMA InsertCreditIInv ==
    ASSUME IInv, NEW p \in Procs, InsertCredit(p)
    PROVE  IInv'
<1>1. TypeOK'
  <2>1. /\ ids' \in [Procs -> [debit : Nat, credit : Nat]]
        /\ ledger_seq' \in Nat
    <3>1. ledger_seq \in Nat /\ ids \in [Procs -> [debit : Nat, credit : Nat]]
      BY DEF IInv, TypeOK
    <3>2. [ids[p] EXCEPT !.credit = ledger_seq] \in [debit : Nat, credit : Nat]
      BY <3>1
    <3>3. QED
      BY <3>1, <3>2 DEF InsertCredit
  <2>2. pc' \in [Procs -> Steps \cup {"idle"}]
    BY DEF IInv, TypeOK, InsertCredit, Goto, Steps, MoneySteps
  <2>3. QED
    BY <2>1, <2>2 DEF IInv, TypeOK, InsertCredit, dbVars, lockVars, redisVars
<1>2. ASSUME NEW q \in Procs PROVE ProcInv(q)'
  BY NullsAssumption, JobFacts, LockOrder
  DEF IInv, TypeOK, ProcInv, InsertCredit, Goto, lockVars, TransferSteps,
      RefusalSteps, EntitySteps, MoneySteps, FundedSteps
<1>3. ReadsAreFresh'
  BY NullsAssumption, JobFacts
  DEF IInv, TypeOK, ProcInv, ReadsAreFresh, HoldsBoth, MoneySteps, InsertCredit,
      Goto, dbVars, lockVars
<1>4. QED
  BY <1>1, <1>2, <1>3 DEF IInv

(* The commit writes only rows it has locked, so the reads of every other  *)
(* request stay fresh, and the payer's balance stays natural because the   *)
(* funds were there.                                                       *)
LEMMA CommitIInv ==
    ASSUME IInv, NEW p \in Procs, Commit(p)
    PROVE  IInv'
<1>1. TypeOK'
  <2> DEFINE j == job[p]
  <2>1. j \in Jobs /\ NewPayerBalance(p) \in Nat /\ NewPayeeBalance(p) \in Nat
    BY JobFacts
    DEF IInv, TypeOK, ProcInv, Commit, FundedSteps, NewPayerBalance, NewPayeeBalance
  <2>2. balances' \in [Users -> Nat]
    BY <2>1, JobFacts DEF IInv, TypeOK, Commit
  <2>3. transfers' \in [Keys -> TransferRows \cup {NoRow}]
    BY <2>1, JobFacts DEF IInv, TypeOK, Commit, TransferRow, TransferRows, PaisaAmounts
  <2>4. ledger' \subseteq LedgerRows
    BY <2>1, JobFacts DEF IInv, TypeOK, Commit, LedgerRow, LedgerRows, PaisaAmounts
  <2>5. /\ money_requests' \in [Requests -> {"pending", "accepted", "rejected", "cancelled"}]
        /\ payment_links' \in [Links -> LinkStates]
    <3>1. SettleEntity(j)
      BY DEF Commit
    <3>2. CASE j.kind = "transfer"
      BY <3>1, <3>2 DEF IInv, TypeOK, SettleEntity
    <3>3. CASE j.kind = "accept"
      BY <3>1, <3>3 DEF IInv, TypeOK, SettleEntity
    <3>4. CASE j.kind = "claim"
      <4>1. [status |-> "claimed", claimer_id |-> j.actor, transfer_id |-> j.key] \in LinkStates
        BY <2>1, <3>4, JobFacts DEF LinkStates
      <4>2. QED
        BY <3>1, <3>4, <4>1 DEF IInv, TypeOK, SettleEntity
    <3>5. QED
      BY <2>1, <3>2, <3>3, <3>4, JobFacts
  <2>6. /\ pc' \in [Procs -> Steps \cup {"idle"}]
        /\ answer' \in [Procs -> Answers]
        /\ read' \in [Procs -> [payer : Nat, payee : Nat]]
        /\ ids' \in [Procs -> [debit : Nat, credit : Nat]]
        /\ job' = job /\ calls' = calls
    <3>1. CASE j.kind = "transfer"
      BY <3>1 DEF IInv, TypeOK, Commit, Goto, Steps
    <3>2. CASE j.kind # "transfer"
      <4>1. Finish(p, "completed")
        BY <3>2 DEF Commit
      <4>2. QED
        BY <4>1 DEF IInv, TypeOK, Finish, Answers, NoRead, NoIds
    <3>3. QED
      BY <3>1, <3>2
  <2>7. QED
    BY <2>2, <2>3, <2>4, <2>5, <2>6 DEF IInv, TypeOK, Commit, ReleaseLocks, redisVars
<1>2. ASSUME NEW q \in Procs PROVE ProcInv(q)'
  BY NullsAssumption, JobFacts, LockOrder
  DEF IInv, TypeOK, ProcInv, Commit, ReleaseLocks, Finish, Goto, lockVars,
      TransferSteps, RefusalSteps, EntitySteps, MoneySteps, FundedSteps
<1>3. ReadsAreFresh'
  BY NullsAssumption, JobFacts
  DEF IInv, TypeOK, ProcInv, ReadsAreFresh, HoldsBoth, MoneySteps, Commit,
      ReleaseLocks, Finish, Goto, dbVars, lockVars
<1>4. QED
  BY <1>1, <1>2, <1>3 DEF IInv

(* Only a transfer is announced, under its own key.                        *)
LEMMA PublishIInv ==
    ASSUME IInv, NEW p \in Procs, Publish(p)
    PROVE  IInv'
<1>1. TypeOK'
  BY JobFacts
  DEF IInv, TypeOK, ProcInv, Publish, Finish, NoRead, NoIds, Answers, dbVars,
      lockVars, redisVars, Steps, TransferSteps, RefusalSteps, EntitySteps,
      MoneySteps, FundedSteps
<1>2. ASSUME NEW q \in Procs PROVE ProcInv(q)'
  BY NullsAssumption, JobFacts, LockOrder
  DEF IInv, TypeOK, ProcInv, Publish, Finish, lockVars, TransferSteps, RefusalSteps,
      EntitySteps, MoneySteps, FundedSteps
<1>3. ReadsAreFresh'
  BY NullsAssumption, JobFacts
  DEF IInv, TypeOK, ProcInv, ReadsAreFresh, HoldsBoth, MoneySteps, Publish, Finish,
      dbVars, lockVars
<1>4. QED
  BY <1>1, <1>2, <1>3 DEF IInv
-----------------------------------------------------------------------------
(* Every step of one request keeps the invariant.                          *)
LEMMA AdvanceIInv ==
    ASSUME IInv, NEW p \in Procs, Advance(p)
    PROVE  IInv'
<1>1. job[p] \in Jobs
  BY DEF IInv, ProcInv, Advance, LookupKey, IncrVelocity, InsertRefused, ReadBalance,
         CommitRefused, DuplicateKey, LockEntity, DecideAccept, DecideClaim, LockFirst,
         LockSecond, UpdateBalances, InsertTransfer, InsertDebit, InsertCredit, Commit, Publish
<1>2. CASE DuplicateKey(p)
  BY <1>2, RollbackIInv DEF DuplicateKey, Answers
<1>3. CASE DecideAccept(p)
  <2>1. CASE Proceed(p)
    BY <1>1, <1>3, <2>1, JobFacts, ProceedIInv DEF DecideAccept
  <2>2. CASE \E outcome \in {"conflict", "forbidden"} : Rollback(p, outcome)
    BY <2>2, RollbackIInv DEF Answers
  <2>3. QED
    BY <1>3, <2>1, <2>2 DEF DecideAccept
<1>4. CASE DecideClaim(p)
  <2>1. CASE Proceed(p) /\ job[p].actor # LinkRow[job[p].entity].creator
    BY <1>1, <1>4, <2>1, JobFacts, ProceedIInv DEF DecideClaim
  <2>2. CASE ExpireLink(p)
    BY <1>1, <1>4, <2>2, JobFacts, ExpireLinkIInv DEF DecideClaim
  <2>3. CASE \E outcome \in {"replay", "conflict", "own_link"} : Rollback(p, outcome)
    BY <2>3, RollbackIInv DEF Answers
  <2>4. QED
    BY <1>4, <2>1, <2>2, <2>3 DEF DecideClaim
<1>5. CASE UpdateBalances(p)
  <2>1. CASE Rollback(p, "insufficient")
    BY <2>1, RollbackIInv DEF Answers
  <2>2. CASE read[p].payer >= Amount(job[p])
    BY <1>5, <2>2, FundedIInv
  <2>3. QED
    BY <1>5, <2>1, <2>2 DEF UpdateBalances
<1>6. QED
  BY <1>2, <1>3, <1>4, <1>5, LookupKeyIInv, IncrVelocityIInv, InsertRefusedIInv,
     ReadBalanceIInv, CommitRefusedIInv, LockEntityIInv, LockFirstIInv, LockSecondIInv,
     InsertTransferIInv, InsertDebitIInv, InsertCreditIInv, CommitIInv, PublishIInv
  DEF Advance

(* The invariant is inductive, for every value of the constants.           *)
LEMMA IInvStep == IInv /\ [Next]_vars => IInv'
<1> SUFFICES ASSUME IInv, [Next]_vars PROVE IInv'
  OBVIOUS
<1>1. ASSUME NEW p \in Procs, Start(p) PROVE IInv'
  BY <1>1, StartIInv
<1>2. ASSUME NEW p \in Procs, Advance(p) PROVE IInv'
  BY <1>2, AdvanceIInv
<1>3. ASSUME NEW p \in Procs, Fail(p) PROVE IInv'
  BY <1>3, RollbackIInv DEF Fail, Answers
<1>4. ASSUME NEW l \in Links, Lapse(l) PROVE IInv'
  BY <1>4 DEF Lapse, IInv, TypeOK, ProcInv, ReadsAreFresh, dbVars, lockVars, redisVars, procVars
<1>5. CASE UNCHANGED vars
  BY <1>5
  DEF vars, IInv, TypeOK, ProcInv, ReadsAreFresh, dbVars, lockVars, redisVars, procVars
<1>6. QED
  BY <1>1, <1>2, <1>3, <1>4, <1>5 DEF Next

(* IInv holds in every state.                                              *)
LEMMA Invariance == Spec => []IInv
BY InitIInv, IInvStep, PTL DEF Spec

(* Every variable keeps its type: no interleaving of requests takes a      *)
(* balance below zero or a status outside those of the schema.             *)
THEOREM TypeCorrect == Spec => []TypeOK
<1>1. IInv => TypeOK
  BY DEF IInv
<1>2. QED
  BY <1>1, Invariance, PTL

(* No lost update: from its SELECT ... FOR UPDATE to its COMMIT the copies *)
(* that a request has of the two balances are the committed ones.          *)
THEOREM FreshReads == Spec => []ReadsAreFresh
<1>1. IInv => ReadsAreFresh
  BY DEF IInv
<1>2. QED
  BY <1>1, Invariance, PTL
-----------------------------------------------------------------------------
(***************************************************************************)
(* No set of requests waits on itself, however many they are: locks are    *)
(* taken in one order (entity row, balance rows by user id, key), so along *)
(* every wait the rank of what is waited for grows, and it is bounded.     *)
(***************************************************************************)
(* A lock that a request holds shows how far the request has come.         *)
LockInv(q) ==
    /\ \A e \in Entities : entity_lock[e] = q => pc[q] \in MoneySteps \cup {"read_entity"}
    /\ \A u \in Users : balance_lock[u] = q =>
            \/ pc[q] \in HoldsBoth
            \/ pc[q] = "lock_second" /\ u = FirstToLock(job[q])
    /\ \A k \in Keys : key_lock[k] = q => pc[q] \in KeySteps

LocksInv == \A q \in Procs : LockInv(q)
-----------------------------------------------------------------------------
(* A rollback leaves the request that does it with no lock.                *)
LEMMA RollbackLocks ==
    ASSUME IInv, LocksInv, NEW p \in Procs, NEW outcome \in Answers, Rollback(p, outcome)
    PROVE  LocksInv'
BY NullsAssumption DEF IInv, TypeOK, LocksInv, LockInv, Rollback, ReleaseLocks, Finish

(* Each step of a handler leaves every held lock with a holder that is     *)
(* where LockInv says.                                                     *)
LEMMA AdvanceLocks ==
    ASSUME IInv, LocksInv, NEW p \in Procs, Advance(p)
    PROVE  LocksInv'
<1>1. CASE LookupKey(p) \/ IncrVelocity(p)
  <2>1. /\ UNCHANGED <<lockVars, job>> /\ pc[p] \in {"lookup_key", "incr_velocity"}
        /\ \A q \in Procs : q # p => pc'[q] = pc[q]
    BY <1>1 DEF LookupKey, IncrVelocity, Goto, Finish, IInv, TypeOK
  <2>2. QED
    BY <2>1 DEF LocksInv, LockInv, HoldsBoth, MoneySteps, KeySteps, lockVars
<1>2. CASE InsertRefused(p) \/ InsertTransfer(p)
  <2>1. /\ pc[p] \in {"insert_refused", "insert_transfer"}
        /\ pc'[p] \in {"read_balance", "ledger_debit"}
        /\ \A q \in Procs : q # p => pc'[q] = pc[q]
        /\ pc[p] = "insert_transfer" => pc'[p] = "ledger_debit"
        /\ UNCHANGED <<balance_lock, entity_lock, job>>
        /\ key_lock' = [key_lock EXCEPT ![job[p].key] = p]
    BY <1>2 DEF InsertRefused, InsertTransfer, InsertKey, Goto, IInv, TypeOK
  <2>2. SUFFICES ASSUME NEW q \in Procs PROVE LockInv(q)'
    BY DEF LocksInv
  <2>3. CASE q = p
    BY <2>1, <2>3 DEF IInv, TypeOK, LocksInv, LockInv, HoldsBoth, MoneySteps, KeySteps
  <2>4. CASE q # p
    BY <2>1, <2>4 DEF IInv, TypeOK, LocksInv, LockInv
  <2>5. QED
    BY <2>3, <2>4
<1>3. CASE ReadBalance(p) \/ InsertDebit(p) \/ InsertCredit(p)
  <2>1. /\ pc[p] \in {"read_balance", "ledger_debit", "ledger_credit"}
        /\ pc'[p] = CASE pc[p] = "read_balance" -> "commit_refused"
                      [] pc[p] = "ledger_debit" -> "ledger_credit"
                      [] pc[p] = "ledger_credit" -> "commit"
        /\ \A q \in Procs : q # p => pc'[q] = pc[q]
        /\ UNCHANGED <<lockVars, job>>
    BY <1>3 DEF ReadBalance, InsertDebit, InsertCredit, Goto, IInv, TypeOK
  <2>2. QED
    BY <2>1 DEF LocksInv, LockInv, HoldsBoth, MoneySteps, KeySteps, lockVars
<1>4. CASE CommitRefused(p)
  BY <1>4, NullsAssumption DEF IInv, TypeOK, LocksInv, LockInv, CommitRefused, ReleaseLocks, Finish
<1>5. CASE Commit(p)
  BY <1>5, NullsAssumption
  DEF IInv, TypeOK, LocksInv, LockInv, Commit, ReleaseLocks, Finish, Goto
<1>6. CASE LockEntity(p)
  BY <1>6
  DEF IInv, TypeOK, LocksInv, LockInv, HoldsBoth, MoneySteps, KeySteps, LockEntity, Goto
<1>7. CASE LockFirst(p)
  BY <1>7
  DEF IInv, TypeOK, LocksInv, LockInv, HoldsBoth, MoneySteps, KeySteps, LockFirst, Goto
<1>8. CASE LockSecond(p)
  BY <1>8
  DEF IInv, TypeOK, LocksInv, LockInv, HoldsBoth, MoneySteps, KeySteps, LockSecond, Goto
<1>9. CASE Publish(p)
  BY <1>9
  DEF IInv, TypeOK, LocksInv, LockInv, HoldsBoth, MoneySteps, KeySteps, Publish, Finish, lockVars
<1>10. CASE DuplicateKey(p)
  BY <1>10, RollbackLocks DEF DuplicateKey, Answers
<1>11. ASSUME pc[p] = "read_entity", Proceed(p) PROVE LocksInv'
  BY <1>11
  DEF IInv, TypeOK, LocksInv, LockInv, HoldsBoth, MoneySteps, KeySteps, Proceed, Goto, lockVars
<1>12. CASE DecideAccept(p)
  BY <1>11, <1>12, RollbackLocks DEF DecideAccept, Answers
<1>13. ASSUME ExpireLink(p) PROVE LocksInv'
  BY <1>13, NullsAssumption
  DEF IInv, TypeOK, LocksInv, LockInv, ExpireLink, ReleaseLocks, Finish
<1>14. CASE DecideClaim(p)
  BY <1>11, <1>13, <1>14, RollbackLocks DEF DecideClaim, Answers
<1>15. CASE UpdateBalances(p)
  <2>1. CASE Rollback(p, "insufficient")
    BY <2>1, RollbackLocks DEF Answers
  <2>2. CASE Goto(p, "insert_transfer") /\ UNCHANGED <<lockVars, job>>
    BY <1>15, <2>2
    DEF IInv, TypeOK, LocksInv, LockInv, HoldsBoth, MoneySteps, KeySteps, UpdateBalances, Goto,
        lockVars
  <2>3. QED
    BY <1>15, <2>1, <2>2 DEF UpdateBalances
<1>16. QED
  BY <1>1, <1>2, <1>3, <1>4, <1>5, <1>6, <1>7, <1>8, <1>9, <1>10, <1>12, <1>14, <1>15 DEF Advance

(* No lock is held at first.                                               *)
LEMMA InitLocks == Init => LocksInv
BY NullsAssumption DEF Init, LocksInv, LockInv

(* Every step keeps the locks explained.                                   *)
LEMMA LocksStep == IInv /\ LocksInv /\ [Next]_vars => LocksInv'
<1> SUFFICES ASSUME IInv, LocksInv, [Next]_vars PROVE LocksInv'
  OBVIOUS
<1>1. ASSUME NEW p \in Procs, Start(p) PROVE LocksInv'
  BY <1>1
  DEF IInv, TypeOK, LocksInv, LockInv, HoldsBoth, MoneySteps, KeySteps, Start, Goto, lockVars
<1>2. ASSUME NEW p \in Procs, Advance(p) PROVE LocksInv'
  BY <1>2, AdvanceLocks
<1>3. ASSUME NEW p \in Procs, Fail(p) PROVE LocksInv'
  BY <1>3, RollbackLocks DEF Fail, Answers
<1>4. CASE (\E l \in Links : Lapse(l)) \/ UNCHANGED vars
  BY <1>4 DEF Lapse, vars, procVars, lockVars, LocksInv, LockInv
<1>5. QED
  BY <1>1, <1>2, <1>3, <1>4 DEF Next

(* In every state each lock is explained by the step of its holder.        *)
LEMMA LocksInvariance == Spec => [](IInv /\ LocksInv)
BY InitLocks, LocksStep, Invariance, PTL DEF Spec
-----------------------------------------------------------------------------
(* How far a request is from waiting for nothing: entity rows come before  *)
(* balance rows, these in the order of their users, and the key is last.   *)
Distance(p) ==
    CASE pc[p] = "lock_entity" -> NUsers + 2
      [] pc[p] = "lock_first"  -> NUsers + 2 - FirstToLock(job[p])
      [] pc[p] = "lock_second" -> NUsers + 2 - SecondToLock(job[p])
      [] pc[p] \in {"insert_refused", "insert_transfer"} -> 1
      [] OTHER -> 0

(* The distance is a natural number: user ids do not exceed NUsers.        *)
LEMMA DistanceType ==
    ASSUME IInv, NEW p \in Procs
    PROVE  Distance(p) \in Nat
BY UsersAssumption, JobFacts DEF Distance, IInv, ProcInv, Users

(* Whoever a request waits for is closer to waiting for nothing.           *)
LEMMA WaitsDescend ==
    ASSUME IInv, LocksInv, NEW p \in Procs, NEW q \in WaitsFor(p)
    PROVE  Distance(q) < Distance(p)
<1>1. q \in Procs /\ LockInv(q)
  BY DEF WaitsFor, LocksInv
<1>2. CASE pc[p] = "lock_entity" /\ entity_lock[job[p].entity] = q
  <2>1. job[p].entity \in Entities
    BY <1>2, JobFacts DEF IInv, ProcInv, EntitySteps, Entities
  <2>2. pc[q] \in MoneySteps \cup {"read_entity"}
    BY <1>1, <1>2, <2>1 DEF LockInv
  <2>3. QED
    BY <1>1, <1>2, <2>2, UsersAssumption, JobFacts
    DEF Distance, IInv, ProcInv, Users, MoneySteps
<1>3. ASSUME NEW u \in Users, balance_lock[u] = q PROVE Distance(q) < NUsers + 2 - u
  <2>1. CASE pc[q] \in HoldsBoth
    BY <2>1, UsersAssumption DEF Distance, HoldsBoth, Users
  <2>2. CASE pc[q] = "lock_second" /\ u = FirstToLock(job[q])
    <3>1. job[q] \in Jobs /\ Payer(job[q]) # Payee(job[q])
      BY <1>1, <2>2 DEF IInv, ProcInv, MoneySteps
    <3>2. SecondToLock(job[q]) > u
      BY <2>2, <3>1, UsersAssumption, JobFacts
      DEF FirstToLock, SecondToLock, PayerFirst, Users
    <3>3. QED
      BY <2>2, <3>1, <3>2, UsersAssumption, JobFacts DEF Distance, Users
  <2>3. QED
    BY <1>1, <1>3, <2>1, <2>2 DEF LockInv
<1>4. CASE pc[p] = "lock_first" /\ balance_lock[FirstToLock(job[p])] = q
  BY <1>3, <1>4, JobFacts DEF Distance, IInv, ProcInv
<1>5. CASE pc[p] = "lock_second" /\ balance_lock[SecondToLock(job[p])] = q
  BY <1>3, <1>5, JobFacts DEF Distance, IInv, ProcInv
<1>6. CASE pc[p] \in {"insert_refused", "insert_transfer"} /\ key_lock[job[p].key] = q
  <2>1. job[p].key \in Keys
    BY <1>6, JobFacts DEF IInv, ProcInv
  <2>2. pc[q] \in KeySteps
    BY <1>1, <1>6, <2>1 DEF LockInv
  <2>3. QED
    BY <1>6, <2>2 DEF Distance, KeySteps
<1>7. QED
  BY <1>2, <1>4, <1>5, <1>6 DEF WaitsFor

(* Where locks are explained, some request of any set waits for none of    *)
(* it: the one at the least distance.                                      *)
LEMMA NoCycle == IInv /\ LocksInv => NoDeadlock
<1> SUFFICES ASSUME IInv, LocksInv, NEW S \in (SUBSET Procs) \ {{}}
             PROVE  \E p \in S : WaitsFor(p) \cap S = {}
  BY DEF NoDeadlock
<1> DEFINE T == {Distance(p) : p \in S}
           Less == OpToRel(<, Nat)
<1>1. T \subseteq Nat /\ T # {}
  BY DistanceType
<1>2. PICK n \in T : \A m \in T : <<m, n>> \notin Less
  BY <1>1, NatLessThanWellFounded, WFMin
<1>3. \A m \in T : ~(m < n)
  BY <1>1, <1>2 DEF OpToRel
<1>4. PICK p \in S : n = Distance(p)
  OBVIOUS
<1>5. ASSUME NEW q \in WaitsFor(p) \cap S PROVE FALSE
  BY <1>3, <1>4, <1>5, WaitsDescend
<1>6. QED
  BY <1>5

(* In any set of requests one waits for none of the others: a deadlock is  *)
(* impossible through balance rows, entity rows and keys together.         *)
THEOREM DeadlockFree == Spec => []NoDeadlock
BY NoCycle, LocksInvariance, PTL
-----------------------------------------------------------------------------
(***************************************************************************)
(* The ledger explains the balances, and what was recorded stays.  The     *)
(* invariant adds to IInv what a request in flight knows of the ledger ids *)
(* it has drawn and of the key it has inserted.                            *)
(***************************************************************************)
IdSteps == {"ledger_credit", "commit"}

(* Ids come from the sequence, and no two rows of a user share one.        *)
RowIds ==
    /\ \A r \in ledger : r.id < ledger_seq
    /\ \A r, t \in ledger : r.user = t.user /\ r.id = t.id => r = t

(* Every user has a last row, and it shows the balance.                    *)
TopRows ==
    \A u \in Users : \E r \in RowsOf(u) :
        r.running_balance = balances[u] /\ \A t \in RowsOf(u) : t.id <= r.id

Chains ==
    \A r, s \in ledger :
        Precedes(r, s) => s.running_balance = r.running_balance + s.direction * s.amount

(* The ids a request has drawn come after every row of its two parties.    *)
IdsInv(p) ==
    /\ pc[p] \in IdSteps =>
        /\ ids[p].debit < ledger_seq
        /\ \A r \in ledger : r.user \in {Payer(job[p]), Payee(job[p])} => r.id < ids[p].debit
    /\ pc[p] = "commit" => ids[p].debit < ids[p].credit /\ ids[p].credit < ledger_seq

(* An open transaction that inserted a key holds it, and no row is there.  *)
KeyInv(p) == pc[p] \in KeySteps => key_lock[job[p].key] = p /\ transfers[job[p].key] = NoRow

LedgerInv == RowIds /\ TopRows /\ Chains /\ (\A p \in Procs : IdsInv(p) /\ KeyInv(p))
-----------------------------------------------------------------------------
(* Registration leaves each user one ledger row, which shows the balance.  *)
LEMMA InitLedgerInv == Init => LedgerInv
<1> SUFFICES ASSUME Init PROVE LedgerInv
  OBVIOUS
<1>1. RowIds
  BY UsersAssumption DEF Init, RowIds, Users
<1>2. TopRows
  <2> SUFFICES ASSUME NEW u \in Users
               PROVE  \E r \in RowsOf(u) :
                        r.running_balance = balances[u] /\ \A t \in RowsOf(u) : t.id <= r.id
    BY DEF TopRows
  <2> DEFINE opening == [id |-> u, user |-> u, direction |-> 1, amount |-> SEED_BALANCE_PAISA,
                         running_balance |-> SEED_BALANCE_PAISA, key |-> NoKey]
  <2>1. RowsOf(u) = {opening}
    BY DEF Init, RowsOf
  <2>2. opening.id <= opening.id
    BY UsersAssumption DEF Users
  <2>3. QED
    BY <2>1, <2>2 DEF Init
<1>3. Chains
  BY UsersAssumption DEF Init, Chains, Precedes, Users
<1>4. \A p \in Procs : IdsInv(p) /\ KeyInv(p)
  BY DEF Init, IdsInv, KeyInv, IdSteps, KeySteps
<1>5. QED
  BY <1>1, <1>2, <1>3, <1>4 DEF LedgerInv

(* Of all steps only three touch what the ledger rests on: the commit of   *)
(* money and the two ledger inserts.                                       *)
Quiet ==
    /\ UNCHANGED <<balances, ledger, ledger_seq>>
    /\ \A q \in Procs : pc'[q] \in IdSteps =>
            pc[q] = pc'[q] /\ ids'[q] = ids[q] /\ job'[q] = job[q]

(* A quiet step keeps the part of the invariant that speaks of the ledger. *)
LEMMA QuietLedger ==
    ASSUME LedgerInv, Quiet
    PROVE  RowIds' /\ TopRows' /\ Chains' /\ \A q \in Procs : IdsInv(q)'
<1>1. RowIds'
  BY DEF Quiet, LedgerInv, RowIds
<1>2. TopRows'
  BY DEF Quiet, LedgerInv, TopRows, RowsOf
<1>3. Chains'
  BY DEF Quiet, LedgerInv, Chains, Precedes, RowsOf
<1>4. ASSUME NEW q \in Procs PROVE IdsInv(q)'
  BY <1>4 DEF Quiet, LedgerInv, IdsInv, IdSteps
<1>5. QED
  BY <1>1, <1>2, <1>3, <1>4

(* What is rolled back leaves the ledger alone.                            *)
LEMMA RollbackQuiet ==
    ASSUME IInv, NEW p \in Procs, NEW outcome \in Answers, Rollback(p, outcome)
    PROVE  Quiet
BY DEF Quiet, Rollback, Finish, IInv, TypeOK, IdSteps, dbVars

(* So does every step of a handler but those three.                        *)
LEMMA AdvanceQuiet ==
    ASSUME IInv, NEW p \in Procs, Advance(p),
           ~Commit(p), ~InsertDebit(p), ~InsertCredit(p)
    PROVE  Quiet
<1>1. CASE LookupKey(p)
  BY <1>1 DEF Quiet, LookupKey, Goto, Finish, IInv, TypeOK, IdSteps, dbVars
<1>2. CASE IncrVelocity(p)
  BY <1>2 DEF Quiet, IncrVelocity, Goto, IInv, TypeOK, IdSteps, dbVars
<1>3. CASE InsertRefused(p) \/ InsertTransfer(p)
  BY <1>3 DEF Quiet, InsertRefused, InsertTransfer, InsertKey, Goto, IInv, TypeOK, IdSteps, dbVars
<1>4. CASE ReadBalance(p) \/ LockEntity(p) \/ LockFirst(p) \/ LockSecond(p)
  BY <1>4
  DEF Quiet, ReadBalance, LockEntity, LockFirst, LockSecond, Goto, IInv, TypeOK, IdSteps, dbVars
<1>5. CASE CommitRefused(p) \/ Publish(p)
  BY <1>5 DEF Quiet, CommitRefused, Publish, Finish, IInv, TypeOK, IdSteps, dbVars
<1>6. CASE DuplicateKey(p)
  BY <1>6, RollbackQuiet DEF DuplicateKey, Answers
<1>7. ASSUME Proceed(p) PROVE Quiet
  BY <1>7 DEF Quiet, Proceed, Goto, IInv, TypeOK, IdSteps, dbVars
<1>8. CASE DecideAccept(p)
  BY <1>7, <1>8, RollbackQuiet DEF DecideAccept, Answers
<1>9. ASSUME ExpireLink(p) PROVE Quiet
  BY <1>9 DEF Quiet, ExpireLink, Finish, IInv, TypeOK, IdSteps
<1>10. CASE DecideClaim(p)
  BY <1>7, <1>9, <1>10, RollbackQuiet DEF DecideClaim, Answers
<1>11. CASE UpdateBalances(p)
  <2>1. CASE Rollback(p, "insufficient")
    BY <2>1, RollbackQuiet DEF Answers
  <2>2. CASE Goto(p, "insert_transfer") /\ UNCHANGED <<dbVars, ledger_seq, job, ids>>
    BY <2>2 DEF Quiet, Goto, IInv, TypeOK, IdSteps, dbVars
  <2>3. QED
    BY <1>11, <2>1, <2>2 DEF UpdateBalances
<1>12. QED
  BY <1>1, <1>2, <1>3, <1>4, <1>5, <1>6, <1>8, <1>10, <1>11 DEF Advance
-----------------------------------------------------------------------------
(* The debit draws its id after every row of both parties has one.         *)
LEMMA InsertDebitLedger ==
    ASSUME IInv, LedgerInv, NEW p \in Procs, InsertDebit(p)
    PROVE  RowIds' /\ TopRows' /\ Chains' /\ \A q \in Procs : IdsInv(q)'
<1>1. RowIds'
  BY DEF IInv, TypeOK, LedgerRows, LedgerInv, RowIds, InsertDebit, dbVars
<1>2. TopRows' /\ Chains'
  BY DEF LedgerInv, TopRows, Chains, Precedes, RowsOf, InsertDebit, dbVars
<1>3. ASSUME NEW q \in Procs PROVE IdsInv(q)'
  BY DEF IInv, TypeOK, LedgerRows, LedgerInv, RowIds, IdsInv, IdSteps, InsertDebit, Goto, dbVars
<1>4. QED
  BY <1>1, <1>2, <1>3

(* The credit draws a later id than the debit, and still commits nothing.  *)
LEMMA InsertCreditLedger ==
    ASSUME IInv, LedgerInv, NEW p \in Procs, InsertCredit(p)
    PROVE  RowIds' /\ TopRows' /\ Chains' /\ \A q \in Procs : IdsInv(q)'
<1>1. RowIds'
  BY DEF IInv, TypeOK, LedgerRows, LedgerInv, RowIds, InsertCredit, dbVars
<1>2. TopRows' /\ Chains'
  BY DEF LedgerInv, TopRows, Chains, Precedes, RowsOf, InsertCredit, dbVars
<1>3. ASSUME NEW q \in Procs PROVE IdsInv(q)'
  BY DEF IInv, TypeOK, LedgerRows, LedgerInv, RowIds, IdsInv, IdSteps, InsertCredit, Goto, dbVars
<1>4. QED
  BY <1>1, <1>2, <1>3

(* A commit appends to two chains whose last rows it has locked: each new  *)
(* row continues from the last one, and becomes the last.                  *)
LEMMA CommitLedger ==
    ASSUME IInv, LedgerInv, NEW p \in Procs, Commit(p)
    PROVE  RowIds' /\ TopRows' /\ Chains' /\ \A q \in Procs : IdsInv(q)'
<1> DEFINE j == job[p]
           d == LedgerRow(ids[p].debit, Payer(j), -1, j, NewPayerBalance(p))
           c == LedgerRow(ids[p].credit, Payee(j), 1, j, NewPayeeBalance(p))
<1>1. /\ pc[p] = "commit"
      /\ ledger' = ledger \cup {d, c}
      /\ ledger_seq' = ledger_seq
      /\ balances' = [balances EXCEPT ![Payer(j)] = NewPayerBalance(p),
                                      ![Payee(j)] = NewPayeeBalance(p)]
  BY DEF Commit
<1>2. /\ j \in Jobs /\ Payer(j) \in Users /\ Payee(j) \in Users /\ Payer(j) # Payee(j)
      /\ Amount(j) \in Nat
  BY <1>1, JobFacts DEF IInv, ProcInv, MoneySteps
<1>3. /\ NewPayerBalance(p) = balances[Payer(j)] - Amount(j)
      /\ NewPayeeBalance(p) = balances[Payee(j)] + Amount(j)
  <2>1. read[p] = [payer |-> balances[Payer(j)], payee |-> balances[Payee(j)]]
    BY <1>1 DEF IInv, ReadsAreFresh, HoldsBoth
  <2>2. QED
    BY <2>1 DEF NewPayerBalance, NewPayeeBalance
<1>4. /\ d.id \in Nat /\ c.id \in Nat /\ d.id < c.id /\ c.id < ledger_seq
      /\ \A r \in ledger : r.user \in {Payer(j), Payee(j)} => r.id < d.id
  BY <1>1 DEF IInv, TypeOK, LedgerInv, IdsInv, IdSteps, LedgerRow
<1>5. /\ d.user = Payer(j) /\ d.running_balance = NewPayerBalance(p)
      /\ d.direction = -1 /\ d.amount = Amount(j)
      /\ c.user = Payee(j) /\ c.running_balance = NewPayeeBalance(p)
      /\ c.direction = 1 /\ c.amount = Amount(j)
  BY DEF LedgerRow
<1>6. ledger_seq \in Nat /\ \A r \in ledger : r.id \in Nat /\ r.running_balance \in Nat
  BY DEF IInv, TypeOK, LedgerRows
<1> HIDE DEF d, c
<1>7. RowIds'
  BY <1>1, <1>2, <1>4, <1>5, <1>6 DEF LedgerInv, RowIds
<1>8. TopRows'
  <2> SUFFICES ASSUME NEW u \in Users
               PROVE  \E r \in RowsOf(u)' :
                        r.running_balance = balances'[u] /\ \A t \in RowsOf(u)' : t.id <= r.id
    BY DEF TopRows
  <2>1. CASE u = Payer(j)
    <3>1. d \in RowsOf(u)' /\ \A t \in RowsOf(u)' : t.id <= d.id
      BY <1>1, <1>2, <1>4, <1>5, <1>6, <2>1 DEF RowsOf
    <3>2. d.running_balance = balances'[u]
      BY <1>1, <1>2, <1>5, <2>1 DEF IInv, TypeOK
    <3>3. QED
      BY <3>1, <3>2
  <2>2. CASE u = Payee(j)
    <3>1. c \in RowsOf(u)' /\ \A t \in RowsOf(u)' : t.id <= c.id
      BY <1>1, <1>2, <1>4, <1>5, <1>6, <2>2 DEF RowsOf
    <3>2. c.running_balance = balances'[u]
      BY <1>1, <1>2, <1>5, <2>2 DEF IInv, TypeOK
    <3>3. QED
      BY <3>1, <3>2
  <2>3. CASE u # Payer(j) /\ u # Payee(j)
    <3>1. RowsOf(u)' = RowsOf(u) /\ balances'[u] = balances[u]
      BY <1>1, <1>5, <2>3 DEF RowsOf, IInv, TypeOK
    <3>2. QED
      BY <3>1 DEF LedgerInv, TopRows
  <2>4. QED
    BY <2>1, <2>2, <2>3
<1>9. Chains'
  <2> SUFFICES ASSUME NEW r \in ledger', NEW s \in ledger', Precedes(r, s)'
               PROVE  s.running_balance = r.running_balance + s.direction * s.amount
    BY DEF Chains
  <2>1. CASE s \in ledger
    <3>1. r \in ledger
      BY <1>1, <1>2, <1>4, <1>5, <1>6, <2>1 DEF Precedes
    <3>2. Precedes(r, s)
      BY <1>1, <3>1 DEF Precedes, RowsOf
    <3>3. QED
      BY <2>1, <3>1, <3>2 DEF LedgerInv, Chains
  <2>2. CASE s \in {d, c} /\ r \in ledger
    <3>1. PICK top \in RowsOf(s.user) :
            /\ top.running_balance = balances[s.user]
            /\ \A t \in RowsOf(s.user) : t.id <= top.id
      BY <1>2, <1>5, <2>2 DEF LedgerInv, TopRows
    <3>2. r.user = s.user /\ top \in ledger /\ top.user = s.user
      BY <3>1 DEF Precedes, RowsOf
    <3>3. top.id < s.id /\ r.id <= top.id
      BY <1>2, <1>4, <1>5, <1>6, <2>2, <3>1, <3>2 DEF RowsOf
    <3>4. top.id <= r.id \/ s.id <= top.id
      BY <1>1, <3>2 DEF Precedes, RowsOf
    <3>5. top = r
      BY <1>4, <1>6, <2>2, <3>2, <3>3, <3>4 DEF LedgerInv, RowIds
    <3>6. QED
      BY <1>2, <1>3, <1>5, <2>2, <3>1, <3>5 DEF IInv, TypeOK
  <2>3. CASE s \in {d, c} /\ r \in {d, c}
    BY <1>2, <1>4, <1>5, <2>3 DEF Precedes
  <2>4. QED
    BY <1>1, <2>1, <2>2, <2>3
<1>10. ASSUME NEW q \in Procs PROVE IdsInv(q)'
  <2>1. CASE q = p
    BY <1>1, <2>1 DEF Commit, Goto, Finish, IInv, TypeOK, IdsInv, IdSteps
  <2>2. CASE q # p /\ pc[q] \in IdSteps
    <3>1. {Payer(job[q]), Payee(job[q])} \cap {Payer(j), Payee(j)} = {}
      BY <1>1, <2>2 DEF IInv, ReadsAreFresh, HoldsBoth, IdSteps
    <3>2. pc'[q] = pc[q] /\ ids'[q] = ids[q] /\ job'[q] = job[q]
      BY <1>1, <2>2 DEF Commit, Goto, Finish, IInv, TypeOK
    <3>3. QED
      BY <1>1, <1>5, <3>1, <3>2 DEF LedgerInv, IdsInv
  <2>3. CASE q # p /\ pc[q] \notin IdSteps
    <3>1. pc'[q] = pc[q]
      BY <2>3 DEF Commit, Goto, Finish, IInv, TypeOK
    <3>2. QED
      BY <2>3, <3>1 DEF IdsInv, IdSteps
  <2>4. QED
    BY <2>1, <2>2, <2>3
<1>11. QED
  BY <1>7, <1>8, <1>9, <1>10
-----------------------------------------------------------------------------
(* A key stays with the transaction that inserted it until that ends, and  *)
(* only that transaction writes a transfer row under it.                   *)
LEMMA KeyInvRollback ==
    ASSUME IInv, LedgerInv, NEW p \in Procs, NEW outcome \in Answers, Rollback(p, outcome),
           NEW q \in Procs
    PROVE  KeyInv(q)'
BY JobFacts
DEF IInv, TypeOK, ProcInv, LedgerInv, KeyInv, KeySteps, Rollback, ReleaseLocks, Finish, dbVars

(* No step of a handler takes a key, or the row under it, from its holder. *)
LEMMA KeyInvAdvance ==
    ASSUME IInv, LedgerInv, NEW p \in Procs, Advance(p), NEW q \in Procs
    PROVE  KeyInv(q)'
<1>1. CASE LookupKey(p)
  BY <1>1 DEF IInv, TypeOK, LedgerInv, KeyInv, KeySteps, LookupKey, Goto, Finish, dbVars, lockVars
<1>2. CASE IncrVelocity(p)
  BY <1>2 DEF IInv, TypeOK, LedgerInv, KeyInv, KeySteps, IncrVelocity, Goto, dbVars, lockVars
<1>3. CASE InsertRefused(p) \/ InsertTransfer(p)
  BY <1>3, NullsAssumption, JobFacts
  DEF IInv, TypeOK, ProcInv, LedgerInv, KeyInv, KeySteps, InsertRefused, InsertTransfer,
      InsertKey, Goto, dbVars
<1>4. CASE ReadBalance(p) \/ LockEntity(p) \/ LockFirst(p) \/ LockSecond(p)
  BY <1>4
  DEF IInv, TypeOK, LedgerInv, KeyInv, KeySteps, ReadBalance, LockEntity, LockFirst, LockSecond,
      Goto, dbVars, lockVars
<1>5. CASE InsertDebit(p) \/ InsertCredit(p)
  BY <1>5
  DEF IInv, TypeOK, LedgerInv, KeyInv, KeySteps, InsertDebit, InsertCredit, Goto, dbVars, lockVars
<1>6. CASE CommitRefused(p)
  BY <1>6, JobFacts
  DEF IInv, TypeOK, ProcInv, LedgerInv, KeyInv, KeySteps, CommitRefused, ReleaseLocks, Finish
<1>7. CASE Commit(p)
  BY <1>7, JobFacts
  DEF IInv, TypeOK, ProcInv, LedgerInv, KeyInv, KeySteps, Commit, ReleaseLocks, Goto, Finish
<1>8. CASE Publish(p)
  BY <1>8 DEF IInv, TypeOK, LedgerInv, KeyInv, KeySteps, Publish, Finish, dbVars, lockVars
<1>9. CASE DuplicateKey(p)
  BY <1>9, KeyInvRollback DEF DuplicateKey, Answers
<1>10. ASSUME Proceed(p) PROVE KeyInv(q)'
  BY <1>10 DEF IInv, TypeOK, LedgerInv, KeyInv, KeySteps, Proceed, Goto, dbVars, lockVars
<1>11. CASE DecideAccept(p)
  BY <1>10, <1>11, KeyInvRollback DEF DecideAccept, Answers
<1>12. ASSUME ExpireLink(p) PROVE KeyInv(q)'
  BY <1>12, JobFacts
  DEF IInv, TypeOK, ProcInv, LedgerInv, KeyInv, KeySteps, ExpireLink, ReleaseLocks, Finish
<1>13. CASE DecideClaim(p)
  BY <1>10, <1>12, <1>13, KeyInvRollback DEF DecideClaim, Answers
<1>14. CASE UpdateBalances(p)
  <2>1. CASE Rollback(p, "insufficient")
    BY <2>1, KeyInvRollback DEF Answers
  <2>2. CASE Goto(p, "insert_transfer") /\ UNCHANGED <<dbVars, lockVars, job>>
    BY <2>2 DEF IInv, TypeOK, LedgerInv, KeyInv, KeySteps, Goto, dbVars, lockVars
  <2>3. QED
    BY <1>14, <2>1, <2>2 DEF UpdateBalances
<1>15. QED
  BY <1>1, <1>2, <1>3, <1>4, <1>5, <1>6, <1>7, <1>8, <1>9, <1>11, <1>13, <1>14 DEF Advance

(* The two invariants together are inductive.                              *)
LEMMA LedgerStep == IInv /\ LedgerInv /\ [Next]_vars => LedgerInv'
<1> SUFFICES ASSUME IInv, LedgerInv, [Next]_vars PROVE LedgerInv'
  OBVIOUS
<1>1. ASSUME NEW p \in Procs, Start(p) PROVE LedgerInv'
  <2>1. Quiet
    BY <1>1 DEF Quiet, Start, Goto, IInv, TypeOK, IdSteps, dbVars
  <2>2. ASSUME NEW q \in Procs PROVE KeyInv(q)'
    BY <1>1 DEF IInv, TypeOK, LedgerInv, KeyInv, KeySteps, Start, Goto, dbVars, lockVars
  <2>3. QED
    BY <2>1, <2>2, QuietLedger DEF LedgerInv
<1>2. ASSUME NEW p \in Procs, Advance(p) PROVE LedgerInv'
  <2>1. RowIds' /\ TopRows' /\ Chains' /\ \A q \in Procs : IdsInv(q)'
    BY <1>2, AdvanceQuiet, QuietLedger, InsertDebitLedger, InsertCreditLedger, CommitLedger
  <2>2. QED
    BY <1>2, <2>1, KeyInvAdvance DEF LedgerInv
<1>3. ASSUME NEW p \in Procs, Fail(p) PROVE LedgerInv'
  <2>1. Rollback(p, "error") /\ "error" \in Answers
    BY <1>3 DEF Fail, Answers
  <2>2. QED
    BY <2>1, RollbackQuiet, QuietLedger, KeyInvRollback DEF LedgerInv
<1>4. CASE (\E l \in Links : Lapse(l)) \/ UNCHANGED vars
  <2>1. UNCHANGED <<dbVars, ledger_seq, lockVars, procVars>>
    BY <1>4 DEF Lapse, vars
  <2>2. Quiet
    BY <2>1 DEF Quiet, dbVars, procVars
  <2>3. ASSUME NEW q \in Procs PROVE KeyInv(q)'
    BY <2>1 DEF LedgerInv, KeyInv, dbVars, lockVars, procVars
  <2>4. QED
    BY <2>2, <2>3, QuietLedger DEF LedgerInv
<1>5. QED
  BY <1>1, <1>2, <1>3, <1>4 DEF Next

(* The ledger invariant holds in every state.                              *)
LEMMA LedgerInvariance == Spec => [](IInv /\ LedgerInv)
BY InitLedgerInv, LedgerStep, Invariance, PTL DEF Spec

(* The rows of a user chain, and the one with the highest id is the one    *)
(* that shows the balance.                                                 *)
LEMMA BooksExplain == IInv /\ LedgerInv => LedgerExplainsBalances
<1> SUFFICES ASSUME IInv, LedgerInv PROVE LedgerExplainsBalances
  OBVIOUS
<1>1. ASSUME NEW u \in Users, NEW r \in RowsOf(u), \A t \in RowsOf(u) : t.id <= r.id
      PROVE  r.running_balance = balances[u]
  <2>1. PICK top \in RowsOf(u) :
          top.running_balance = balances[u] /\ \A t \in RowsOf(u) : t.id <= top.id
    BY DEF LedgerInv, TopRows
  <2>2. top.id = r.id
    <3>1. top \in LedgerRows /\ r \in LedgerRows
      BY <1>1, <2>1 DEF IInv, TypeOK, RowsOf
    <3>2. top.id <= r.id /\ r.id <= top.id
      BY <1>1, <2>1
    <3>3. QED
      BY <3>1, <3>2 DEF LedgerRows
  <2>3. top = r
    BY <2>2 DEF LedgerInv, RowIds, RowsOf
  <2>4. QED
    BY <2>1, <2>3
<1>2. QED
  BY <1>1 DEF LedgerInv, Chains, LedgerExplainsBalances

(* The first and third contracts of the audit: in id order each row of a   *)
(* user continues from the one before, and the last one shows the balance. *)
THEOREM LedgerCorrect == Spec => []LedgerExplainsBalances
BY BooksExplain, LedgerInvariance, PTL

(* Only the two commits of a transfer row write records.                   *)
LEMMA OthersKeepRecords ==
    ASSUME [Next]_vars, \A p \in Procs : ~Commit(p) /\ ~CommitRefused(p)
    PROVE  UNCHANGED <<balances, transfers, ledger, tx_history>>
<1>1. ASSUME NEW p \in Procs, Start(p) \/ Fail(p)
      PROVE  UNCHANGED <<balances, transfers, ledger, tx_history>>
  BY <1>1 DEF Start, Fail, Rollback, dbVars
<1>2. ASSUME NEW p \in Procs, Advance(p)
      PROVE  UNCHANGED <<balances, transfers, ledger, tx_history>>
  BY <1>2
  DEF Advance, LookupKey, IncrVelocity, InsertRefused, InsertKey, ReadBalance, DuplicateKey,
      LockEntity, DecideAccept, DecideClaim, ExpireLink, Proceed, LockFirst, LockSecond,
      UpdateBalances, InsertTransfer, InsertDebit, InsertCredit, Publish, Rollback, dbVars
<1>3. QED
  BY <1>1, <1>2 DEF Next, Lapse, vars, dbVars

(* What a commit starts from: its key has no row and its draws are new.    *)
LEMMA CommitFacts ==
    ASSUME IInv, LedgerInv, NEW p \in Procs, Commit(p)
    PROVE  /\ job[p] \in Jobs /\ transfers[job[p].key] = NoRow
           /\ ids[p].debit \in Nat /\ ids[p].credit \in Nat /\ ids[p].debit < ids[p].credit
           /\ \A t \in ledger : t.id \in Nat
           /\ \A t \in ledger : t.user \in {Payer(job[p]), Payee(job[p])} => t.id < ids[p].debit
<1>1. pc[p] = "commit"
  BY DEF Commit
<1>2. QED
  BY <1>1
  DEF IInv, TypeOK, ProcInv, LedgerRows, LedgerInv, IdsInv, IdSteps, KeyInv, KeySteps

(* A step rewrites no transfer row, drops no row of the ledger or of the   *)
(* history, and inserts ledger rows after those their user has.            *)
RecordsKept ==
    /\ \A k \in Keys : transfers[k] # NoRow => transfers'[k] = transfers[k]
    /\ ledger \subseteq ledger'
    /\ \A r \in ledger' \ ledger : \A t \in ledger : t.user = r.user => t.id < r.id
    /\ tx_history \subseteq tx_history'

(* The two commits write under keys and ids that are new, and nothing else *)
(* writes a record.                                                        *)
LEMMA RecordsStep == IInv /\ LedgerInv /\ [Next]_vars => RecordsKept
<1> SUFFICES ASSUME IInv, LedgerInv, [Next]_vars PROVE RecordsKept
  OBVIOUS
<1>1. ASSUME NEW p \in Procs, Commit(p) PROVE RecordsKept
  <2>1. \A r \in ledger' \ ledger : \A t \in ledger : t.user = r.user => t.id < r.id
    <3>1. ASSUME NEW r \in ledger' \ ledger
          PROVE  /\ r.user \in {Payer(job[p]), Payee(job[p])}
                 /\ r.id \in {ids[p].debit, ids[p].credit}
      BY <1>1, <3>1 DEF Commit, LedgerRow
    <3>2. QED
      BY <1>1, <3>1, CommitFacts
  <2>2. ledger \subseteq ledger' /\ tx_history \subseteq tx_history'
    BY <1>1 DEF Commit
  <2>3. \A k \in Keys : transfers[k] # NoRow => transfers'[k] = transfers[k]
    BY <1>1, CommitFacts DEF Commit, IInv, TypeOK
  <2>4. QED
    BY <2>1, <2>2, <2>3 DEF RecordsKept
<1>2. ASSUME NEW p \in Procs, CommitRefused(p) PROVE RecordsKept
  BY <1>2 DEF CommitRefused, IInv, TypeOK, LedgerInv, KeyInv, KeySteps, RecordsKept
<1>3. CASE \A p \in Procs : ~Commit(p) /\ ~CommitRefused(p)
  BY <1>3, OthersKeepRecords DEF RecordsKept
<1>4. QED
  BY <1>1, <1>2, <1>3

(* No step rewrites a transfer row, drops a row of the ledger or of the    *)
(* history, or inserts a ledger row before those its user already has.     *)
THEOREM RecordsStay == Spec => RecordsArePermanent
<1>1. IInv /\ LedgerInv /\ [Next]_vars => [RecordsKept]_vars
  BY RecordsStep
<1>2. QED
  BY <1>1, LedgerInvariance, PTL DEF Spec, RecordsArePermanent, RecordsKept

(* A step that writes no ledger row and completes no transfer keeps it.    *)
LEMMA LegsStay ==
    ASSUME KeyMovesMoneyOnce, ledger' = ledger,
           \A k \in Keys : \/ transfers'[k] = transfers[k]
                           \/ /\ transfers[k].status # "completed"
                              /\ transfers'[k].status # "completed"
    PROVE  KeyMovesMoneyOnce'
BY DEF KeyMovesMoneyOnce, Legs

(* No key has paid at first.                                               *)
LEMMA InitKeys == Init => KeyMovesMoneyOnce
BY NullsAssumption DEF Init, KeyMovesMoneyOnce, Legs, NoRow

(* A commit completes the row of its key, which had none, with its two     *)
(* legs.                                                                   *)
LEMMA KeysStep == IInv /\ LedgerInv /\ KeyMovesMoneyOnce /\ [Next]_vars => KeyMovesMoneyOnce'
<1> SUFFICES ASSUME IInv, LedgerInv, KeyMovesMoneyOnce, [Next]_vars
             PROVE  KeyMovesMoneyOnce'
  OBVIOUS
<1>1. ASSUME NEW p \in Procs, Commit(p) PROVE KeyMovesMoneyOnce'
  <2>1. PICK paid \in Keys : paid = job[p].key
    BY <1>1, CommitFacts, JobFacts
  <2>2. PICK row : row = TransferRow(job[p], "completed")
    OBVIOUS
  <2>3. PICK d, c :
          /\ d.key = paid /\ d.direction = -1 /\ d.user = row.sender /\ d.amount = row.amount
          /\ c.key = paid /\ c.direction = 1 /\ c.user = row.recipient /\ c.amount = row.amount
          /\ ledger' = ledger \cup {d, c}
    BY <1>1, <2>1, <2>2 DEF Commit, LedgerRow, TransferRow
  <2>4. /\ transfers[paid] = NoRow /\ row.status = "completed"
        /\ transfers' = [transfers EXCEPT ![paid] = row]
    BY <1>1, <2>1, <2>2, CommitFacts DEF Commit, TransferRow
  <2>5. Legs(paid)' = {d, c} /\ transfers'[paid] = row
    <3>1. Legs(paid) = {}
      BY <2>4 DEF KeyMovesMoneyOnce, NoRow
    <3>2. QED
      BY <2>3, <2>4, <3>1 DEF Legs, IInv, TypeOK
  <2>6. ASSUME NEW k \in Keys, k # paid
        PROVE  Legs(k)' = Legs(k) /\ transfers'[k] = transfers[k]
    BY <2>3, <2>4, <2>6 DEF Legs, IInv, TypeOK
  <2>7. d \in ledger' /\ c \in ledger' /\ ledger \subseteq ledger'
    BY <2>3
  <2>8. QED
    BY <2>3, <2>4, <2>5, <2>6, <2>7 DEF KeyMovesMoneyOnce
<1>2. ASSUME NEW p \in Procs, CommitRefused(p) PROVE KeyMovesMoneyOnce'
  <2>1. /\ job[p].key \in Keys /\ transfers[job[p].key] = NoRow
        /\ transfers' = [transfers EXCEPT
              ![job[p].key] = TransferRow(job[p], RefusedStatus(job[p]))]
        /\ ledger' = ledger
    BY <1>2, JobFacts DEF CommitRefused, IInv, ProcInv, LedgerInv, KeyInv, KeySteps
  <2>2. QED
    BY <2>1, LegsStay DEF IInv, TypeOK, TransferRow, RefusedStatus, NoRow
<1>3. CASE \A p \in Procs : ~Commit(p) /\ ~CommitRefused(p)
  BY <1>3, OthersKeepRecords, LegsStay
<1>4. QED
  BY <1>1, <1>2, <1>3

(* A key pays once: its row, if completed, has exactly one debit and one   *)
(* credit that match it, and a key without a completed row has none.       *)
THEOREM KeysPayOnce == Spec => []KeyMovesMoneyOnce
BY InitKeys, KeysStep, LedgerInvariance, PTL DEF Spec
-----------------------------------------------------------------------------
(***************************************************************************)
(* The totals: the balances of all users always add up to what             *)
(* registration put in, and what a sender was charged within a day stays   *)
(* below the cap. The second needs to count the requests in flight as      *)
(* well: each is charged before it commits.                                *)
(***************************************************************************)
(* A commit that writes both rows adds up: what the payer loses the payee  *)
(* gains.                                                                  *)
LEMMA CommitBalances ==
    ASSUME IInv, NEW p \in Procs, Commit(p)
    PROVE  LET from == Payer(job[p])
               to == Payee(job[p])
           IN  /\ from \in Users /\ to \in Users /\ from # to /\ Amount(job[p]) \in Nat
               /\ balances' = [balances EXCEPT ![from] = balances[from] - Amount(job[p]),
                                               ![to] = balances[to] + Amount(job[p])]
<1>1. pc[p] = "commit"
  BY DEF Commit
<1>2. /\ job[p] \in Jobs /\ Payer(job[p]) # Payee(job[p])
      /\ read[p] = [payer |-> balances[Payer(job[p])], payee |-> balances[Payee(job[p])]]
  BY <1>1 DEF IInv, ProcInv, MoneySteps, ReadsAreFresh, HoldsBoth
<1>3. QED
  BY <1>2, JobFacts DEF Commit, NewPayerBalance, NewPayeeBalance

(* The users can be counted.                                               *)
LEMMA UsersFinite == IsFiniteSet(Users) /\ Cardinality(Users) = NUsers
BY UsersAssumption, FS_Interval DEF Users

(* Registration put in the seed money of every user.                       *)
LEMMA InitMoney == Init => NoMoneyCreated
<1> SUFFICES ASSUME Init PROVE SumFunctionOnSet(balances, Users) = NUsers * SEED_BALANCE_PAISA
  BY DEF NoMoneyCreated
<1>1. \A u \in Users : balances[u] = SEED_BALANCE_PAISA
  BY DEF Init
<1>2. SEED_BALANCE_PAISA \in Int
  BY AmountsAssumption DEF PaisaAmounts
<1>3. QED
  BY UsersFinite, <1>1, <1>2, SumConstant

(* A commit takes from one user what it gives to another, and no other     *)
(* step writes a balance.                                                  *)
LEMMA MoneyStep == IInv /\ NoMoneyCreated /\ [Next]_vars => NoMoneyCreated'
<1> SUFFICES ASSUME IInv, [Next]_vars
             PROVE  SumFunctionOnSet(balances, Users)' = SumFunctionOnSet(balances, Users)
  BY DEF NoMoneyCreated, Users
<1>1. ASSUME NEW p \in Procs, Commit(p)
      PROVE  SumFunctionOnSet(balances', Users) = SumFunctionOnSet(balances, Users)
  <2> DEFINE from == Payer(job[p])
             to == Payee(job[p])
             a == Amount(job[p])
             debited == [balances EXCEPT ![from] = balances[from] - a]
  <2>1. /\ from \in Users /\ to \in Users /\ from # to /\ a \in Int /\ 0 - a \in Int
        /\ balances' = [balances EXCEPT ![from] = balances[from] - a, ![to] = balances[to] + a]
    BY <1>1, CommitBalances
  <2>2. balances \in [Users -> Int]
    BY DEF IInv, TypeOK
  <2> HIDE DEF from, to, a
  <2>3. /\ debited[from] = balances[from] + (0 - a)
        /\ \A u \in Users \ {from} : debited[u] = balances[u]
        /\ \A u \in Users : debited[u] \in Int /\ balances[u] \in Int
    BY <2>1, <2>2
  <2>4. /\ balances'[to] = debited[to] + a
        /\ \A u \in Users \ {to} : balances'[u] = debited[u]
    BY <2>1, <2>2
  <2> HIDE DEF debited
  <2>5. SumFunctionOnSet(debited, Users) = SumFunctionOnSet(balances, Users) + (0 - a)
    BY UsersFinite, <2>1, <2>3, SumChange
  <2>6. SumFunctionOnSet(balances', Users) = SumFunctionOnSet(debited, Users) + a
    <3>1. to \in Users /\ a \in Int /\ \A u \in Users : debited[u] \in Int
      BY <2>1, <2>3
    <3>2. QED
      BY UsersFinite, <2>4, <3>1, SumChange
  <2>7. SumFunctionOnSet(balances, Users) \in Int
    BY UsersFinite, <2>2, SumType
  <2>8. QED
    BY <2>1, <2>5, <2>6, <2>7
<1>2. CASE \A p \in Procs : ~Commit(p)
  <2>1. balances' = balances
    BY <1>2, OthersKeepRecords DEF CommitRefused
  <2>2. QED
    BY <2>1
<1>3. QED
  BY <1>1, <1>2

(* The second contract of the audit: no interleaving of payments creates   *)
(* or loses a paisa of what registration put in.                           *)
THEOREM MoneyConserved == Spec => []NoMoneyCreated
BY InitMoney, MoneyStep, Invariance, PTL DEF Spec
-----------------------------------------------------------------------------
(* The transfers of a user that passed the velocity check and are not yet  *)
(* committed, and what they will take; those that only passed because INCR *)
(* failed are left out here too.                                           *)
InFlight(u) ==
    {p \in Procs : /\ pc[p] \in MoneySteps /\ job[p].kind = "transfer" /\ Payer(job[p]) = u
                   /\ job[p].key \notin failed_open}
Committing(u) == SumFunctionOnSet([p \in Procs |-> Amount(job[p])], InFlight(u))

(* The counter of the day covers what was sent and what is on its way.     *)
UserCap(u) ==
    /\ IsFiniteSet(SentBy(u)) /\ IsFiniteSet(InFlight(u))
    /\ \A h \in SentBy(u) : h.amount \in Nat
    /\ TransferOutflow(u) + Committing(u) <= DAILY_OUTFLOW_CAP_PAISA
    /\ TransferOutflow(u) + Committing(u) <= daily_outflow[u]

CapInv == \A u \in Users : UserCap(u)

(* What is in flight has an amount.                                        *)
LEMMA InFlightAmounts ==
    ASSUME IInv, NEW u, NEW p \in InFlight(u)
    PROVE  p \in Procs /\ job[p] \in Jobs /\ Amount(job[p]) \in Nat
BY JobFacts DEF InFlight, IInv, ProcInv, MoneySteps

(* What a user has sent and is sending are natural numbers.                *)
LEMMA CapSums ==
    ASSUME IInv, NEW u \in Users, UserCap(u)
    PROVE  TransferOutflow(u) \in Nat /\ Committing(u) \in Nat
<1>1. TransferOutflow(u) \in Nat
  <2> DEFINE f == [h \in tx_history |-> h.amount]
  <2>1. IsFiniteSet(SentBy(u)) /\ \A h \in SentBy(u) : f[h] \in Nat /\ f[h] <= f[h]
    BY DEF UserCap, SentBy
  <2> HIDE DEF f
  <2>2. SumFunctionOnSet(f, SentBy(u)) \in Nat
    BY <2>1, SumMonotonic
  <2>3. QED
    BY <2>2 DEF TransferOutflow, f
<1>2. Committing(u) \in Nat
  <2> DEFINE f == [p \in Procs |-> Amount(job[p])]
  <2>1. IsFiniteSet(InFlight(u)) /\ \A p \in InFlight(u) : f[p] \in Nat /\ f[p] <= f[p]
    BY InFlightAmounts DEF UserCap, InFlight
  <2> HIDE DEF f
  <2>2. SumFunctionOnSet(f, InFlight(u)) \in Nat
    BY <2>1, SumMonotonic
  <2>3. QED
    BY <2>2 DEF Committing, f
<1>3. QED
  BY <1>1, <1>2

(* What is on its way only shrinks when the same requests, or fewer, are   *)
(* still at it.                                                            *)
LEMMA CommittingShrinks ==
    ASSUME IInv, NEW u \in Users, UserCap(u),
           NEW S \in SUBSET InFlight(u), \A q \in S : job'[q] = job[q]
    PROVE  /\ IsFiniteSet(S)
           /\ SumFunctionOnSet([q \in Procs |-> Amount(job'[q])], S) \in Nat
           /\ SumFunctionOnSet([q \in Procs |-> Amount(job'[q])], S)
                = SumFunctionOnSet([q \in Procs |-> Amount(job[q])], S)
           /\ SumFunctionOnSet([q \in Procs |-> Amount(job[q])], S) <= Committing(u)
<1> DEFINE f == [q \in Procs |-> Amount(job[q])]
           g == [q \in Procs |-> Amount(job'[q])]
<1>1. IsFiniteSet(InFlight(u)) /\ IsFiniteSet(S)
  BY FS_Subset DEF UserCap
<1>2. \A q \in InFlight(u) : f[q] \in Nat /\ f[q] <= f[q]
  BY InFlightAmounts DEF InFlight
<1>3. \A q \in S : f[q] \in Nat /\ f[q] <= f[q] /\ f[q] = g[q]
  BY <1>2 DEF InFlight
<1>4. Committing(u) = SumFunctionOnSet(f, InFlight(u))
  BY DEF Committing
<1> HIDE DEF f, g
<1>5. SumFunctionOnSet(f, S) \in Nat /\ SumFunctionOnSet(f, S) <= SumFunctionOnSet(f, InFlight(u))
  BY <1>1, <1>2, <1>3, SumMonotonic
<1>6. SumFunctionOnSet(f, S) = SumFunctionOnSet(g, S)
  BY <1>1, <1>3, SumAgree
<1>7. QED
  BY <1>1, <1>4, <1>5, <1>6 DEF f, g

(* For a user whom a step neither charges nor debits, nothing rises but    *)
(* the counter.                                                            *)
Uncharged(u) ==
    /\ SentBy(u)' \subseteq SentBy(u) /\ tx_history \subseteq tx_history'
    /\ InFlight(u)' \subseteq InFlight(u)
    /\ \A q \in InFlight(u)' : job'[q] = job[q]
    /\ daily_outflow[u] <= daily_outflow'[u]

(* A user who has sent nothing more has sent no more than before.          *)
LEMMA SentShrinks ==
    ASSUME NEW u, IsFiniteSet(SentBy(u)), \A h \in SentBy(u) : h.amount \in Nat,
           SentBy(u)' \subseteq SentBy(u), tx_history \subseteq tx_history'
    PROVE  /\ IsFiniteSet(SentBy(u)') /\ \A h \in SentBy(u)' : h.amount \in Nat
           /\ TransferOutflow(u)' \in Nat /\ TransferOutflow(u)' <= TransferOutflow(u)
<1> DEFINE f == [h \in tx_history |-> h.amount]
           g == [h \in tx_history' |-> h.amount]
<1>1. IsFiniteSet(SentBy(u)')
  BY FS_Subset
<1>2. \A h \in SentBy(u) : f[h] \in Nat
  BY DEF SentBy
<1>3. \A h \in SentBy(u)' : g[h] \in Nat /\ g[h] <= f[h]
  <2>1. ASSUME NEW h \in SentBy(u)' PROVE g[h] = h.amount /\ f[h] = h.amount /\ h.amount \in Nat
    BY DEF SentBy
  <2>2. QED
    BY <2>1
<1> HIDE DEF f, g
<1>4. /\ SumFunctionOnSet(g, SentBy(u)') \in Nat
      /\ SumFunctionOnSet(g, SentBy(u)') <= SumFunctionOnSet(f, SentBy(u))
  BY <1>2, <1>3, SumMonotonic
<1>5. QED
  BY <1>1, <1>4 DEF TransferOutflow, f, g

(* A step that charges a user nothing keeps what the cap says of the user. *)
LEMMA UnchargedCap ==
    ASSUME IInv, IInv', NEW u \in Users, UserCap(u), Uncharged(u)
    PROVE  UserCap(u)'
<1>1. /\ IsFiniteSet(SentBy(u)') /\ \A h \in SentBy(u)' : h.amount \in Nat
      /\ TransferOutflow(u)' \in Nat /\ TransferOutflow(u)' <= TransferOutflow(u)
  BY SentShrinks DEF UserCap, Uncharged
<1>2. IsFiniteSet(InFlight(u)') /\ Committing(u)' \in Nat /\ Committing(u)' <= Committing(u)
  BY CommittingShrinks DEF Uncharged, Committing
<1>3. TransferOutflow(u) \in Nat /\ Committing(u) \in Nat
  BY CapSums
<1>4. daily_outflow[u] \in Nat /\ daily_outflow'[u] \in Nat /\ DAILY_OUTFLOW_CAP_PAISA \in Nat
  BY AmountsAssumption DEF IInv, TypeOK
<1>5. QED
  BY <1>1, <1>2, <1>3, <1>4 DEF UserCap, Uncharged

(* A step that writes no record and leaves Redis alone, and after which no *)
(* further transfer is past the check, charges nobody.                     *)
LEMMA UnchargedWhen ==
    ASSUME NEW u \in Users, IInv, UNCHANGED <<tx_history, redisVars>>,
           \A q \in Procs : pc'[q] \in MoneySteps /\ job'[q].kind = "transfer" =>
                pc[q] \in MoneySteps /\ job'[q] = job[q]
    PROVE  Uncharged(u)
BY DEF Uncharged, SentBy, InFlight, redisVars, IInv, TypeOK

(* Only the velocity check and the two commits charge anybody.             *)
LEMMA OthersCharge ==
    ASSUME IInv, [Next]_vars, NEW u \in Users,
           \A p \in Procs : ~IncrVelocity(p) /\ ~Commit(p) /\ ~CommitRefused(p)
    PROVE  Uncharged(u)
<1>1. ASSUME NEW p \in Procs, NEW outcome \in Answers, Rollback(p, outcome) PROVE Uncharged(u)
  <2>1. UNCHANGED <<tx_history, redisVars>>
    BY <1>1 DEF Rollback, dbVars
  <2>2. QED
    BY <1>1, <2>1, UnchargedWhen DEF Rollback, Finish, IInv, TypeOK, MoneySteps
<1>2. ASSUME NEW p \in Procs, Start(p) PROVE Uncharged(u)
  BY <1>2, UnchargedWhen DEF Start, Goto, dbVars, IInv, TypeOK, MoneySteps
<1>3. ASSUME NEW p \in Procs, Proceed(p), pc[p] = "read_entity" PROVE Uncharged(u)
  BY <1>3, UnchargedWhen
  DEF Proceed, Goto, dbVars, IInv, TypeOK, ProcInv, MoneySteps, EntitySteps
<1>4. ASSUME NEW p \in Procs, Advance(p) PROVE Uncharged(u)
  <2>1. CASE LookupKey(p)
    BY <2>1, UnchargedWhen DEF LookupKey, Goto, Finish, dbVars, IInv, TypeOK, MoneySteps
  <2>2. CASE InsertRefused(p) \/ InsertTransfer(p)
    BY <2>2, UnchargedWhen
    DEF InsertRefused, InsertTransfer, InsertKey, Goto, dbVars, IInv, TypeOK, MoneySteps
  <2>3. CASE ReadBalance(p) \/ LockEntity(p) \/ InsertDebit(p) \/ InsertCredit(p)
    BY <2>3, UnchargedWhen
    DEF ReadBalance, LockEntity, InsertDebit, InsertCredit, Goto, dbVars, IInv, TypeOK, MoneySteps
  <2>4. CASE LockFirst(p) \/ LockSecond(p)
    BY <2>4, UnchargedWhen DEF LockFirst, LockSecond, Goto, dbVars, IInv, TypeOK, MoneySteps
  <2>5. CASE DuplicateKey(p)
    BY <1>1, <2>5 DEF DuplicateKey, Answers
  <2>6. CASE DecideAccept(p)
    BY <1>1, <1>3, <2>6 DEF DecideAccept, Answers
  <2>7. CASE DecideClaim(p)
    <3>1. CASE ExpireLink(p)
      BY <3>1, UnchargedWhen DEF ExpireLink, Finish, IInv, TypeOK, MoneySteps
    <3>2. QED
      BY <1>1, <1>3, <2>7, <3>1 DEF DecideClaim, Answers
  <2>8. CASE UpdateBalances(p)
    <3>1. CASE Rollback(p, "insufficient")
      BY <1>1, <3>1 DEF Answers
    <3>2. CASE Goto(p, "insert_transfer") /\ UNCHANGED <<dbVars, redisVars, job>>
      BY <2>8, <3>2, UnchargedWhen DEF UpdateBalances, Goto, dbVars, IInv, TypeOK, MoneySteps
    <3>3. QED
      BY <2>8, <3>1, <3>2 DEF UpdateBalances
  <2>9. CASE Publish(p)
    BY <2>9, UnchargedWhen DEF Publish, Finish, dbVars, IInv, TypeOK, MoneySteps
  <2>10. QED
    BY <1>4, <2>1, <2>2, <2>3, <2>4, <2>5, <2>6, <2>7, <2>8, <2>9 DEF Advance
<1>5. ASSUME NEW p \in Procs, Fail(p) PROVE Uncharged(u)
  BY <1>1, <1>5 DEF Fail, Answers
<1>6. CASE (\E l \in Links : Lapse(l)) \/ UNCHANGED vars
  BY <1>6, UnchargedWhen DEF Lapse, vars, dbVars, procVars, redisVars
<1>7. QED
  BY <1>2, <1>4, <1>5, <1>6 DEF Next

(* A refused row is not one of the completed ones.                         *)
LEMMA CommitRefusedCharges ==
    ASSUME IInv, NEW u \in Users, NEW p \in Procs, CommitRefused(p)
    PROVE  Uncharged(u)
<1>1. SentBy(u)' \subseteq SentBy(u) /\ tx_history \subseteq tx_history'
  BY DEF CommitRefused, SentBy, HistoryRow, RefusedStatus, redisVars
<1>2. InFlight(u)' \subseteq InFlight(u) /\ job' = job
  BY DEF CommitRefused, Finish, InFlight, IInv, TypeOK, MoneySteps, redisVars
<1>3. QED
  BY <1>1, <1>2 DEF Uncharged, CommitRefused, redisVars, IInv, TypeOK

(* A commit of an accept or a claim, or for somebody else, charges nobody; *)
(* that of a transfer turns what was on its way into what was sent.        *)
LEMMA CommitCap ==
    ASSUME IInv, IInv', NEW u \in Users, UserCap(u), NEW p \in Procs, Commit(p)
    PROVE  UserCap(u)'
<1> DEFINE j == job[p]
           h == HistoryRow(Payer(j), j, "completed", -1, NewPayerBalance(p))
<1>1. /\ pc[p] = "commit" /\ job' = job /\ j \in Jobs /\ UNCHANGED redisVars
      /\ \A q \in Procs : q # p => pc'[q] = pc[q]
      /\ pc'[p] \in {"publish", "idle"}
  BY DEF Commit, Goto, Finish, IInv, TypeOK, ProcInv, redisVars
<1>2. InFlight(u)' \subseteq InFlight(u) \ {p}
  BY <1>1 DEF InFlight, MoneySteps, redisVars
<1>3. tx_history \subseteq tx_history'
  BY DEF Commit
<1>4. CASE j.kind = "transfer" /\ Payer(j) = u /\ j.key \notin failed_open
  <2>1. SentBy(u)' = SentBy(u) \cup {h} /\ h.amount = Amount(j) /\ h \in tx_history'
    BY <1>4 DEF Commit, SentBy, HistoryRow, redisVars
  <2>2. p \in InFlight(u)
    BY <1>1, <1>4 DEF InFlight, MoneySteps
  <2>3. Amount(j) \in Nat
    BY <1>1, JobFacts
  <2> HIDE DEF h
  <2>4. /\ IsFiniteSet(SentBy(u)') /\ \A g \in SentBy(u)' : g.amount \in Nat
        /\ TransferOutflow(u)' \in Nat /\ TransferOutflow(u)' <= TransferOutflow(u) + Amount(j)
    <3> DEFINE f == [g \in tx_history |-> g.amount]
               f2 == [g \in tx_history' |-> g.amount]
    <3>1. IsFiniteSet(SentBy(u)) /\ IsFiniteSet(SentBy(u) \cup {h})
      BY FS_AddElement DEF UserCap
    <3>2. \A g \in SentBy(u) : f[g] = f2[g] /\ f2[g] \in Int
      BY <1>3 DEF SentBy, UserCap
    <3>3. f2[h] = Amount(j) /\ \A g \in SentBy(u) \cup {h} : f2[g] \in Int
      <4>1. h \in tx_history' /\ h.amount = Amount(j)
        BY <2>1
      <4>2. f2[h] = Amount(j)
        BY <4>1
      <4>3. ASSUME NEW g \in SentBy(u) \cup {h} PROVE f2[g] \in Int
        <5>1. CASE g = h
          BY <2>3, <4>2, <5>1
        <5>2. CASE g \in SentBy(u)
          BY <3>2, <5>2
        <5>3. QED
          BY <5>1, <5>2
      <4>4. QED
        BY <4>2, <4>3
    <3>4. TransferOutflow(u) = SumFunctionOnSet(f, SentBy(u))
          /\ TransferOutflow(u)' = SumFunctionOnSet(f2, SentBy(u) \cup {h})
      BY <2>1 DEF TransferOutflow
    <3>5. TransferOutflow(u) \in Nat
      BY CapSums
    <3>6. \A g \in SentBy(u) \cup {h} : g.amount \in Nat
      BY <2>1, <2>3 DEF UserCap
    <3> HIDE DEF f, f2
    <3>7. SumFunctionOnSet(f, SentBy(u)) = SumFunctionOnSet(f2, SentBy(u))
      BY <3>1, <3>2, SumAgree
    <3>8. CASE h \in SentBy(u)
      <4>1. SentBy(u) \cup {h} = SentBy(u)
        BY <3>8
      <4>2. TransferOutflow(u)' = TransferOutflow(u)
        BY <3>4, <3>7, <4>1
      <4>3. QED
        BY <2>1, <2>3, <3>1, <3>5, <3>6, <4>2
    <3>9. CASE h \notin SentBy(u)
      <4>1. SumFunctionOnSet(f2, SentBy(u) \cup {h})
              = f2[h] + SumFunctionOnSet(f2, SentBy(u))
        BY <3>1, <3>3, <3>9, SumAdd
      <4>2. QED
        BY <2>1, <2>3, <3>1, <3>3, <3>4, <3>5, <3>6, <3>7, <4>1
    <3>10. QED
      BY <3>8, <3>9
  <2>5. /\ IsFiniteSet(InFlight(u)') /\ Committing(u)' \in Nat
        /\ Committing(u)' + Amount(j) <= Committing(u)
    <3> DEFINE f == [q \in Procs |-> Amount(job[q])]
    <3>1. IsFiniteSet(InFlight(u)) /\ IsFiniteSet(InFlight(u)')
          /\ IsFiniteSet(InFlight(u) \ {p})
      BY <1>2, FS_Subset DEF UserCap
    <3>2. \A q \in InFlight(u) : f[q] \in Nat /\ f[q] \in Int /\ f[q] <= f[q]
      BY InFlightAmounts DEF InFlight
    <3>3. f[p] = Amount(j) /\ Committing(u) = SumFunctionOnSet(f, InFlight(u))
          /\ Committing(u)' = SumFunctionOnSet(f, InFlight(u)')
      BY <1>1 DEF Committing
    <3> HIDE DEF f
    <3>4. SumFunctionOnSet(f, InFlight(u)) = f[p] + SumFunctionOnSet(f, InFlight(u) \ {p})
      BY <2>2, <3>1, <3>2, SumRemove
    <3>5. /\ SumFunctionOnSet(f, InFlight(u) \ {p}) \in Nat
          /\ SumFunctionOnSet(f, InFlight(u)') \in Nat
          /\ SumFunctionOnSet(f, InFlight(u)') <= SumFunctionOnSet(f, InFlight(u) \ {p})
      BY <1>2, <3>1, <3>2, SumMonotonic
    <3>6. QED
      BY <2>3, <3>1, <3>3, <3>4, <3>5
  <2>6. TransferOutflow(u) \in Nat /\ Committing(u) \in Nat
    BY CapSums
  <2>7. daily_outflow' = daily_outflow /\ failed_open' = failed_open /\ daily_outflow[u] \in Nat
    BY <1>1 DEF redisVars, IInv, TypeOK
  <2>8. QED
    BY <2>3, <2>4, <2>5, <2>6, <2>7, AmountsAssumption DEF UserCap
<1>5. CASE ~(j.kind = "transfer" /\ Payer(j) = u /\ j.key \notin failed_open)
  <2>1. SentBy(u)' \subseteq SentBy(u)
    BY <1>5 DEF Commit, SentBy, HistoryRow, redisVars
  <2>2. Uncharged(u)
    BY <1>1, <1>2, <1>3, <2>1 DEF Uncharged, redisVars, IInv, TypeOK
  <2>3. QED
    BY <2>2, UnchargedCap
<1>6. QED
  BY <1>4, <1>5

(* The velocity check lets a transfer on only if the counter, which has it *)
(* counted in, is within the cap; one that a Redis error lets on is given  *)
(* up, and so is what else goes under its key.                             *)
LEMMA IncrVelocityCap ==
    ASSUME IInv, IInv', NEW u \in Users, UserCap(u), NEW p \in Procs, IncrVelocity(p)
    PROVE  UserCap(u)'
<1> DEFINE j == job[p]
           a == Amount(job[p])
<1>1. /\ pc[p] = "incr_velocity" /\ job' = job /\ j \in Jobs /\ tx_history' = tx_history
      /\ \A q \in Procs : q # p => pc'[q] = pc[q]
      /\ pc'[p] \in {"insert_refused", "lock_first"}
      /\ j.kind = "transfer"
  BY DEF IncrVelocity, Goto, IInv, TypeOK, ProcInv, dbVars, TransferSteps
<1>2. a \in Nat /\ Payer(j) \in Users
  BY <1>1, JobFacts
<1>3. daily_outflow \in [Users -> Nat] /\ daily_outflow' \in [Users -> Nat]
  BY DEF IInv, TypeOK
<1>4. /\ failed_open \subseteq failed_open'
      /\ SentBy(u)' \subseteq SentBy(u)
      /\ daily_outflow[u] <= daily_outflow'[u]
  <2>1. failed_open \subseteq failed_open'
    BY DEF IncrVelocity
  <2>2. SentBy(u)' \subseteq SentBy(u)
    BY <1>1, <2>1 DEF SentBy
  <2>3. daily_outflow[u] <= daily_outflow'[u]
    BY <1>2, <1>3 DEF IncrVelocity
  <2>4. QED
    BY <2>1, <2>2, <2>3
<1>5. CASE pc'[p] = "insert_refused" \/ Payer(j) # u \/ j.key \in failed_open'
  <2>1. InFlight(u)' \subseteq InFlight(u)
    BY <1>1, <1>4, <1>5 DEF InFlight, MoneySteps
  <2>2. QED
    BY <1>1, <1>4, <2>1, UnchargedCap DEF Uncharged
<1>6. CASE pc'[p] = "lock_first" /\ Payer(j) = u /\ j.key \notin failed_open'
  <2> DEFINE f == [q \in Procs |-> Amount(job[q])]
  <2>1. /\ daily_outflow' = [daily_outflow EXCEPT ![Payer(j)] = @ + a]
        /\ failed_open' = failed_open
        /\ Goto(p, IF daily_outflow'[Payer(j)] > DAILY_OUTFLOW_CAP_PAISA
                      THEN "insert_refused" ELSE "lock_first")
    BY <1>6 DEF IncrVelocity
  <2>2. /\ daily_outflow'[u] = daily_outflow[u] + a
        /\ daily_outflow'[u] <= DAILY_OUTFLOW_CAP_PAISA
    <3>1. ~(daily_outflow'[u] > DAILY_OUTFLOW_CAP_PAISA)
      BY <1>6, <2>1 DEF Goto, IInv, TypeOK
    <3>2. QED
      BY <1>2, <1>3, <1>6, <2>1, <3>1, AmountsAssumption
  <2>3. InFlight(u)' = InFlight(u) \cup {p} /\ p \notin InFlight(u)
    BY <1>1, <1>6, <2>1 DEF InFlight, MoneySteps
  <2>4. IsFiniteSet(InFlight(u)) /\ IsFiniteSet(InFlight(u) \cup {p})
    BY FS_AddElement DEF UserCap
  <2>5. f[p] = a /\ \A q \in InFlight(u) \cup {p} : f[q] \in Int
    BY <1>2, InFlightAmounts DEF InFlight
  <2>6. Committing(u) = SumFunctionOnSet(f, InFlight(u))
        /\ Committing(u)' = SumFunctionOnSet(f, InFlight(u) \cup {p})
    BY <1>1, <2>3 DEF Committing
  <2> HIDE DEF f
  <2>7. Committing(u)' = a + Committing(u)
    BY <2>3, <2>4, <2>5, <2>6, SumAdd
  <2>8. /\ IsFiniteSet(SentBy(u)') /\ \A h \in SentBy(u)' : h.amount \in Nat
        /\ TransferOutflow(u)' \in Nat /\ TransferOutflow(u)' <= TransferOutflow(u)
    BY <1>1, <1>4, SentShrinks DEF UserCap
  <2>9. TransferOutflow(u) \in Nat /\ Committing(u) \in Nat /\ daily_outflow[u] \in Nat
    BY <1>3, CapSums
  <2>10. QED
    BY <1>2, <2>2, <2>3, <2>4, <2>7, <2>8, <2>9, AmountsAssumption DEF UserCap
<1>7. QED
  BY <1>1, <1>5, <1>6

(* Nothing is charged at first.                                            *)
LEMMA InitCap == Init => CapInv
<1> SUFFICES ASSUME Init, NEW u \in Users PROVE UserCap(u)
  BY DEF CapInv
<1>1. SentBy(u) = {} /\ InFlight(u) = {}
  BY DEF Init, SentBy, InFlight, MoneySteps
<1>2. IsFiniteSet({}) /\ TransferOutflow(u) = 0 /\ Committing(u) = 0
  BY <1>1, SumEmpty, FS_EmptySet DEF TransferOutflow, Committing
<1>3. QED
  BY <1>1, <1>2, AmountsAssumption DEF UserCap, Init

(* Every step keeps the counter above what was sent and what is on its     *)
(* way.                                                                    *)
LEMMA CapStep == IInv /\ IInv' /\ CapInv /\ [Next]_vars => CapInv'
<1> SUFFICES ASSUME IInv, IInv', [Next]_vars, NEW u \in Users, UserCap(u)
             PROVE  UserCap(u)'
  BY DEF CapInv, Users
<1>1. ASSUME NEW p \in Procs, CommitRefused(p) PROVE UserCap(u)'
  BY <1>1, CommitRefusedCharges, UnchargedCap
<1>2. QED
  BY <1>1, OthersCharge, UnchargedCap, CommitCap, IncrVelocityCap

(* So what was sent is within the cap.                                     *)
LEMMA CapBounds == IInv /\ CapInv => DailyCapHolds
<1> SUFFICES ASSUME IInv, CapInv, NEW u \in Users
             PROVE  TransferOutflow(u) <= DAILY_OUTFLOW_CAP_PAISA
  BY DEF DailyCapHolds
<1>1. TransferOutflow(u) \in Nat /\ Committing(u) \in Nat
  BY CapSums DEF CapInv
<1>2. QED
  BY <1>1, AmountsAssumption DEF CapInv, UserCap

(* The daily cap, however many transfers of a user race: completed ones    *)
(* never exceed it, but for those that a Redis error let through.          *)
THEOREM DailyCap == Spec => []DailyCapHolds
BY InitCap, CapStep, CapBounds, Invariance, PTL DEF Spec
=============================================================================

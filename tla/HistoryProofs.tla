--------------------------- MODULE HistoryProofs ---------------------------
(***************************************************************************)
(* What a user reads back is right, for every set of transactions and      *)
(* amounts, page size and statement length: statements add up, the past    *)
(* does not change, and paging skips and repeats nothing it should not.    *)
(***************************************************************************)
EXTENDS History, FiniteSetTheorems, TLAPS

(* A payment between its SELECT ... FOR UPDATE and its end.                *)
Holding(t) == pc[t] = "locked" \/ (pc[t] = "inserted" /\ kind[t] \in Payments)

(* What the open transaction t adds to the balance.                        *)
Moves(t) == IF kind[t] = "sent" THEN -amount[t] ELSE amount[t]

(* The lock says who is paying, and the payment is based on the balance of *)
(* the table, which nobody else changes.                                   *)
LockInv ==
    /\ \A t \in Txns : pc[t] = "locked" => kind[t] \in Payments
    /\ \A t \in Txns : pc[t] = "read" => kind[t] = "refused"
    /\ \A t \in Txns : pc[t] = "inserted" => kind[t] # "listed"
    /\ \A t \in Txns : Holding(t) <=> lock = t
    /\ \A t \in Txns : Holding(t) => after[t] = balance + Moves(t)

(* Ids are those of the sequence, none is taken twice, and a payment that  *)
(* has its id has the highest of the user's payments.                      *)
IdInv ==
    /\ \A r \in tx_history : 0 < r.id /\ r.id < seq
    /\ \A t \in Txns : pc[t] = "inserted" => 0 < id[t] /\ id[t] < seq
    /\ \A r, s \in tx_history : r.id = s.id => r = s
    /\ \A t \in Txns, r \in tx_history : pc[t] = "inserted" => id[t] # r.id
    /\ \A t, u \in Txns : pc[t] = "inserted" /\ pc[u] = "inserted" /\ id[t] = id[u] => t = u
    /\ \A t \in Txns, r \in Completed :
          pc[t] = "inserted" /\ kind[t] \in Payments => r.id < id[t]

(* Nothing is dated in the future.                                         *)
ClockInv ==
    /\ 0 < clock
    /\ \A r \in tx_history : r.created_at <= clock
    /\ \A r \in listed : 0 < r.created_at
    /\ \A t \in Open : 0 < created_at[t] /\ created_at[t] <= clock

(* The payments of the user, in id order, are an account of the balance.   *)
AccountInv ==
    /\ IsFiniteSet(Completed)
    /\ \A r, s \in Completed :
          (r.id < s.id /\ \A q \in Completed : q.id <= r.id \/ s.id <= q.id)
             => s.after = r.after + Signed(s)
    /\ \E r \in Completed : (\A q \in Completed : q.id <= r.id) /\ r.after = balance

(* Rows not shown yet are below the cursor, rows shown are not.            *)
Shown(r) == walk.table = "listed" /\ \E s \in walk.served : s.created_at = r.created_at
WalkInv ==
    /\ walk.owed \subseteq Table(walk.table)
    /\ walk.served \subseteq Table(walk.table)
    /\ walk.cursor = 0 => walk.served = {} \/ walk.step = "done"
    /\ \A s \in walk.served : walk.step = "more" => walk.cursor <= KeyOf(walk.table, s)
    /\ \A r \in walk.owed \ walk.served :
          \/ walk.step = "more" /\ (walk.cursor = 0 \/ KeyOf(walk.table, r) < walk.cursor)
          \/ Shown(r)

HistoryInv == TypeOK /\ LockInv /\ IdInv /\ ClockInv /\ AccountInv /\ WalkInv
-----------------------------------------------------------------------------
(* Amounts are naturals.                                                   *)
LEMMA AmountFacts == TypeOK => \A t \in Txns : amount[t] \in Nat
<1> SUFFICES ASSUME TypeOK, NEW t \in Txns PROVE amount[t] \in Nat
  OBVIOUS
<1>1. amount[t] \in Amounts \cup {0}
  BY DEF TypeOK
<1>2. Amounts \subseteq Nat
  BY HistoryAssumption
<1>3. \A a \in Amounts \cup {0} : a \in Nat
  BY <1>2
<1>4. QED
  BY <1>1, <1>3

(* A row about to be committed is one of the table.                        *)
LEMMA RowFacts ==
    ASSUME TypeOK, NEW t \in Txns, kind[t] # "listed"
    PROVE  /\ Row(t) \in HistoryRows
           /\ Row(t).id = id[t] /\ Row(t).created_at = created_at[t] /\ Row(t).after = after[t]
           /\ Row(t).kind = kind[t] /\ Signed(Row(t)) = Moves(t)
<1>1. kind[t] \in Payments \cup {"refused"}
  BY DEF TypeOK, Kinds
<1>2. amount[t] \in Nat
  BY AmountFacts
<1>3. id[t] \in Nat /\ created_at[t] \in Nat /\ after[t] \in Nat
  BY DEF TypeOK
<1>4. QED
  BY <1>1, <1>2, <1>3 DEF Row, HistoryRows, Signed, Moves

(* What the end of a transaction leaves alone.                             *)
LEMMA EndFacts ==
    ASSUME TypeOK, NEW t \in Txns, End(t)
    PROVE  /\ pc' \in [Txns -> {"idle", "begun", "read", "locked", "inserted", "done"}]
           /\ kind' \in [Txns -> Kinds] /\ amount' \in [Txns -> Amounts \cup {0}]
           /\ created_at' \in [Txns -> Nat] /\ after' \in [Txns -> Nat] /\ id' \in [Txns -> Nat]
           /\ lock' \in Txns \cup {NoTxn}
           /\ pc'[t] = "done"
           /\ \A u \in Txns \ {t} :
                /\ pc'[u] = pc[u] /\ kind'[u] = kind[u] /\ amount'[u] = amount[u]
                /\ created_at'[u] = created_at[u] /\ after'[u] = after[u] /\ id'[u] = id[u]
<1>1. "listed" \in Kinds
  BY DEF Kinds
<1>2. QED
  BY <1>1 DEF TypeOK, End

(* A commit changes of the walk no more than what the client is owed.      *)
LEMMA OwedFacts ==
    ASSUME TypeOK, NEW name \in {"tx_history", "listed"},
           NEW row \in HistoryRows \cup ListedRows, Owed(name, row)
    PROVE  /\ walk' \in [step : {"none", "more", "done"}, table : {"tx_history", "listed"},
                         cursor : Nat, owed : SUBSET (HistoryRows \cup ListedRows),
                         served : SUBSET (HistoryRows \cup ListedRows)]
           /\ walk'.step = walk.step /\ walk'.table = walk.table
           /\ walk'.cursor = walk.cursor /\ walk'.served = walk.served
           /\ \/ walk'.owed = walk.owed
              \/ /\ walk'.owed = walk.owed \cup {row}
                 /\ walk.step = "more" /\ walk.table = name
                 /\ walk.cursor > 0 => KeyOf(walk.table, row) < walk.cursor
<1> DEFINE rows == HistoryRows \cup ListedRows
<1>1. walk \in [step : {"none", "more", "done"}, table : {"tx_history", "listed"},
                cursor : Nat, owed : SUBSET rows, served : SUBSET rows]
  BY DEF TypeOK
<1>2. row \in rows
  OBVIOUS
<1> HIDE DEF rows
<1>3. CASE walk' = walk
  BY <1>1, <1>3 DEF rows
<1>4. ASSUME walk' # walk PROVE /\ walk' = [walk EXCEPT !.owed = @ \cup {row}]
                                /\ walk.step = "more" /\ walk.table = name
                                /\ walk.cursor > 0 => KeyOf(walk.table, row) < walk.cursor
  BY <1>4 DEF Owed, BelowCursor
<1>5. CASE walk' # walk
  <2>1. walk' \in [step : {"none", "more", "done"}, table : {"tx_history", "listed"},
                   cursor : Nat, owed : SUBSET rows, served : SUBSET rows]
    BY <1>1, <1>2, <1>4, <1>5
  <2>2. /\ walk'.step = walk.step /\ walk'.table = walk.table
        /\ walk'.cursor = walk.cursor /\ walk'.served = walk.served
        /\ walk'.owed = walk.owed \cup {row}
    BY <1>1, <1>4, <1>5
  <2>3. QED
    BY <1>4, <1>5, <2>1, <2>2 DEF rows
<1>6. QED
  BY <1>3, <1>5

(* A page that is not empty has a lowest key.                              *)
LEMMA LowestFacts ==
    ASSUME TypeOK, NEW page, page \subseteq Table(walk.table), page # {}
    PROVE  /\ Lowest(page) \in Nat
           /\ \E r \in page : Lowest(page) = KeyOf(walk.table, r)
           /\ \A r \in page : Lowest(page) <= KeyOf(walk.table, r)
<1> DEFINE keys == {KeyOf(walk.table, r) : r \in page}
<1>1. \A r \in page : KeyOf(walk.table, r) \in Nat
  BY DEF TypeOK, Table, KeyOf, HistoryRows, ListedRows
<1>2. keys \subseteq Nat /\ keys # {}
  BY <1>1
<1>3. PICK k \in keys : \A m \in keys : <<m, k>> \notin OpToRel(<, Nat)
  BY <1>2, NatLessThanWellFounded, WFMin
<1>4. \A r \in page : k <= KeyOf(walk.table, r)
  <2> SUFFICES ASSUME NEW r \in page PROVE k <= KeyOf(walk.table, r)
    OBVIOUS
  <2> DEFINE m == KeyOf(walk.table, r)
  <2>1. m \in keys /\ m \in Nat /\ k \in Nat
    BY <1>1, <1>2
  <2> HIDE DEF m, keys
  <2>2. ~ (m < k)
    BY <1>3, <2>1 DEF OpToRel
  <2>3. QED
    BY <2>1, <2>2 DEF m
<1>5. Lowest(page) \in keys /\ \A r \in page : Lowest(page) <= KeyOf(walk.table, r)
  BY <1>4 DEF Lowest
<1>6. QED
  BY <1>2, <1>5

(* A head of the list has as many rows as asked for, none lower than what  *)
(* it leaves.                                                              *)
LEMMA PageFacts ==
    ASSUME TypeOK, NEW page \in Heads(PageRows, Limit)
    PROVE  /\ page # {} /\ page \subseteq PageRows /\ page \subseteq Table(walk.table)
           /\ \A r \in page, s \in PageRows \ page :
                 KeyOf(walk.table, r) >= KeyOf(walk.table, s)
<1>1. Cardinality(page) = Limit /\ Limit # 0
  BY HistoryAssumption DEF Heads
<1>2. page # {}
  BY <1>1, FS_EmptySet
<1>3. QED
  BY <1>2 DEF Heads, PageRows, BelowCursor
-----------------------------------------------------------------------------
(* Every value stays in its range.                                         *)
LEMMA TypeStep == HistoryInv /\ [Next]_vars => TypeOK'
<1> SUFFICES ASSUME HistoryInv, [Next]_vars PROVE TypeOK'
  OBVIOUS
<1>1. TypeOK
  BY DEF HistoryInv
<1>2. ASSUME NEW t \in Txns, Begin(t) PROVE TypeOK'
  <2>1. kind' \in [Txns -> Kinds] /\ amount' \in [Txns -> Amounts \cup {0}]
    BY <1>1, <1>2 DEF TypeOK, Begin, Kinds
  <2>2. /\ pc' \in [Txns -> {"idle", "begun", "read", "locked", "inserted", "done"}]
        /\ created_at' \in [Txns -> Nat] /\ clock' \in Nat
    BY <1>1, <1>2 DEF TypeOK, Begin, Goto
  <2>3. UNCHANGED <<tx_history, listed, seq, balance, lock, after, id, walk>>
    BY <1>2 DEF Begin
  <2>4. QED
    BY <1>1, <2>1, <2>2, <2>3 DEF TypeOK
<1>3. ASSUME NEW t \in Txns, LockBalance(t) PROVE TypeOK'
  <2>1. (IF kind[t] = "sent" THEN balance - amount[t] ELSE balance + amount[t]) \in Nat
    <3>1. amount[t] \in Nat /\ balance \in Nat
      BY <1>1, AmountFacts DEF TypeOK
    <3>2. kind[t] = "sent" => balance >= amount[t]
      BY <1>3 DEF LockBalance
    <3>3. QED
      BY <3>1, <3>2
  <2>2. after' \in [Txns -> Nat]
    BY <1>1, <1>3, <2>1 DEF TypeOK, LockBalance
  <2>3. QED
    BY <1>1, <1>3, <2>2 DEF TypeOK, LockBalance, Goto
<1>4. ASSUME NEW t \in Txns, ReadBalance(t) PROVE TypeOK'
  BY <1>1, <1>4 DEF TypeOK, ReadBalance, Goto
<1>5. ASSUME NEW t \in Txns, InsertRow(t) PROVE TypeOK'
  BY <1>1, <1>5 DEF TypeOK, InsertRow, Goto
<1>6. ASSUME NEW t \in Txns, Commit(t) PROVE TypeOK'
  <2>1. kind[t] # "listed"
    BY <1>6 DEF Commit, HistoryInv, LockInv
  <2>2. tx_history' \subseteq HistoryRows
    BY <1>1, <1>6, <2>1, RowFacts DEF Commit, TypeOK
  <2>3. balance' \in Nat
    BY <1>1, <1>6 DEF Commit, TypeOK
  <2>4. UNCHANGED <<listed, seq, clock>> /\ End(t) /\ Owed("tx_history", Row(t))
    BY <1>6 DEF Commit
  <2>5. Row(t) \in HistoryRows
    BY <1>1, <2>1, RowFacts
  <2>6. walk' \in [step : {"none", "more", "done"}, table : {"tx_history", "listed"}, cursor : Nat,
                   owed : SUBSET (HistoryRows \cup ListedRows),
                   served : SUBSET (HistoryRows \cup ListedRows)]
    BY <1>1, <2>4, <2>5, OwedFacts
  <2>7. QED
    BY <1>1, <2>2, <2>3, <2>4, <2>6, EndFacts DEF TypeOK
<1>7. ASSUME NEW t \in Txns, CommitListed(t) PROVE TypeOK'
  <2>1. listed' \subseteq ListedRows /\ ListedRow(t) \in ListedRows
    BY <1>1, <1>7 DEF CommitListed, TypeOK, ListedRows, ListedRow
  <2>2. UNCHANGED <<tx_history, seq, balance, clock>> /\ End(t) /\ Owed("listed", ListedRow(t))
    BY <1>7 DEF CommitListed
  <2>3. walk' \in [step : {"none", "more", "done"}, table : {"tx_history", "listed"}, cursor : Nat,
                   owed : SUBSET (HistoryRows \cup ListedRows),
                   served : SUBSET (HistoryRows \cup ListedRows)]
    BY <1>1, <2>1, <2>2, OwedFacts
  <2>4. QED
    BY <1>1, <2>1, <2>2, <2>3, EndFacts DEF TypeOK
<1>8. ASSUME NEW t \in Txns, Rollback(t) PROVE TypeOK'
  <2>1. UNCHANGED <<tx_history, listed, seq, balance, clock, walk>> /\ End(t)
    BY <1>8 DEF Rollback
  <2>2. QED
    BY <1>1, <2>1, EndFacts DEF TypeOK
<1>9. ASSUME NEW name \in {"tx_history", "listed"}, StartWalk(name) PROVE TypeOK'
  <2>1. Table(name) \subseteq HistoryRows \cup ListedRows
    BY <1>1 DEF TypeOK, Table
  <2>2. UNCHANGED <<tx_history, listed, seq, balance, lock, clock, txnVars>>
    BY <1>9 DEF StartWalk
  <2>3. walk' \in [step : {"none", "more", "done"}, table : {"tx_history", "listed"}, cursor : Nat,
                   owed : SUBSET (HistoryRows \cup ListedRows),
                   served : SUBSET (HistoryRows \cup ListedRows)]
    <3>1. walk' = [step |-> "more", table |-> name, cursor |-> 0,
                   owed |-> Table(name), served |-> {}]
      BY <1>9 DEF StartWalk, NoWalk
    <3>2. QED
      BY <2>1, <3>1
  <2>4. QED
    BY <1>1, <2>2, <2>3 DEF TypeOK, txnVars
<1>10. CASE NextPage
  <2>1. PageRows \subseteq HistoryRows \cup ListedRows
    BY <1>1 DEF TypeOK, PageRows, BelowCursor, Table
  <2>2. \A page \in Heads(PageRows, Limit) :
           Lowest(page) \in Nat /\ page \subseteq HistoryRows \cup ListedRows
    BY <1>1, <2>1, PageFacts, LowestFacts
  <2>3. UNCHANGED <<tx_history, listed, seq, balance, lock, clock, txnVars>>
    BY <1>10 DEF NextPage
  <2>4. walk' \in [step : {"none", "more", "done"}, table : {"tx_history", "listed"}, cursor : Nat,
                   owed : SUBSET (HistoryRows \cup ListedRows),
                   served : SUBSET (HistoryRows \cup ListedRows)]
    <3> DEFINE rows == HistoryRows \cup ListedRows
               Walks == [step : {"none", "more", "done"}, table : {"tx_history", "listed"},
                         cursor : Nat, owed : SUBSET rows, served : SUBSET rows]
    <3>1. walk \in Walks
      BY <1>1 DEF TypeOK
    <3>2. PageRows \subseteq rows
      BY <2>1
    <3>3. \A page \in Heads(PageRows, Limit) : Lowest(page) \in Nat /\ page \subseteq rows
      BY <2>2
    <3> HIDE DEF rows
    <3>4. ASSUME walk' = [walk EXCEPT !.step = "done", !.served = @ \cup PageRows]
          PROVE  walk' \in Walks
      <4>1. PICK shown : shown = walk.served \cup PageRows
        OBVIOUS
      <4>2. shown \in SUBSET rows
        BY <3>1, <3>2, <4>1
      <4>3. walk' = [step |-> "done", table |-> walk.table, cursor |-> walk.cursor,
                     owed |-> walk.owed, served |-> shown]
        BY <3>1, <3>4, <4>1
      <4>4. QED
        BY <3>1, <4>2, <4>3
    <3>5. ASSUME NEW page \in Heads(PageRows, Limit),
                 walk' = [walk EXCEPT !.served = @ \cup page, !.cursor = Lowest(page)]
          PROVE  walk' \in Walks
      BY <3>1, <3>3, <3>5
    <3> HIDE DEF Walks
    <3>6. \/ walk' = [walk EXCEPT !.step = "done", !.served = @ \cup PageRows]
          \/ \E page \in Heads(PageRows, Limit) :
                walk' = [walk EXCEPT !.served = @ \cup page, !.cursor = Lowest(page)]
      BY <1>10 DEF NextPage
    <3>7. walk' \in Walks
      BY <3>4, <3>5, <3>6
    <3>8. QED
      BY <3>7 DEF rows, Walks
  <2>5. QED
    BY <1>1, <2>3, <2>4 DEF TypeOK, txnVars
<1>11. CASE UNCHANGED vars
  BY <1>1, <1>11 DEF vars, txnVars, TypeOK
<1>12. QED
  BY <1>2, <1>3, <1>4, <1>5, <1>6, <1>7, <1>8, <1>9, <1>10, <1>11 DEF Next

(* A step of t leaves the lock and the payments of the others alone.       *)
LEMMA OthersHold ==
    ASSUME NEW t \in Txns,
           \A u \in Txns \ {t} : pc'[u] = pc[u] /\ kind'[u] = kind[u] /\ amount'[u] = amount[u]
    PROVE  \A u \in Txns \ {t} : (Holding(u)' <=> Holding(u)) /\ Moves(u)' = Moves(u)
BY DEF Holding, Moves

(* The lock and what is paid under it stay in step.                        *)
LEMMA LockStep == HistoryInv /\ TypeOK' /\ [Next]_vars => LockInv'
<1> SUFFICES ASSUME HistoryInv, TypeOK', [Next]_vars PROVE LockInv'
  OBVIOUS
<1>1. TypeOK /\ LockInv
  BY DEF HistoryInv
<1>2. ASSUME NEW t \in Txns, Begin(t) PROVE LockInv'
  <2>1. \A u \in Txns \ {t} : /\ pc'[u] = pc[u] /\ kind'[u] = kind[u] /\ amount'[u] = amount[u]
                              /\ after'[u] = after[u]
    BY <1>1, <1>2 DEF TypeOK, Begin, Goto
  <2>2. pc[t] = "idle" /\ pc'[t] = "begun" /\ lock' = lock /\ balance' = balance
    BY <1>1, <1>2 DEF TypeOK, Begin, Goto
  <2>3. ~Holding(t) /\ ~Holding(t)'
    BY <2>2 DEF Holding
  <2>4. QED
    BY <1>1, <2>1, <2>2, <2>3, OthersHold DEF LockInv
<1>3. ASSUME NEW t \in Txns, LockBalance(t) PROVE LockInv'
  <2>1. \A u \in Txns \ {t} : /\ pc'[u] = pc[u] /\ kind'[u] = kind[u] /\ amount'[u] = amount[u]
                              /\ after'[u] = after[u]
    BY <1>1, <1>3 DEF TypeOK, LockBalance, Goto
  <2>2. /\ pc'[t] = "locked" /\ kind'[t] = kind[t] /\ kind[t] \in Payments
        /\ lock = NoTxn /\ lock' = t /\ balance' = balance
    BY <1>1, <1>3 DEF TypeOK, LockBalance, Goto
  <2>3. Holding(t)' /\ \A u \in Txns : ~Holding(u)
    BY <1>1, <2>2, HistoryAssumption DEF Holding, LockInv
  <2>4. after'[t] = balance' + Moves(t)'
    BY <1>1, <1>3, HistoryAssumption DEF TypeOK, LockBalance, Moves
  <2>5. QED
    BY <1>1, <2>1, <2>2, <2>3, <2>4, OthersHold DEF LockInv
<1>4. ASSUME NEW t \in Txns, ReadBalance(t) PROVE LockInv'
  <2>1. \A u \in Txns \ {t} : /\ pc'[u] = pc[u] /\ kind'[u] = kind[u] /\ amount'[u] = amount[u]
                              /\ after'[u] = after[u]
    BY <1>1, <1>4 DEF TypeOK, ReadBalance, Goto
  <2>2. /\ pc[t] = "begun" /\ pc'[t] = "read" /\ kind[t] = "refused" /\ kind'[t] = "refused"
        /\ lock' = lock /\ balance' = balance
    BY <1>1, <1>4 DEF TypeOK, ReadBalance, Goto
  <2>3. ~Holding(t) /\ ~Holding(t)'
    BY <2>2 DEF Holding, Payments
  <2>4. QED
    BY <1>1, <2>1, <2>2, <2>3, OthersHold DEF LockInv
<1>5. ASSUME NEW t \in Txns, InsertRow(t) PROVE LockInv'
  <2>1. \A u \in Txns \ {t} : /\ pc'[u] = pc[u] /\ kind'[u] = kind[u] /\ amount'[u] = amount[u]
                              /\ after'[u] = after[u]
    BY <1>1, <1>5 DEF TypeOK, InsertRow, Goto
  <2>2. /\ pc[t] \in {"read", "locked"} /\ pc'[t] = "inserted" /\ kind'[t] = kind[t]
        /\ lock' = lock /\ balance' = balance /\ after' = after /\ Moves(t)' = Moves(t)
    BY <1>1, <1>5 DEF TypeOK, InsertRow, Goto, Moves
  <2>3. (Holding(t)' <=> Holding(t)) /\ kind'[t] # "listed"
    BY <1>1, <2>2 DEF Holding, Payments, LockInv
  <2>4. QED
    BY <1>1, <2>1, <2>2, <2>3, OthersHold DEF LockInv
<1>6. ASSUME NEW t \in Txns, Commit(t) \/ CommitListed(t) \/ Rollback(t) PROVE LockInv'
  <2>1. End(t) /\ pc[t] # "done"
    BY <1>6 DEF Commit, CommitListed, Rollback, Open
  <2>2. \A u \in Txns \ {t} : /\ pc'[u] = pc[u] /\ kind'[u] = kind[u] /\ amount'[u] = amount[u]
                              /\ after'[u] = after[u]
    BY <1>1, <2>1, EndFacts
  <2>3. pc'[t] = "done" /\ lock' = (IF lock = t THEN NoTxn ELSE lock)
    BY <1>1, <2>1, EndFacts DEF End
  <2>4. ~Holding(t)'
    BY <2>3 DEF Holding
  <2>5. \A u \in Txns \ {t} : (Holding(u)' <=> Holding(u)) /\ Moves(u)' = Moves(u)
    BY <2>2, OthersHold
  <2>6. \A u \in Txns : Holding(u)' <=> lock' = u
    BY <1>1, <2>3, <2>4, <2>5, HistoryAssumption DEF LockInv
  <2>7. \A u \in Txns : Holding(u)' => balance' = balance
    <3>1. CASE Commit(t) /\ kind[t] \in Payments
      <4>1. Holding(t)
        BY <3>1 DEF Commit, Holding
      <4>2. QED
        BY <1>1, <2>4, <2>5, <4>1 DEF LockInv
    <3>2. CASE ~ (Commit(t) /\ kind[t] \in Payments)
      BY <1>6, <3>2 DEF Commit, CommitListed, Rollback
    <3>3. QED
      BY <3>1, <3>2
  <2>8. QED
    BY <1>1, <2>2, <2>3, <2>4, <2>5, <2>6, <2>7 DEF LockInv
<1>7. CASE NextPage \/ (\E name \in {"tx_history", "listed"} : StartWalk(name)) \/ UNCHANGED vars
  BY <1>1, <1>7 DEF vars, txnVars, NextPage, StartWalk, LockInv, Holding, Moves
<1>8. QED
  BY <1>2, <1>3, <1>4, <1>5, <1>6, <1>7 DEF Next

(* Reading changes no row, lock, clock or transaction.                     *)
LEMMA ReadingKeeps ==
    ASSUME HistoryInv,
           NextPage \/ (\E name \in {"tx_history", "listed"} : StartWalk(name)) \/ UNCHANGED vars
    PROVE  IdInv' /\ ClockInv' /\ AccountInv'
<1>1. UNCHANGED <<tx_history, listed, seq, balance, lock, clock, txnVars>>
  BY DEF vars, NextPage, StartWalk
<1>2. Completed' = Completed /\ Open' = Open
  BY <1>1 DEF txnVars, Completed, Open
<1>3. IdInv'
  BY <1>1, <1>2 DEF txnVars, HistoryInv, IdInv
<1>4. ClockInv'
  BY <1>1, <1>2 DEF txnVars, HistoryInv, ClockInv
<1>5. AccountInv'
  BY <1>1, <1>2 DEF txnVars, HistoryInv, AccountInv
<1>6. QED
  BY <1>3, <1>4, <1>5

(* A commit adds its row, which is a payment's or not.                     *)
LEMMA CommitFacts ==
    ASSUME HistoryInv, NEW t \in Txns, Commit(t)
    PROVE  /\ pc[t] = "inserted" /\ kind[t] # "listed" /\ Row(t) \in HistoryRows
           /\ tx_history' = tx_history \cup {Row(t)}
           /\ Completed' = IF kind[t] \in Payments THEN Completed \cup {Row(t)} ELSE Completed
           /\ \A u \in Txns : pc'[u] = "inserted" =>
                u # t /\ pc[u] = "inserted" /\ id'[u] = id[u] /\ kind'[u] = kind[u]
<1>1. pc[t] = "inserted" /\ kind[t] # "listed" /\ tx_history' = tx_history \cup {Row(t)} /\ End(t)
  BY DEF Commit, HistoryInv, LockInv
<1>2. Row(t) \in HistoryRows /\ Row(t).kind = kind[t]
  BY <1>1, RowFacts DEF HistoryInv
<1>3. Completed' = IF kind[t] \in Payments THEN Completed \cup {Row(t)} ELSE Completed
  BY <1>1, <1>2 DEF Completed
<1>4. \A u \in Txns : pc'[u] = "inserted" =>
        u # t /\ pc[u] = "inserted" /\ id'[u] = id[u] /\ kind'[u] = kind[u]
  BY <1>1, EndFacts DEF HistoryInv
<1>5. QED
  BY <1>1, <1>2, <1>3, <1>4

(* An INSERT takes the next id of the sequence.                            *)
LEMMA InsertIds ==
    ASSUME HistoryInv, TypeOK', NEW t \in Txns, pc[t] # "inserted",
           pc'[t] = "inserted", id'[t] = seq, seq' = seq + 1, tx_history' = tx_history,
           \A u \in Txns \ {t} : pc'[u] = pc[u] /\ id'[u] = id[u] /\ kind'[u] = kind[u]
    PROVE  IdInv'
<1>1. Completed' = Completed /\ Completed \subseteq tx_history
  BY DEF Completed
<1>2. IdInv /\ seq \in Nat /\ \A r \in tx_history : r.id \in Nat
  BY DEF HistoryInv, TypeOK, HistoryRows
<1>3. \A u \in Txns : id[u] \in Nat
  BY DEF HistoryInv, TypeOK
<1>4. 0 < seq
  BY <1>2 DEF IdInv, HistoryInv, AccountInv, Completed
<1>5. \A r \in tx_history' : 0 < r.id /\ r.id < seq'
  BY <1>2 DEF IdInv
<1>6. \A u \in Txns : pc'[u] = "inserted" => 0 < id'[u] /\ id'[u] < seq'
  BY <1>2, <1>3, <1>4 DEF IdInv
<1>7. \A u \in Txns, r \in tx_history' : pc'[u] = "inserted" => id'[u] # r.id
  BY <1>2, <1>3 DEF IdInv
<1>8. \A u, v \in Txns : pc'[u] = "inserted" /\ pc'[v] = "inserted" /\ id'[u] = id'[v] => u = v
  BY <1>2, <1>3 DEF IdInv
<1>9. \A u \in Txns, r \in Completed' :
        pc'[u] = "inserted" /\ kind'[u] \in Payments => r.id < id'[u]
  BY <1>1, <1>2 DEF IdInv
<1>10. QED
  BY <1>2, <1>5, <1>6, <1>7, <1>8, <1>9 DEF IdInv

(* No id is taken twice, and payments take theirs in order.                *)
LEMMA IdStep == HistoryInv /\ TypeOK' /\ [Next]_vars => IdInv'
<1> SUFFICES ASSUME HistoryInv, TypeOK', [Next]_vars PROVE IdInv'
  OBVIOUS
<1>1. TypeOK /\ IdInv /\ LockInv
  BY DEF HistoryInv
<1>2. ASSUME NEW t \in Txns,
             Begin(t) \/ LockBalance(t) \/ ReadBalance(t) \/ CommitListed(t) \/ Rollback(t)
      PROVE  IdInv'
  <2>1. tx_history' = tx_history /\ seq' = seq /\ Completed' = Completed
    BY <1>2 DEF Begin, LockBalance, ReadBalance, CommitListed, Rollback, Completed
  <2>2. \A u \in Txns : pc'[u] = "inserted" =>
          pc[u] = "inserted" /\ id'[u] = id[u] /\ kind'[u] = kind[u]
    <3>1. CASE CommitListed(t) \/ Rollback(t)
      BY <1>1, <3>1, EndFacts DEF CommitListed, Rollback
    <3>2. CASE Begin(t)
      BY <1>1, <3>2 DEF Begin, Goto, TypeOK
    <3>3. CASE LockBalance(t) \/ ReadBalance(t)
      BY <1>1, <3>3 DEF LockBalance, ReadBalance, Goto, TypeOK
    <3>4. QED
      BY <1>2, <3>1, <3>2, <3>3
  <2>3. QED
    BY <1>1, <2>1, <2>2 DEF IdInv
<1>3. ASSUME NEW t \in Txns, InsertRow(t) PROVE IdInv'
  <2>1. /\ pc[t] # "inserted" /\ pc'[t] = "inserted"
        /\ id'[t] = seq /\ seq' = seq + 1 /\ tx_history' = tx_history
        /\ \A u \in Txns \ {t} : pc'[u] = pc[u] /\ id'[u] = id[u] /\ kind'[u] = kind[u]
    BY <1>1, <1>3 DEF InsertRow, Goto, TypeOK
  <2>2. QED
    BY <2>1, InsertIds
<1>4. ASSUME NEW t \in Txns, Commit(t) PROVE IdInv'
  <2>1. /\ pc[t] = "inserted" /\ kind[t] # "listed" /\ tx_history' = tx_history \cup {Row(t)}
        /\ Completed' = IF kind[t] \in Payments THEN Completed \cup {Row(t)} ELSE Completed
        /\ \A u \in Txns : pc'[u] = "inserted" =>
             u # t /\ pc[u] = "inserted" /\ id'[u] = id[u] /\ kind'[u] = kind[u]
    BY <1>4, CommitFacts
  <2>2. Row(t).id = id[t] /\ seq' = seq
    BY <1>1, <1>4, <2>1, RowFacts DEF Commit
  <2>3. \A r \in tx_history' : 0 < r.id /\ r.id < seq'
    BY <1>1, <2>1, <2>2 DEF IdInv
  <2>4. \A r, s \in tx_history' : r.id = s.id => r = s
    BY <1>1, <2>1, <2>2 DEF IdInv
  <2>5. \A u \in Txns, r \in tx_history' : pc'[u] = "inserted" => id'[u] # r.id
    BY <1>1, <2>1, <2>2 DEF IdInv
  <2>6. ASSUME NEW u \in Txns, NEW r \in Completed', pc'[u] = "inserted", kind'[u] \in Payments
        PROVE  r.id < id'[u]
    <3>1. u # t /\ Holding(u)
      BY <2>1, <2>6 DEF Holding
    <3>2. ~Holding(t)
      BY <1>1, <3>1 DEF LockInv
    <3>3. kind[t] \notin Payments
      BY <2>1, <3>2 DEF Holding
    <3>4. QED
      BY <1>1, <2>1, <2>6, <3>3 DEF IdInv
  <2>7. \A u \in Txns : pc'[u] = "inserted" => 0 < id'[u] /\ id'[u] < seq'
    BY <1>1, <2>1, <2>2 DEF IdInv
  <2>8. \A u, v \in Txns : pc'[u] = "inserted" /\ pc'[v] = "inserted" /\ id'[u] = id'[v] => u = v
    BY <1>1, <2>1 DEF IdInv
  <2>9. QED
    BY <2>3, <2>4, <2>5, <2>6, <2>7, <2>8 DEF IdInv
<1>5. CASE NextPage \/ (\E name \in {"tx_history", "listed"} : StartWalk(name)) \/ UNCHANGED vars
  BY <1>5, ReadingKeeps
<1>6. QED
  BY <1>2, <1>3, <1>4, <1>5 DEF Next

(* Who is open stays so with the created_at it began with, or has ended,   *)
(* or has just begun now; the clock goes on.                               *)
LEMMA OpenStep ==
    ASSUME HistoryInv, NEW t \in Txns,
           \/ Begin(t) \/ LockBalance(t) \/ ReadBalance(t) \/ InsertRow(t)
           \/ Commit(t) \/ CommitListed(t) \/ Rollback(t)
    PROVE  /\ clock' \in Nat /\ clock' >= clock
           /\ \A u \in Open' : (u \in Open /\ created_at'[u] = created_at[u])
                               \/ created_at'[u] = clock
<1>1. TypeOK
  BY DEF HistoryInv
<1>2. CASE Begin(t)
  BY <1>1, <1>2 DEF Begin, Goto, TypeOK, Open
<1>3. CASE LockBalance(t) \/ ReadBalance(t) \/ InsertRow(t)
  BY <1>1, <1>3 DEF LockBalance, ReadBalance, InsertRow, Goto, TypeOK, Open
<1>4. CASE Commit(t) \/ CommitListed(t) \/ Rollback(t)
  <2>1. End(t) /\ clock' = clock /\ clock \in Nat
    BY <1>1, <1>4 DEF Commit, CommitListed, Rollback, TypeOK
  <2>2. \A u \in Open' : u \in Open /\ created_at'[u] = created_at[u]
    BY <1>1, <2>1, EndFacts DEF Open
  <2>3. QED
    BY <2>1, <2>2
<1>5. QED
  BY <1>2, <1>3, <1>4

(* Nothing is dated in the future after a step either.                     *)
LEMMA ClockStep == HistoryInv /\ TypeOK' /\ [Next]_vars => ClockInv'
<1> SUFFICES ASSUME HistoryInv, TypeOK', [Next]_vars PROVE ClockInv'
  OBVIOUS
<1>1. TypeOK /\ ClockInv /\ LockInv
  BY DEF HistoryInv
<1>2. ASSUME NEW t \in Txns,
             \/ Begin(t) \/ LockBalance(t) \/ ReadBalance(t) \/ InsertRow(t)
             \/ Commit(t) \/ CommitListed(t) \/ Rollback(t)
      PROVE  ClockInv'
  <2>1. /\ clock' \in Nat /\ clock' >= clock /\ clock \in Nat /\ 0 < clock
        /\ \A u \in Open' : (u \in Open /\ created_at'[u] = created_at[u])
                            \/ created_at'[u] = clock
    BY <1>1, <1>2, OpenStep DEF TypeOK, ClockInv
  <2>2. \A u \in Open : created_at[u] \in Nat
    BY <1>1 DEF TypeOK, Open
  <2>3. \A u \in Open' : 0 < created_at'[u] /\ created_at'[u] <= clock'
    BY <1>1, <2>1, <2>2 DEF ClockInv
  <2>4. \A r \in tx_history : r.created_at \in Nat
    BY <1>1 DEF TypeOK, HistoryRows
  <2>5. \A r \in tx_history' : r.created_at <= clock'
    <3>1. CASE Commit(t)
      <4>1. /\ tx_history' = tx_history \cup {Row(t)}
            /\ Row(t).created_at = created_at[t] /\ t \in Open
        BY <1>1, <3>1, CommitFacts, RowFacts DEF Open
      <4>2. QED
        BY <1>1, <2>1, <2>2, <2>4, <4>1 DEF ClockInv
    <3>2. CASE ~Commit(t)
      <4>1. tx_history' = tx_history
        BY <1>2, <3>2 DEF Begin, LockBalance, ReadBalance, InsertRow, CommitListed, Rollback
      <4>2. QED
        BY <1>1, <2>1, <2>4, <4>1 DEF ClockInv
    <3>3. QED
      BY <3>1, <3>2
  <2>6. \A r \in listed' : 0 < r.created_at
    <3>1. CASE CommitListed(t)
      <4>1. listed' = listed \cup {[created_at |-> created_at[t], txn |-> t]} /\ t \in Open
        BY <3>1 DEF CommitListed, ListedRow, Open
      <4>2. QED
        BY <1>1, <4>1 DEF ClockInv
    <3>2. CASE ~CommitListed(t)
      <4>1. listed' = listed
        BY <1>2, <3>2 DEF Begin, LockBalance, ReadBalance, InsertRow, Commit, Rollback
      <4>2. QED
        BY <1>1, <4>1 DEF ClockInv
    <3>3. QED
      BY <3>1, <3>2
  <2>7. QED
    BY <2>1, <2>3, <2>5, <2>6 DEF ClockInv
<1>3. CASE NextPage \/ (\E name \in {"tx_history", "listed"} : StartWalk(name)) \/ UNCHANGED vars
  BY <1>3, ReadingKeeps
<1>4. QED
  BY <1>2, <1>3 DEF Next

(* A payment committed under the lock is the next entry of the account.    *)
LEMMA PaymentIsNext ==
    ASSUME HistoryInv, TypeOK', NEW t \in Txns, Commit(t), kind[t] \in Payments
    PROVE  AccountInv'
<1> DEFINE new == Row(t)
<1>1. TypeOK /\ IdInv /\ LockInv /\ AccountInv
  BY DEF HistoryInv
<1>2. pc[t] = "inserted" /\ kind[t] # "listed" /\ Completed' = Completed \cup {new}
  BY CommitFacts
<1>3. /\ new.id = id[t] /\ new.after = after[t] /\ Signed(new) = Moves(t)
      /\ new.id \in Nat
  BY <1>1, <1>2, RowFacts DEF TypeOK
<1>4. new.after = balance + Signed(new) /\ balance' = new.after
  BY <1>1, <1>2, <1>3 DEF LockInv, Holding, Commit
<1>5. \A r \in Completed : r.id < new.id /\ r.id \in Nat
  BY <1>1, <1>2, <1>3 DEF IdInv, TypeOK, Completed, HistoryRows
<1> HIDE DEF new
<1>6. PICK m \in Completed : (\A q \in Completed : q.id <= m.id) /\ m.after = balance
  BY <1>1 DEF AccountInv
<1>7. \A r \in Completed : r.id = m.id => r = m
  BY <1>1 DEF IdInv, Completed
<1>8. ASSUME NEW r \in Completed', NEW s \in Completed', r.id < s.id,
             \A q \in Completed' : q.id <= r.id \/ s.id <= q.id
      PROVE  s.after = r.after + Signed(s)
  <2>1. r \in Completed
    BY <1>2, <1>3, <1>5, <1>8
  <2>2. CASE s = new
    <3>1. m \in Completed' /\ (m.id <= r.id \/ new.id <= m.id) /\ r.id <= m.id
      BY <1>2, <1>6, <1>8, <2>1, <2>2
    <3>2. r.id = m.id
      BY <1>3, <1>5, <1>6, <2>1, <3>1
    <3>3. r = m
      BY <1>7, <2>1, <3>2
    <3>4. QED
      BY <1>4, <1>6, <2>2, <3>3
  <2>3. CASE s \in Completed
    BY <1>1, <1>2, <1>8, <2>1, <2>3 DEF AccountInv
  <2>4. QED
    BY <1>2, <2>2, <2>3
<1>9. \A q \in Completed' : q.id <= new.id
  BY <1>2, <1>3, <1>5
<1>10. IsFiniteSet(Completed')
  BY <1>1, <1>2, FS_AddElement DEF AccountInv
<1>11. new \in Completed'
  BY <1>2
<1>12. QED
  BY <1>4, <1>8, <1>9, <1>10, <1>11 DEF AccountInv

(* The completed rows stay an account of the balance.                      *)
LEMMA AccountStep == HistoryInv /\ TypeOK' /\ [Next]_vars => AccountInv'
<1> SUFFICES ASSUME HistoryInv, TypeOK', [Next]_vars PROVE AccountInv'
  OBVIOUS
<1>1. ASSUME NEW t \in Txns, Commit(t) PROVE AccountInv'
  <2>1. CASE kind[t] \in Payments
    BY <1>1, <2>1, PaymentIsNext
  <2>2. CASE kind[t] \notin Payments
    <3>1. Completed' = Completed /\ balance' = balance
      BY <1>1, <2>2, CommitFacts DEF Commit
    <3>2. QED
      BY <3>1 DEF HistoryInv, AccountInv
  <2>3. QED
    BY <2>1, <2>2
<1>2. ASSUME NEW t \in Txns,
             \/ Begin(t) \/ LockBalance(t) \/ ReadBalance(t) \/ InsertRow(t)
             \/ CommitListed(t) \/ Rollback(t)
      PROVE  AccountInv'
  <2>1. tx_history' = tx_history /\ balance' = balance
    BY <1>2 DEF Begin, LockBalance, ReadBalance, InsertRow, CommitListed, Rollback
  <2>2. Completed' = Completed
    BY <2>1 DEF Completed
  <2>3. QED
    BY <2>1, <2>2 DEF HistoryInv, AccountInv
<1>3. CASE NextPage \/ (\E name \in {"tx_history", "listed"} : StartWalk(name)) \/ UNCHANGED vars
  BY <1>3, ReadingKeeps
<1>4. QED
  BY <1>1, <1>2, <1>3 DEF Next

(* Keys are positive, so that a cursor of 0 means the first page.          *)
LEMMA KeyFacts ==
    ASSUME HistoryInv, NEW r \in Table(walk.table)
    PROVE  KeyOf(walk.table, r) \in Nat /\ 0 < KeyOf(walk.table, r)
BY DEF HistoryInv, TypeOK, IdInv, ClockInv, Table, KeyOf, HistoryRows, ListedRows

(* The last page: what it leaves out shares a created_at with a row shown. *)
LEMMA LastPage ==
    ASSUME HistoryInv, walk.step = "more",
           walk' = [walk EXCEPT !.step = "done", !.served = @ \cup PageRows],
           tx_history' = tx_history, listed' = listed
    PROVE  WalkInv'
<1>1. /\ walk'.step = "done" /\ walk'.table = walk.table /\ walk'.owed = walk.owed
      /\ walk'.served = walk.served \cup PageRows
  BY DEF HistoryInv, TypeOK
<1>2. \A name : Table(name)' = Table(name)
  BY DEF Table
<1>3. WalkInv /\ walk.cursor \in Nat
  BY DEF HistoryInv, TypeOK
<1>4. walk'.owed \subseteq Table(walk.table)' /\ walk'.served \subseteq Table(walk.table)'
  BY <1>1, <1>2, <1>3 DEF WalkInv, PageRows, BelowCursor
<1>5. ASSUME NEW r \in walk.owed \ walk'.served PROVE Shown(r)'
  <2>1. r \in Table(walk.table) /\ r \notin PageRows /\ r \in walk.owed \ walk.served
    BY <1>1, <1>3 DEF WalkInv
  <2>2. ~ (walk.cursor = 0 \/ KeyOf(walk.table, r) < walk.cursor)
    BY <1>3, <2>1 DEF PageRows, BelowCursor
  <2>3. Shown(r)
    BY <1>3, <2>1, <2>2 DEF WalkInv
  <2>4. QED
    BY <1>1, <2>3 DEF Shown
<1>6. QED
  BY <1>1, <1>4, <1>5 DEF WalkInv

(* A page in between moves the cursor to the lowest row it shows.          *)
LEMMA MiddlePage ==
    ASSUME HistoryInv, walk.step = "more", NEW page \in Heads(PageRows, Limit),
           walk' = [walk EXCEPT !.served = @ \cup page, !.cursor = Lowest(page)],
           tx_history' = tx_history, listed' = listed
    PROVE  WalkInv'
<1>1. /\ walk'.step = "more" /\ walk'.table = walk.table /\ walk'.owed = walk.owed
      /\ walk'.served = walk.served \cup page /\ walk'.cursor = Lowest(page)
  BY DEF HistoryInv, TypeOK
<1>2. \A name : Table(name)' = Table(name)
  BY DEF Table
<1>3. WalkInv /\ TypeOK /\ walk.cursor \in Nat
  BY DEF HistoryInv, TypeOK
<1>4. /\ page # {} /\ page \subseteq PageRows /\ page \subseteq Table(walk.table)
      /\ \A r \in page, s \in PageRows \ page : KeyOf(walk.table, r) >= KeyOf(walk.table, s)
  BY <1>3, PageFacts
<1>5. PICK low \in page : Lowest(page) = KeyOf(walk.table, low)
  BY <1>3, <1>4, LowestFacts
<1>6. /\ Lowest(page) \in Nat /\ 0 < Lowest(page)
      /\ \A r \in page : Lowest(page) <= KeyOf(walk.table, r)
  BY <1>3, <1>4, <1>5, LowestFacts, KeyFacts
<1>7. walk'.owed \subseteq Table(walk.table)' /\ walk'.served \subseteq Table(walk.table)'
  BY <1>1, <1>2, <1>3, <1>4 DEF WalkInv
<1>8. \A s \in walk.served : KeyOf(walk.table, s) >= Lowest(page)
  <2>1. ASSUME NEW s \in walk.served PROVE KeyOf(walk.table, s) >= Lowest(page)
    <3>1. walk.cursor # 0 /\ walk.cursor <= KeyOf(walk.table, s) /\ s \in Table(walk.table)
      BY <1>3, <2>1 DEF WalkInv
    <3>2. Lowest(page) < walk.cursor
      BY <1>3, <1>4, <1>5, <3>1 DEF PageRows, BelowCursor
    <3>3. KeyOf(walk.table, s) \in Nat
      BY <3>1, KeyFacts
    <3>4. QED
      BY <1>3, <1>6, <3>1, <3>2, <3>3
  <2>2. QED
    BY <2>1
<1>9. ASSUME NEW r \in walk.owed \ walk'.served
      PROVE  KeyOf(walk.table, r) < walk'.cursor \/ Shown(r)'
  <2>1. r \in Table(walk.table) /\ r \notin page /\ r \in walk.owed \ walk.served
    BY <1>1, <1>3 DEF WalkInv
  <2>2. CASE Shown(r)
    BY <1>1, <2>2 DEF Shown
  <2>3. CASE walk.cursor = 0 \/ KeyOf(walk.table, r) < walk.cursor
    <3>1. r \in PageRows
      BY <1>3, <2>1, <2>3 DEF PageRows, BelowCursor
    <3>2. KeyOf(walk.table, r) <= Lowest(page) /\ KeyOf(walk.table, r) \in Nat
      BY <1>4, <1>5, <2>1, <3>1, KeyFacts
    <3>3. CASE KeyOf(walk.table, r) = KeyOf(walk.table, low)
      <4>1. low # r /\ low \in Table(walk.table)
        BY <1>4, <2>1
      <4>2. walk.table # "tx_history"
        BY <2>1, <3>3, <4>1 DEF HistoryInv, IdInv, Table, KeyOf
      <4>3. walk.table = "listed" /\ low.created_at = r.created_at
        BY <1>3, <3>3, <4>2 DEF TypeOK, KeyOf
      <4>4. QED
        BY <1>1, <4>3 DEF Shown
    <3>4. CASE KeyOf(walk.table, r) # KeyOf(walk.table, low)
      BY <1>1, <1>5, <1>6, <3>2, <3>4
    <3>5. QED
      BY <3>3, <3>4
  <2>4. QED
    BY <1>3, <2>1, <2>2, <2>3 DEF WalkInv
<1>10. QED
  BY <1>1, <1>6, <1>7, <1>8, <1>9 DEF WalkInv

(* What is below the cursor is still to come, whatever is committed.       *)
LEMMA WalkStep == HistoryInv /\ TypeOK' /\ [Next]_vars => WalkInv'
<1> SUFFICES ASSUME HistoryInv, TypeOK', [Next]_vars PROVE WalkInv'
  OBVIOUS
<1>1. ASSUME NEW t \in Txns,
             \/ Begin(t) \/ LockBalance(t) \/ ReadBalance(t) \/ InsertRow(t) \/ Rollback(t)
      PROVE  WalkInv'
  <2>1. walk' = walk /\ tx_history' = tx_history /\ listed' = listed
    BY <1>1 DEF Begin, LockBalance, ReadBalance, InsertRow, Rollback
  <2>2. Table(walk.table)' = Table(walk.table)
    BY <2>1 DEF Table
  <2>3. \A r : Shown(r)' <=> Shown(r)
    BY <2>1 DEF Shown
  <2>4. QED
    BY <2>1, <2>2, <2>3 DEF HistoryInv, WalkInv
<1>2. ASSUME NEW t \in Txns, Commit(t) \/ CommitListed(t) PROVE WalkInv'
  <2>1. PICK name \in {"tx_history", "listed"}, row \in HistoryRows \cup ListedRows :
             /\ Owed(name, row)
             /\ name = "tx_history" => row \in tx_history'
             /\ name = "listed" => row \in listed'
    <3>1. CASE Commit(t)
      BY <3>1, CommitFacts DEF Commit
    <3>2. CASE CommitListed(t)
      BY <3>2 DEF CommitListed, HistoryInv, TypeOK, ListedRow, ListedRows
    <3>3. QED
      BY <1>2, <3>1, <3>2
  <2>2. tx_history \subseteq tx_history' /\ listed \subseteq listed'
    BY <1>2 DEF Commit, CommitListed
  <2>3. /\ walk'.step = walk.step /\ walk'.table = walk.table
        /\ walk'.cursor = walk.cursor /\ walk'.served = walk.served
        /\ \/ walk'.owed = walk.owed
           \/ /\ walk'.owed = walk.owed \cup {row}
              /\ walk.step = "more" /\ walk.table = name
              /\ walk.cursor > 0 => KeyOf(walk.table, row) < walk.cursor
    BY <2>1, OwedFacts DEF HistoryInv
  <2>4. /\ Table(walk.table) \subseteq Table(walk.table)'
        /\ walk.table = name => row \in Table(walk.table)'
    BY <2>1, <2>2, <2>3 DEF Table
  <2>5. \A r : Shown(r)' <=> Shown(r)
    BY <2>3 DEF Shown
  <2>6. WalkInv /\ walk.cursor \in Nat
    BY DEF HistoryInv, TypeOK
  <2>7. walk'.owed \subseteq Table(walk.table)' /\ walk'.served \subseteq Table(walk.table)'
    BY <2>3, <2>4, <2>6 DEF WalkInv
  <2>8. \A r \in walk'.owed \ walk'.served :
          \/ walk.step = "more" /\ (walk.cursor = 0 \/ KeyOf(walk.table, r) < walk.cursor)
          \/ Shown(r)
    BY <2>3, <2>6 DEF WalkInv
  <2>9. QED
    BY <2>3, <2>5, <2>6, <2>7, <2>8 DEF WalkInv
<1>3. ASSUME NEW name \in {"tx_history", "listed"}, StartWalk(name) PROVE WalkInv'
  <2>1. /\ walk'.step = "more" /\ walk'.table = name /\ walk'.cursor = 0
        /\ walk'.owed = Table(name) /\ walk'.served = {}
    BY <1>3 DEF StartWalk, NoWalk
  <2>2. Table(name)' = Table(name)
    BY <1>3 DEF StartWalk, Table
  <2>3. QED
    BY <2>1, <2>2 DEF WalkInv
<1>4. CASE NextPage
  <2>1. walk.step = "more" /\ tx_history' = tx_history /\ listed' = listed
    BY <1>4 DEF NextPage
  <2>2. \/ walk' = [walk EXCEPT !.step = "done", !.served = @ \cup PageRows]
        \/ \E page \in Heads(PageRows, Limit) :
              walk' = [walk EXCEPT !.served = @ \cup page, !.cursor = Lowest(page)]
    BY <1>4 DEF NextPage
  <2>3. QED
    BY <2>1, <2>2, LastPage, MiddlePage
<1>5. CASE UNCHANGED vars
  <2>1. walk' = walk /\ \A name : Table(name)' = Table(name)
    BY <1>5 DEF vars, Table
  <2>2. \A r : Shown(r)' <=> Shown(r)
    BY <2>1 DEF Shown
  <2>3. QED
    BY <2>1, <2>2 DEF HistoryInv, WalkInv
<1>6. QED
  BY <1>1, <1>2, <1>3, <1>4, <1>5 DEF Next

(* The invariant holds of a user who was only given the first balance.     *)
LEMMA InitHistory == Init => HistoryInv
<1> SUFFICES ASSUME Init PROVE HistoryInv
  OBVIOUS
<1>1. Funding \in HistoryRows /\ Funding.id = 1 /\ Funding.created_at = 0
      /\ Funding.kind \in Payments /\ Funding.after = SEED_BALANCE_PAISA
  BY HistoryAssumption DEF Funding, HistoryRows, Payments
<1>2. Completed = {Funding}
  BY <1>1 DEF Init, Completed
<1>3. TypeOK
  <2>1. "listed" \in Kinds /\ walk = NoWalk /\ tx_history \subseteq HistoryRows
    BY <1>1 DEF Init, Kinds
  <2>2. walk \in [step : {"none", "more", "done"}, table : {"tx_history", "listed"}, cursor : Nat,
                  owed : SUBSET (HistoryRows \cup ListedRows),
                  served : SUBSET (HistoryRows \cup ListedRows)]
    BY <2>1 DEF NoWalk
  <2>3. QED
    BY <2>1, <2>2, HistoryAssumption DEF Init, TypeOK
<1>4. LockInv
  BY HistoryAssumption DEF Init, LockInv, Holding
<1>5. IdInv
  BY <1>1, <1>2 DEF Init, IdInv
<1>6. ClockInv
  BY <1>1 DEF Init, ClockInv, Open
<1>7. AccountInv
  <2>1. IsFiniteSet(Completed)
    BY <1>2, FS_Singleton
  <2>2. QED
    BY <1>1, <1>2, <2>1 DEF Init, AccountInv
<1>8. WalkInv
  BY DEF Init, WalkInv, NoWalk
<1>9. QED
  BY <1>3, <1>4, <1>5, <1>6, <1>7, <1>8 DEF HistoryInv

(* Every step of a transaction or of the client keeps it.                  *)
LEMMA HistoryStep == HistoryInv /\ [Next]_vars => HistoryInv'
BY TypeStep, LockStep, IdStep, ClockStep, AccountStep, WalkStep DEF HistoryInv

(* So it holds in every state.                                             *)
LEMMA HistoryInvariance == Spec => []HistoryInv
BY InitHistory, HistoryStep, PTL DEF Spec

(* Every value stays in its range: in particular no running balance is     *)
(* negative.                                                               *)
THEOREM HistoryTypes == Spec => []TypeOK
<1>1. HistoryInv => TypeOK
  BY DEF HistoryInv
<1>2. QED
  BY <1>1, HistoryInvariance, PTL
-----------------------------------------------------------------------------
(* A query for one row more than the limit that finds no more than the     *)
(* limit has found every row.                                              *)
LEMMA FetchedIsAll ==
    ASSUME NEW rows, IsFiniteSet(rows), NEW most \in Nat, \A r \in rows : r.id \in Nat,
           Cardinality({r \in rows : Cardinality({s \in rows : s.id < r.id}) < most + 1}) <= most
    PROVE  {r \in rows : Cardinality({s \in rows : s.id < r.id}) < most + 1} = rows
<1> DEFINE Below(r) == {s \in rows : s.id < r.id}
           fetched == {r \in rows : Cardinality(Below(r)) < most + 1}
           rest == rows \ fetched
           ids == {r.id : r \in rest}
<1>1. SUFFICES ASSUME rest # {} PROVE FALSE
  OBVIOUS
<1>2. ids \subseteq Nat /\ ids # {}
  BY <1>1
<1>3. PICK k \in ids : \A m \in ids : <<m, k>> \notin OpToRel(<, Nat)
  BY <1>2, NatLessThanWellFounded, WFMin
<1>4. PICK r \in rest : r.id = k
  BY <1>3
<1>5. Below(r) \in SUBSET rows /\ fetched \in SUBSET rows
  OBVIOUS
<1>6. /\ IsFiniteSet(Below(r)) /\ IsFiniteSet(fetched)
      /\ Cardinality(Below(r)) \in Nat /\ Cardinality(fetched) \in Nat
  BY <1>5, FS_Subset, FS_CardinalityType
<1>7. Below(r) \subseteq fetched
  <2>1. ASSUME NEW s \in Below(r), s \in rest PROVE FALSE
    <3>1. s.id \in ids /\ s.id \in Nat /\ k \in Nat /\ s.id < k
      BY <1>2, <1>3, <1>4, <2>1
    <3> HIDE DEF ids
    <3>2. QED
      BY <1>3, <3>1 DEF OpToRel
  <2>2. QED
    BY <2>1
<1>8. Cardinality(Below(r)) <= Cardinality(fetched)
  BY <1>6, <1>7, FS_Subset
<1>9. ~ (Cardinality(Below(r)) < most + 1)
  BY <1>4
<1> HIDE DEF Below, fetched
<1>10. Cardinality(fetched) <= most
  BY DEF fetched, Below
<1>11. QED
  BY <1>6, <1>8, <1>9, <1>10

(* A statement of the whole history that is given reads as an account, and *)
(* ends with the balance.                                                  *)
THEOREM StatementsAddUp == Spec => []StatementAddsUp
<1>1. ASSUME HistoryInv PROVE StatementAddsUp
  <2> DEFINE fetched == {r \in Completed :
                            Cardinality({s \in Completed : s.id < r.id}) < MAX_STATEMENT_ROWS + 1}
  <2>1. InPeriod(0, clock) = Completed
    <3>1. \A r \in Completed : 0 <= r.created_at /\ r.created_at <= clock
      BY <1>1 DEF HistoryInv, TypeOK, ClockInv, Completed, HistoryRows
    <3>2. QED
      BY <3>1 DEF InPeriod
  <2>2. Statement(0, clock)
          = [refused |-> Cardinality(fetched) > MAX_STATEMENT_ROWS, rows |-> fetched]
    BY <2>1 DEF Statement
  <2>3. ASSUME ~ (Cardinality(fetched) > MAX_STATEMENT_ROWS) PROVE fetched = Completed
    <3>1. /\ IsFiniteSet(Completed) /\ MAX_STATEMENT_ROWS \in Nat
          /\ \A r \in Completed : r.id \in Nat
      BY <1>1, HistoryAssumption DEF HistoryInv, AccountInv, TypeOK, Completed, HistoryRows
    <3>2. IsFiniteSet(fetched)
      BY <3>1, FS_Subset
    <3>3. Cardinality(fetched) \in Nat
      BY <3>2, FS_CardinalityType
    <3>4. Cardinality(fetched) <= MAX_STATEMENT_ROWS
      BY <2>3, <3>1, <3>3
    <3>5. QED
      BY <3>1, <3>4, FetchedIsAll
  <2> HIDE DEF fetched
  <2>4. Statement(0, clock).refused = (Cardinality(fetched) > MAX_STATEMENT_ROWS)
        /\ Statement(0, clock).rows = fetched
    BY <2>2
  <2>5. QED
    BY <1>1, <2>3, <2>4 DEF StatementAddsUp, HistoryInv, AccountInv
<1>2. QED
  BY <1>1, HistoryInvariance, PTL

(* A client that has paged to the end has seen every row there was when it *)
(* began or that was committed below its cursor, or one with the very same *)
(* created_at.                                                             *)
THEOREM WalksMissNothing == Spec => []WalkMissesNothing
<1>1. HistoryInv => WalkMissesNothing
  BY DEF HistoryInv, WalkInv, WalkMissesNothing, Shown
<1>2. QED
  BY <1>1, HistoryInvariance, PTL

(* A page shows only rows below all of those shown before.                 *)
THEOREM PagesGoDown == Spec => PagesDescend
<1>1. ASSUME HistoryInv, [Next]_vars, walk.step = "more",
             NEW r \in walk'.served \ walk.served, NEW s \in walk.served
      PROVE  KeyOf(walk.table, r) < KeyOf(walk.table, s)
  <2>1. NextPage
    <3>1. walk'.served # walk.served
      BY <1>1
    <3>2. ASSUME NEW t \in Txns, Commit(t) PROVE walk'.served = walk.served
      BY <1>1, <3>2, CommitFacts, OwedFacts DEF Commit, HistoryInv
    <3>3. ASSUME NEW t \in Txns, CommitListed(t) PROVE walk'.served = walk.served
      <4>1. ListedRow(t) \in ListedRows /\ Owed("listed", ListedRow(t))
        BY <1>1, <3>3 DEF CommitListed, HistoryInv, TypeOK, ListedRow, ListedRows
      <4>2. QED
        BY <1>1, <4>1, OwedFacts DEF HistoryInv
    <3>4. QED
      BY <1>1, <3>1, <3>2, <3>3 DEF Next, vars, Begin, LockBalance, ReadBalance, InsertRow,
                                    Rollback, StartWalk
  <2>2. r \in PageRows
    <3>1. \/ walk' = [walk EXCEPT !.step = "done", !.served = @ \cup PageRows]
          \/ \E page \in Heads(PageRows, Limit) :
                walk' = [walk EXCEPT !.served = @ \cup page, !.cursor = Lowest(page)]
      BY <2>1 DEF NextPage
    <3>2. TypeOK /\ \A page \in Heads(PageRows, Limit) : page \subseteq PageRows
      BY <1>1, PageFacts DEF HistoryInv
    <3>3. walk'.served = walk.served \cup PageRows
          \/ \E page \in Heads(PageRows, Limit) : walk'.served = walk.served \cup page
      BY <3>1, <3>2 DEF TypeOK
    <3>4. QED
      BY <1>1, <3>2, <3>3
  <2>3. walk.cursor # 0 /\ walk.cursor <= KeyOf(walk.table, s) /\ walk.cursor \in Nat
    BY <1>1 DEF HistoryInv, WalkInv, TypeOK
  <2>4. KeyOf(walk.table, r) < walk.cursor /\ r \in Table(walk.table) /\ s \in Table(walk.table)
    BY <1>1, <2>2, <2>3 DEF PageRows, BelowCursor, HistoryInv, WalkInv
  <2>5. KeyOf(walk.table, r) \in Nat /\ KeyOf(walk.table, s) \in Nat
    BY <1>1, <2>4, KeyFacts
  <2>6. QED
    BY <2>3, <2>4, <2>5
<1>2. HistoryInv /\ [Next]_vars =>
        [walk.step = "more" /\ walk'.step \in {"more", "done"} =>
           \A r \in walk'.served \ walk.served : \A s \in walk.served :
              /\ KeyOf(walk.table, r) < KeyOf(walk.table, s)]_vars
  BY <1>1
<1>3. QED
  BY <1>2, HistoryInvariance, PTL DEF Spec, PagesDescend

(* What a step adds to a past period was open before, begun within it.     *)
LEMMA PastStays ==
    ASSUME HistoryInv, [Next]_vars, NEW to \in 0 .. clock, to < clock
    PROVE  /\ Unsettled(to)' \subseteq Unsettled(to)
           /\ \A from \in 0 .. to :
                 /\ InPeriod(from, to) \subseteq InPeriod(from, to)'
                 /\ InPeriod(from, to)' \ InPeriod(from, to)
                        \subseteq {Row(t) : t \in Unsettled(to)}
<1>1. TypeOK /\ to \in Nat /\ clock \in Nat
  BY DEF HistoryInv, TypeOK
<1>2. \A u \in Open' : (u \in Open /\ created_at'[u] = created_at[u]) \/ created_at'[u] = clock
  <2>1. CASE NextPage \/ (\E name \in {"tx_history", "listed"} : StartWalk(name)) \/ UNCHANGED vars
    <3>1. pc' = pc /\ created_at' = created_at
      BY <2>1 DEF vars, txnVars, NextPage, StartWalk
    <3>2. Open' = Open
      BY <3>1 DEF Open
    <3>3. QED
      BY <3>1, <3>2
  <2>2. CASE ~ (\/ NextPage \/ \E name \in {"tx_history", "listed"} : StartWalk(name)
                \/ UNCHANGED vars)
    BY <2>2, OpenStep DEF Next
  <2>3. QED
    BY <2>1, <2>2
<1>3. Unsettled(to)' \subseteq Unsettled(to)
  <2>1. ASSUME NEW u \in Open', created_at'[u] <= to PROVE u \in Open /\ created_at[u] <= to
    BY <1>1, <1>2, <2>1
  <2>2. QED
    BY <2>1 DEF Unsettled
<1>4. ASSUME NEW from \in 0 .. to
      PROVE  /\ InPeriod(from, to) \subseteq InPeriod(from, to)'
             /\ InPeriod(from, to)' \ InPeriod(from, to) \subseteq {Row(t) : t \in Unsettled(to)}
  <2>1. CASE \E t \in Txns : Commit(t)
    <3>1. PICK t \in Txns : Commit(t)
      BY <2>1
    <3>2. /\ pc[t] = "inserted" /\ kind[t] # "listed"
          /\ Completed' = IF kind[t] \in Payments THEN Completed \cup {Row(t)} ELSE Completed
      BY <3>1, CommitFacts
    <3>3. Row(t).created_at = created_at[t] /\ t \in Open
      BY <1>1, <3>2, RowFacts DEF Open
    <3>4. Row(t).created_at <= to => t \in Unsettled(to)
      BY <3>3 DEF Unsettled
    <3>5. QED
      BY <3>2, <3>4 DEF InPeriod
  <2>2. CASE ~ \E t \in Txns : Commit(t)
    <3>1. tx_history' = tx_history
      BY <2>2 DEF Next, vars, Begin, LockBalance, ReadBalance, InsertRow, CommitListed,
                  Rollback, StartWalk, NextPage
    <3>2. QED
      BY <3>1 DEF InPeriod, Completed
  <2>3. QED
    BY <2>1, <2>2
<1>5. QED
  BY <1>3, <1>4

(* A statement of a past period loses nothing, and gains no row but those  *)
(* of the transactions of the period that are still open.                  *)
THEOREM PastIsSettled == Spec => PastStatementsStay
<1>1. HistoryInv /\ [Next]_vars =>
        [\A to \in 0..clock : to < clock =>
            /\ Unsettled(to)' \subseteq Unsettled(to)
            /\ \A from \in 0..to :
                  /\ InPeriod(from, to) \subseteq InPeriod(from, to)'
                  /\ InPeriod(from, to)' \ InPeriod(from, to)
                        \subseteq {Row(t) : t \in Unsettled(to)}]_vars
  BY PastStays
<1>2. QED
  BY <1>1, HistoryInvariance, PTL DEF Spec, PastStatementsStay
=============================================================================

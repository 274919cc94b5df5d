------------------------------ MODULE History ------------------------------
(***************************************************************************)
(* What one user can read back: the pages of GET /me/transactions, the CSV *)
(* statement (src/src/features/history/service.rs), and the lists of money *)
(* requests and payment links, while transactions that write those rows    *)
(* are open.  A row gets created_at when its transaction begins (now() of  *)
(* Postgres is that instant; a link takes it just before), its id from the *)
(* table's sequence at the INSERT, and is seen from the COMMIT on: three   *)
(* instants, in this order, that different transactions interleave freely. *)
(*                                                                         *)
(* A payment holds the user's balance row from its SELECT ... FOR UPDATE   *)
(* to its end; the row of a refused transfer, a request or a link is       *)
(* written without that lock.  The filters of the queries compare columns  *)
(* that never change in tx_history and only narrow the rows; they are left *)
(* out, except the dates and the status of a statement.                    *)
(***************************************************************************)
EXTENDS Integers, FiniteSets

CONSTANTS
    Txns,                \* transactions that write a row of this user
    Amounts,             \* amounts they move
    SEED_BALANCE_PAISA,
    Limit,               \* rows of a page, 1..100 in the code
    MAX_STATEMENT_ROWS,
    NoTxn

ASSUME HistoryAssumption ==
    /\ NoTxn \notin Txns
    /\ Amounts \subseteq Nat
    /\ SEED_BALANCE_PAISA \in Nat
    /\ Limit \in Nat \ {0}
    /\ MAX_STATEMENT_ROWS \in Nat \ {0}

VARIABLES
    tx_history,          \* its committed rows of this user
    listed,              \* committed rows of money_requests or payment_links
    seq,                 \* next id of tx_history: never rolled back
    balance,             \* the user's amount_paisa
    lock,                \* the transaction holding the balance row
    clock,
    pc, kind, amount, created_at, after, id,   \* the open transactions
    walk                 \* a client paging through one of the two lists

txnVars == <<pc, kind, amount, created_at, after, id>>
vars == <<tx_history, listed, seq, balance, lock, clock, txnVars, walk>>

Payments == {"sent", "received"}
Kinds == Payments \cup {"refused", "listed"}
Open == {t \in Txns : pc[t] \notin {"idle", "done"}}

Funding == [id |-> 1, created_at |-> 0, kind |-> "received", amount |-> SEED_BALANCE_PAISA,
            after |-> SEED_BALANCE_PAISA]
NoWalk == [step |-> "none", table |-> "tx_history", cursor |-> 0, owed |-> {}, served |-> {}]

HistoryRows == [id : Nat, created_at : Nat, kind : Payments \cup {"refused"}, amount : Nat,
                after : Nat]
ListedRows == [created_at : Nat, txn : Txns]

TypeOK ==
    /\ tx_history \subseteq HistoryRows
    /\ listed \subseteq ListedRows
    /\ seq \in Nat
    /\ balance \in Nat
    /\ lock \in Txns \cup {NoTxn}
    /\ clock \in Nat
    /\ pc \in [Txns -> {"idle", "begun", "read", "locked", "inserted", "done"}]
    /\ kind \in [Txns -> Kinds]
    /\ amount \in [Txns -> Amounts \cup {0}]
    /\ created_at \in [Txns -> Nat]
    /\ after \in [Txns -> Nat]
    /\ id \in [Txns -> Nat]
    /\ walk \in [step : {"none", "more", "done"}, table : {"tx_history", "listed"}, cursor : Nat,
                 owed : SUBSET (HistoryRows \cup ListedRows),
                 served : SUBSET (HistoryRows \cup ListedRows)]

Init ==
    /\ tx_history = {Funding}
    /\ listed = {}
    /\ seq = 2
    /\ balance = SEED_BALANCE_PAISA
    /\ lock = NoTxn
    /\ clock = 1
    /\ pc = [t \in Txns |-> "idle"]
    /\ kind = [t \in Txns |-> "listed"]
    /\ amount = [t \in Txns |-> 0]
    /\ created_at = [t \in Txns |-> 0]
    /\ after = [t \in Txns |-> 0]
    /\ id = [t \in Txns |-> 0]
    /\ walk = NoWalk
-----------------------------------------------------------------------------
Goto(t, step) == pc' = [pc EXCEPT ![t] = step]

(* COMMIT or ROLLBACK: the lock is free, and nothing of the transaction is *)
(* left but what it committed.                                             *)
End(t) ==
    /\ lock' = IF lock = t THEN NoTxn ELSE lock
    /\ pc' = [pc EXCEPT ![t] = "done"]
    /\ kind' = [kind EXCEPT ![t] = "listed"]
    /\ amount' = [amount EXCEPT ![t] = 0]
    /\ created_at' = [created_at EXCEPT ![t] = 0]
    /\ after' = [after EXCEPT ![t] = 0]
    /\ id' = [id EXCEPT ![t] = 0]

Begin_Backdated(t) ==                           \* mutant: the instant of the request's arrival
    /\ pc[t] = "idle"
    /\ kind' = [kind EXCEPT ![t] = "refused"]
    /\ amount' = amount
    /\ created_at' = [created_at EXCEPT ![t] = clock - 1]
    /\ clock' = clock + 1
    /\ Goto(t, "begun")
    /\ UNCHANGED <<tx_history, listed, seq, balance, lock, after, id, walk>>

(* Two transactions may begin within the same microsecond.                 *)
Begin(t) ==
    /\ pc[t] = "idle"
    /\ \/ \E k \in Payments, a \in Amounts :
             kind' = [kind EXCEPT ![t] = k] /\ amount' = [amount EXCEPT ![t] = a]
       \/ \E k \in Kinds \ Payments : kind' = [kind EXCEPT ![t] = k] /\ amount' = amount
    /\ created_at' = [created_at EXCEPT ![t] = clock]
    /\ clock' \in {clock, clock + 1}
    /\ Goto(t, "begun")
    /\ UNCHANGED <<tx_history, listed, seq, balance, lock, after, id, walk>>

LockBalance_NoFunds(t) ==                       \* mutant: funds check dropped
    /\ pc[t] = "begun"
    /\ kind[t] \in Payments
    /\ lock = NoTxn
    /\ lock' = t
    /\ after' = [after EXCEPT ![t] = IF kind[t] = "sent" THEN balance - amount[t]
                                     ELSE balance + amount[t]]
    /\ Goto(t, "locked")
    /\ UNCHANGED <<tx_history, listed, seq, balance, clock, kind, amount, created_at, id, walk>>

LockBalance_NoForUpdate(t) ==                   \* mutant: plain SELECT
    /\ pc[t] = "begun"
    /\ kind[t] \in Payments
    /\ kind[t] = "sent" => balance >= amount[t]
    /\ lock' = t
    /\ after' = [after EXCEPT ![t] = IF kind[t] = "sent" THEN balance - amount[t]
                                     ELSE balance + amount[t]]
    /\ Goto(t, "locked")
    /\ UNCHANGED <<tx_history, listed, seq, balance, clock, kind, amount, created_at, id, walk>>

(* SELECT ... FOR UPDATE of the balance, and the new balance from it.  A   *)
(* sender without the funds rolls back.                                    *)
LockBalance(t) ==
    /\ pc[t] = "begun"
    /\ kind[t] \in Payments
    /\ lock = NoTxn
    /\ kind[t] = "sent" => balance >= amount[t]
    /\ lock' = t
    /\ after' = [after EXCEPT ![t] = IF kind[t] = "sent" THEN balance - amount[t]
                                     ELSE balance + amount[t]]
    /\ Goto(t, "locked")
    /\ UNCHANGED <<tx_history, listed, seq, balance, clock, kind, amount, created_at, id, walk>>

(* Without the lock, the balance shown with a refused transfer is only the *)
(* one that its SELECT read.                                               *)
ReadBalance(t) ==
    /\ pc[t] = "begun"
    /\ kind[t] = "refused"
    /\ after' = [after EXCEPT ![t] = balance]
    /\ Goto(t, "read")
    /\ UNCHANGED <<tx_history, listed, seq, balance, lock, clock, kind, amount, created_at, id,
                   walk>>

(* The INSERT into tx_history takes its id from the sequence.              *)
InsertRow(t) ==
    /\ pc[t] \in {"read", "locked"}
    /\ id' = [id EXCEPT ![t] = seq]
    /\ seq' = seq + 1
    /\ Goto(t, "inserted")
    /\ UNCHANGED <<tx_history, listed, balance, lock, clock, kind, amount, created_at, after, walk>>

(* The keyset pages.  tx_history is ordered by id, the lists of requests   *)
(* and links by created_at, both descending, and a page holds the rows     *)
(* below the cursor.                                                       *)
Table(name) == IF name = "tx_history" THEN tx_history ELSE listed
KeyOf(name, r) == IF name = "tx_history" THEN r.id ELSE r.created_at
BelowCursor_Inclusive(name, r) ==               \* mutant: <= for <
    walk.cursor > 0 => KeyOf(name, r) <= walk.cursor

BelowCursor(name, r) == walk.cursor > 0 => KeyOf(name, r) < walk.cursor

(* A row committed where the pages have still to pass is owed to the       *)
(* client like those there were when it began.                             *)
Owed(name, r) ==
    walk' = IF walk.step = "more" /\ walk.table = name /\ BelowCursor(name, r)
            THEN [walk EXCEPT !.owed = @ \cup {r}] ELSE walk

Row(t) == [id |-> id[t], created_at |-> created_at[t], kind |-> kind[t], amount |-> amount[t],
           after |-> after[t]]

Commit(t) ==
    /\ pc[t] = "inserted"
    /\ tx_history' = tx_history \cup {Row(t)}
    /\ balance' = IF kind[t] \in Payments THEN after[t] ELSE balance
    /\ Owed("tx_history", Row(t))
    /\ End(t)
    /\ UNCHANGED <<listed, seq, clock>>

(* create_request and create_link: one INSERT, then COMMIT.                *)
ListedRow(t) == [created_at |-> created_at[t], txn |-> t]

CommitListed(t) ==
    /\ pc[t] = "begun"
    /\ kind[t] = "listed"
    /\ listed' = listed \cup {ListedRow(t)}
    /\ Owed("listed", ListedRow(t))
    /\ End(t)
    /\ UNCHANGED <<tx_history, seq, balance, clock>>

Rollback(t) ==
    /\ t \in Open
    /\ End(t)
    /\ UNCHANGED <<tx_history, listed, seq, balance, clock, walk>>
-----------------------------------------------------------------------------
StartWalk(name) ==
    /\ walk.step = "none"
    /\ walk' = [NoWalk EXCEPT !.step = "more", !.table = name, !.owed = Table(name)]
    /\ UNCHANGED <<tx_history, listed, seq, balance, lock, clock, txnVars>>

PageRows == {r \in Table(walk.table) : BelowCursor(walk.table, r)}
Heads(rows, n) ==
    {page \in SUBSET rows :
        /\ Cardinality(page) = n
        /\ \A r \in page, s \in rows \ page : KeyOf(walk.table, r) >= KeyOf(walk.table, s)}
Lowest(page) == CHOOSE k \in {KeyOf(walk.table, r) : r \in page} :
                    \A r \in page : k <= KeyOf(walk.table, r)

NextPage_CursorOfExtra ==                       \* mutant: cursor of the row fetched in excess
    /\ walk.step = "more"
    /\ LET rows == PageRows IN
        \/ /\ Cardinality(rows) <= Limit
           /\ walk' = [walk EXCEPT !.step = "done", !.served = @ \cup rows]
        \/ /\ Cardinality(rows) > Limit
           /\ \E fetched \in Heads(rows, Limit + 1) : \E page \in Heads(fetched, Limit) :
                walk' = [walk EXCEPT !.served = @ \cup page, !.cursor = Lowest(fetched)]
    /\ UNCHANGED <<tx_history, listed, seq, balance, lock, clock, txnVars>>

(* One row more than the limit is fetched to know whether there are more;  *)
(* rows with equal keys come in any order.  The next cursor is the key of  *)
(* the last row shown.                                                     *)
NextPage ==
    /\ walk.step = "more"
    /\ LET rows == PageRows IN
        \/ /\ Cardinality(rows) <= Limit
           /\ walk' = [walk EXCEPT !.step = "done", !.served = @ \cup rows]
        \/ /\ Cardinality(rows) > Limit
           /\ \E page \in Heads(rows, Limit) :
                walk' = [walk EXCEPT !.served = @ \cup page, !.cursor = Lowest(page)]
    /\ UNCHANGED <<tx_history, listed, seq, balance, lock, clock, txnVars>>

Next ==
    \/ \E t \in Txns : Begin(t) \/ LockBalance(t) \/ ReadBalance(t) \/ InsertRow(t)
                        \/ Commit(t) \/ CommitListed(t) \/ Rollback(t)
    \/ \E name \in {"tx_history", "listed"} : StartWalk(name)
    \/ NextPage

Spec == Init /\ [][Next]_vars
-----------------------------------------------------------------------------
(* The statement of a period: the completed rows in id order, or a refusal *)
(* when there are more than MAX_STATEMENT_ROWS (the query asks for one     *)
(* more than that).                                                        *)
Completed == {r \in tx_history : r.kind \in Payments}
InPeriod(from, to) == {r \in Completed : from <= r.created_at /\ r.created_at <= to}

Statement(from, to) ==
    LET rows == InPeriod(from, to)
        fetched == {r \in rows : Cardinality({s \in rows : s.id < r.id}) < MAX_STATEMENT_ROWS + 1}
    IN  [refused |-> Cardinality(fetched) > MAX_STATEMENT_ROWS, rows |-> fetched]

(* A statement that is given is whole, and one of the entire history reads *)
(* as an account: in id order each running balance follows from the one    *)
(* before, and the last is the balance, although ids are taken before the  *)
(* commits and refused transfers take theirs without the lock.             *)
Signed(r) == IF r.kind = "sent" THEN -r.amount ELSE r.amount

StatementAddsUp ==
    LET given == Statement(0, clock) IN
    ~given.refused =>
        /\ \A r, s \in given.rows :
              (r.id < s.id /\ \A q \in given.rows : q.id <= r.id \/ s.id <= q.id)
                 => s.after = r.after + Signed(s)
        /\ \E r \in given.rows : (\A q \in given.rows : q.id <= r.id) /\ r.after = balance

(* A statement of a past period loses nothing later, and what it gains is  *)
(* a row of a transaction that began in the period and was still open: if  *)
(* none is open, it is final.  Nothing else is dated back into it.         *)
Unsettled(to) == {t \in Open : created_at[t] <= to}

PastStatementsStay ==
    [][\A to \in 0..clock : to < clock =>
          /\ Unsettled(to)' \subseteq Unsettled(to)
          /\ \A from \in 0..to :
                /\ InPeriod(from, to) \subseteq InPeriod(from, to)'
                /\ InPeriod(from, to)' \ InPeriod(from, to)
                      \subseteq {Row(t) : t \in Unsettled(to)}]_vars

(* A client that pages to the end has been shown every row there was when  *)
(* it began and every row committed meanwhile where its pages had still to *)
(* pass.  Over created_at a row can be left out, but only for another      *)
(* shown with the very same created_at.                                    *)
WalkMissesNothing ==
    walk.step = "done" => \A r \in walk.owed \ walk.served :
        /\ walk.table = "listed"
        /\ \E s \in walk.served : s.created_at = r.created_at

(* No page repeats a row of an earlier page of its walk or goes back up    *)
(* the list, although rows still appear on either side of the cursor.      *)
PagesDescend ==
    [][walk.step = "more" /\ walk'.step \in {"more", "done"} =>
          \A r \in walk'.served \ walk.served : \A s \in walk.served :
             /\ KeyOf(walk.table, r) < KeyOf(walk.table, s)]_vars
=============================================================================

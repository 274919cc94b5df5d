----------------------------- MODULE Reconcile -----------------------------
(***************************************************************************)
(* run_reconciliation (src/src/features/reconcile/service.rs) beside the   *)
(* handlers of MoneyMovement: the audit is a sequence of statements on the *)
(* pool, each reading its own snapshot, with no transaction around them.   *)
(***************************************************************************)
EXTENDS MoneyMovement

CONSTANTS NoBalance

VARIABLES
    audit,          \* the statement the audit is at
    seen_balance,   \* seen_balance[u]: the balance it read for u
    errors,         \* the violations it reports, by contract and user
    audited         \* audited[u]: u's ledger when u's balance was read

auditVars == <<vars, audit, seen_balance, errors, audited>>
bankState == <<dbVars, ledger_seq, lockVars, redisVars, lapsed, procVars, published>>

AuditInit ==
    /\ Init
    /\ audit = [at |-> "idle", user |-> 0]
    /\ seen_balance = [u \in Users |-> NoBalance]
    /\ errors = {}
    /\ audited = [u \in Users |-> {}]

Balances == SumFunctionOnSet(balances, Users)

(* The users are visited one after another; here in the order of their ids. *)
NextUser(u) == IF u = NUsers THEN [at |-> "done", user |-> 0]
                             ELSE [at |-> "balance", user |-> u + 1]

(* SELECT COUNT over users, a snapshot of its own.  The number of users is *)
(* constant here: what a registration between it and the SUM below would   *)
(* do to contract 2 is left out.                                           *)
BeginAudit ==
    /\ audit.at = "idle"
    /\ audit' = [at |-> "sum", user |-> 0]
    /\ UNCHANGED <<bankState, seen_balance, errors, audited>>

(* Contract 2, on one SELECT SUM over balances.                            *)
CheckTotal ==
    /\ audit.at = "sum"
    /\ errors' = IF Balances = NUsers * SEED_BALANCE_PAISA
                 THEN errors ELSE errors \cup {[contract |-> 2, user |-> 0]}
    /\ audit' = NextUser(0)
    /\ UNCHANGED <<bankState, seen_balance, audited>>

ReadUserBalance ==
    /\ audit.at = "balance"
    /\ seen_balance' = [seen_balance EXCEPT ![audit.user] = balances[audit.user]]
    /\ audited' = [audited EXCEPT ![audit.user] = RowsOf(audit.user)]
    /\ audit' = [audit EXCEPT !.at = "rows"]
    /\ UNCHANGED <<bankState, errors>>

(* Contracts 3 (the running balances chain, the first row from zero) and 1 *)
(* (the rows add up to the balance read before), on one SELECT of u's rows. *)
Delta_Unsigned(r) == r.amount                   \* mutant: direction ignored

Delta(r) == r.amount * r.direction
FirstRow(r, u) == \A t \in RowsOf(u) : r.id <= t.id
ChainBroken(u) ==
    \/ \E r \in RowsOf(u) : FirstRow(r, u) /\ r.running_balance # Delta(r)
    \/ \E r, s \in RowsOf(u) : Precedes(r, s) /\ s.running_balance # r.running_balance + Delta(s)

CheckRows ==
    /\ audit.at = "rows"
    /\ LET u == audit.user
           sum == SumFunctionOnSet([r \in ledger |-> Delta(r)], RowsOf(u))
       IN  errors' = errors
              \cup {e \in {[contract |-> 3, user |-> u]} : ChainBroken(u)}
              \cup {e \in {[contract |-> 1, user |-> u]} : sum # seen_balance[u]}
    /\ audit' = NextUser(audit.user)
    /\ UNCHANGED <<bankState, seen_balance, audited>>

Audit == BeginAudit \/ CheckTotal \/ ReadUserBalance \/ CheckRows

AuditNext ==
    \/ Next /\ UNCHANGED <<audit, seen_balance, errors, audited>>
    \/ Audit

AuditSpec == AuditInit /\ [][AuditNext]_auditVars
-----------------------------------------------------------------------------
(* While nobody registers, the total and the chains of a live ledger are   *)
(* still judged rightly: the balances are summed in one statement, and so  *)
(* are the rows of a user read, and commits are atomic.                    *)
TotalsAndChainsHoldLive == \A e \in errors : e.contract = 1

(* A balance is reported as wrong only for a user whose ledger grew since  *)
(* that balance was read: a quiet system is audited exactly.               *)
AlarmMeansMovement ==
    \A e \in errors : e.contract = 1 => RowsOf(e.user) # audited[e.user]
=============================================================================

-------------------------------- MODULE Bank --------------------------------
(***************************************************************************)
(* What the payments back end promises about money, whatever the route a   *)
(* payment takes (transfer, money request, payment link), however requests *)
(* interleave and whatever fails: a payment happens in one step or not at  *)
(* all, is covered by the payer's funds, is made at most once per          *)
(* idempotency key, and settles an obligation (a money request or a        *)
(* payment link) at most once and on that obligation's own terms.          *)
(***************************************************************************)
EXTENDS Integers

CONSTANTS
    Users,          \* account holders
    Keys,           \* idempotency keys
    Obligations,    \* money requests and payment links
    NoObligation,   \* a plain transfer settles none
    Opening,        \* what every account is opened with
    Amounts,        \* amounts a payment may have
    Terms           \* Terms[o]: the payments [payer, payee, amount] that settle o

VARIABLES
    funds,          \* funds[u]: the balance of u
    payments,       \* the payments made, each with its key
    settled         \* the obligations settled, each with the key that paid it

bankVars == <<funds, payments, settled>>

BankInit ==
    /\ funds = [u \in Users |-> Opening]
    /\ payments = {}
    /\ settled = {}

Pay(k, from, to, a, o) ==
    /\ from # to
    /\ a > 0
    /\ funds[from] >= a
    /\ \A q \in payments : q.key # k
    /\ funds' = [funds EXCEPT ![from] = @ - a, ![to] = @ + a]
    /\ payments' = payments \cup {[key |-> k, payer |-> from, payee |-> to, amount |-> a]}
    /\ \/ o = NoObligation /\ settled' = settled
       \/ /\ o \in Obligations
          /\ [payer |-> from, payee |-> to, amount |-> a] \in Terms[o]
          /\ \A s \in settled : s.obligation # o
          /\ settled' = settled \cup {[obligation |-> o, key |-> k]}

BankNext ==
    \E k \in Keys, from, to \in Users, a \in Amounts, o \in Obligations \cup {NoObligation} :
        Pay(k, from, to, a, o)

BankSpec == BankInit /\ [][BankNext]_bankVars
=============================================================================

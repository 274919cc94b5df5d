# A formal model of the PSTU Pay back end

`src/src/` is a Rust service (axum, sqlx, redis, NATS) through which registered users send
each other money: by transfer, by accepting a money request, or by claiming a payment link.
Postgres holds the money, Redis the sessions and counters. This directory models the parts
in which several requests meet: TLA+ modules translated from the code, TLC configurations
that check them on small instances, and TLAPS proofs for instances of every size.

Paths below are relative to the repository; `transfers/service.rs` and the like stand for
`src/src/features/transfers/service.rs`.

## 1. Inventory

| Part | State it keeps | Operations | Shared with |
| --- | --- | --- | --- |
| Transfers (`transfers/service.rs`) | `balances`, `transfers`, `ledger`, `tx_history`, `process_events`; Redis `daily_outflow:<user>:<day>` | `process_transfer` | requests, links, audit |
| Money requests (`requests/service.rs`) | `money_requests` | create, list, accept, reject, cancel | accept writes the money tables |
| Payment links (`links/service.rs`) | `payment_links` | create, view (with lazy expiry), list, claim, cancel | claim writes the money tables |
| Transaction PIN (`core/pin.rs`) | Redis `pf:<user>`, `users.pin_hash` | `enforce_user_pin`, `change_pin`, the PIN part of `reset_pin` | called by everything that spends |
| Sessions (`auth/service.rs`, `auth/middleware.rs`) | Redis `session:<token>`, `sids:<user>` | login, logout, authentication, `reset_pin` | every route |
| Registration, login lockout (`auth/service.rs`) | `users`, `balances`, `ledger`, Redis `lf:<phone>` | register, the failure counter of login | creates every account |
| Audit (`reconcile/service.rs`, `bin/reconcile.rs`) | none, reads only | `run_reconciliation` | runs beside payments |
| Rate limiter (`core/ratelimit.rs`) | Redis sorted sets | count, then add | every route |
| Recipient lookup (`users/service.rs`) | none, reads `users` | `resolve_recipient_user`, lookup | transfers, requests |
| History and statements (`history/service.rs`) | reads `tx_history` | keyset pages, activity, CSV statement | payments insert rows |
| Process events (`events/service.rs`) | `process_events` | `log_event_txn`, `log_event_pool` | every handler |
| Notifications (`notifications/service.rs`) | `notifications` | list, mark read | nothing inserts rows |
| Money parsing (`core/money.rs`) | none | strings to paisa | transfers, requests, links |
| AI intent parser (`ai/parser.rs`) | none | free text to an intent | the client confirms it |
| Mail, NATS | none of the system's | fire and forget after COMMIT | nothing reads them |
| Server, configuration, errors, telemetry | none | start-up, routing, formatting | |

Requests interact only through Postgres and Redis. Nothing in the process is shared: each
handler is an async function whose every `.await` is a place where other requests run, where
it may fail, and where it may be dropped because the client hung up.

What is hard about it:

* **Money.** Three handlers write the same five tables from copies of balances read earlier
  in the transaction. Lost updates are prevented by `SELECT ... ORDER BY user_id FOR UPDATE`,
  deadlock by the order of ids, double payment by a UNIQUE idempotency key and by the lock
  on the request or link. Ledger ids come from a sequence that ignores transactions, while
  the audit reads the ledger in id order.
* **Entities.** Two parties (accept, reject, cancel) or many (claim, cancel, and anybody who
  views the page of an expired link) decide on one row. The view decides on an unlocked read.
* **Redis.** Counters are checked in one command and incremented in another; sessions are two
  keys written by two commands; every Redis error is swallowed.
* **The audit** reads each user in two statements with no snapshot, while payments commit.
* **Pages and statements** are cut by ids that are drawn before COMMIT, or by `created_at`, which
  is the instant the writing transaction began: rows appear below a cursor that has passed them.
* **Registration** checks for a duplicate without a lock and relies on the UNIQUE indexes; the
  login counter counts phones that have no account yet.
* **The rate limiter** counts in one Redis transaction and adds in another, by clock readings that
  other requests have overtaken by then.

What makes each part correct is stated as the properties of section 4.

## 2. Modules

| Module | What it models | State |
| --- | --- | --- |
| `Bank` | what the three routes together promise: atomic, covered, at most one payment per key and per obligation | `funds`, `payments`, `settled` |
| `MoneyMovement` | `process_transfer`, `accept_request`, `claim_link` as concurrent requests | the tables, row and key locks, the Redis counter, one `pc`, `job`, `read`, `ids`, `answer` per request |
| `MoneyRequests` | `MoneyMovement` with create, reject and cancel of requests | adds `asked` |
| `PaymentLinks` | `MoneyMovement` with create, view and cancel of links | adds `created`, `expiring` |
| `Obligations` | both together: one set of accounts, keys, locks and events | those of both |
| `Reconcile` | `MoneyMovement` with the audit beside it | adds `audit`, `seen_balance`, `errors` (and `audited`, which only properties read) |
| `PinGuard` | the failure counter and the PIN of one user, and what replaces the PIN | `failures`, `ttl`, `pin_hash`, one `pc`, `request`, `fetched` per attempt (`in_force`, `faulted`, `expire_lost` for properties) |
| `Sessions` | the two session keys of one user | `sessions`, `sids`, the progress of logins, logouts and a reset |
| `Accounts` | registration, login up to the accepted password, recipient lookup | `users`, `funded`, `reg` per registration; `failures`, `ttl`, one `pc` per login (`faulted`, `expire_lost` for properties) |
| `History` | the pages and the statement of one user beside the transactions that write rows | `tx_history`, `listed`, `seq`, `balance`, `lock`, `clock`, the open transactions, one `walk` (its `served` and `owed` for properties) |
| `RateLimit` | the sliding window of one user and scope | `zset`, `ttl`, one `call` per request (`admitted`, `refused`, `faulted` for properties) |
| `SumTheorems` | facts about `SumFunctionOnSet`, the library's sum of `f[x]` over a finite set | |
| `MoneyMovementProofs` | theorems about `MoneyMovement`: locks, ledger, keys, totals | |
| `BankProofs` | theorems about `MoneyMovement` as an implementation of `Bank`, about `Obligations` and about `Reconcile` | |
| `PinGuardProofs`, `SessionsProofs`, `AccountsProofs`, `HistoryProofs`, `RateLimitProofs` | theorems about the modules they are named after | |
| `MC*` | constants of the runs | |

How `MoneyMovement` corresponds to the code:

* A *job* is a call: who, what, which key. A retry is the same job again. A request enters
  after its PIN was verified, its amount parsed and its recipient resolved; those steps touch
  none of this state (the PIN has its own module).
* One action is one statement other requests can observe or wait for. What a transaction
  writes is invisible before COMMIT (READ COMMITTED), so the two UPDATEs and the INSERTs are
  kept in `read` and `ids`, and `Commit` makes them visible at once. What *can* be seen
  earlier is modelled earlier: row locks, the key (a second INSERT of it waits, as on a UNIQUE
  index, and fails if the first commits: `InsertKey`, `DuplicateKey`), and the ids drawn from
  the sequence, which a rollback does not give back.
* `LockFirst` and `LockSecond` split the one `SELECT ... FOR UPDATE`: Postgres locks row by
  row. The values it returns are those of the locked rows.
* `ReleaseLocks` is the end of a transaction. Returning with an open transaction drops it,
  which rolls it back. `Rollback` does this in one step with the answer.
* `Fail` is any error, a pool timeout, a dropped client or a dying server, at any step. It
  rolls back what is open and leaves what was committed, and the Redis counter, as they are.
* `IncrVelocity` is Redis INCR with its `unwrap_or(0)`: on an error the transfer goes on,
  whether or not the INCR took effect. `failed_open` records under which keys that happened; no
  action reads it.
* `Init` is what `register_user` leaves: for every user the seed balance, its ledger row and its
  funding row of `tx_history`.
* Transaction ids, references, notes and timestamps are left out. A payment is known by its
  idempotency key, a row under it by its columns that matter.

`reject`, `cancel` and `create` take one lock at most and hold it for one transaction, so each
is one action taken while that lock is free. The public view of a link is two actions.

`MoneyRequests` and `PaymentLinks` let a client name an entity only once it was created:
their ids and tokens are random and are first seen in the answer of the creating call.
`Obligations` interleaves the three: a step is one of `MoneyMovement`, `MoneyRequests` or
`PaymentLinks`, and leaves the variables of the others alone.

How the modules beside `MoneyMovement` correspond to the code:

* `PinGuard`: each Redis command and each SQL statement of `enforce_user_pin` is an action; a
  command may be lost, and a lost GET reads as zero. `pay` stands for every caller. `change_pin`
  goes on to `UpdatePin` after the check, `reset_pin` without it (it asks for the password).
* `Sessions`: the five commands about `session:<token>` and `sids:<user>`, each of which may be
  lost. A reset drops what SMEMBERS returned, token by token, in any order (a Redis set has none). It
  spares the session of its cookie, which may be the one it is made in, another (with a Bearer token)
  or none. One reset is made.
* `Accounts`: `InsertUser` waits for an open registration with the same phone or number, as a
  UNIQUE index makes it; `FundAccount` stands for the INSERTs nobody else can see;
  `CommitRegistration` makes user and funds visible at once. Phones are strings, and only the
  recipient lookup normalises them (`Normal`), so two spellings of one number can be two accounts.
  `Resolve` is the query with its ORDER BY; that an identifier may also be the UUID of a user is left
  out, since no phone or account number (20 characters at most) reads as one. `IncrFailures` is both
  code paths of a failed login (unknown phone, wrong password), which INCR and EXPIRE the same key.
* `History`: a transaction gets `created_at` at its BEGIN, its id at its INSERT and visibility at
  its COMMIT. Between the first two a payment locks and reads the balance row (`LockBalance`), and a
  refused transfer reads it without a lock (`ReadBalance`). A `walk` is a client that pages to the end
  through `tx_history` (by id) or through a list of requests or links (by `created_at`). It is `owed`
  the rows there when it began and those committed since below its cursor. `Statement` is an operator,
  evaluated in every state for every period.
* `RateLimit`: `ReadClock`, `CountWindow` (purge and count) and `AddEntry` (add and renew the TTL).
  Times are kept as ages, so that the state space is finite: `Tick` makes everything older.

### Bounds

| Bound | Where | Why it is enough |
| --- | --- | --- |
| 2 or 3 requests in flight | `Procs` | two meet at any lock; three are needed for a cycle of three waits |
| 3 calls (2 in the audit run) | `MaxCalls` | a call, its duplicate, and one that interferes |
| 2 keys | `Keys` | one reused, one fresh |
| 2 or 3 users | `NUsers` | both directions between two; a cycle of three |
| balances of 3 or 4, amounts of 1 to 5, caps of 2 to 4 | `MC*` | two payments together exceed the funds, one exceeds them until something is received, one exceeds the per-transfer cap, two transfers exceed the daily cap |
| 1 request, 1 link, 1 viewer | `MC*` | the races are on one row |
| 2 PIN attempts in flight, 4 in all, limit 2, 2 PINs | `MCPin.cfg` | reaches the limit, one past it, a lockout that ends, and a PIN replaced by another and back |
| 2 tokens | `MCSessions.cfg` | the session that resets and one other |
| 2 registrations, 3 phones, 2 account numbers | `MCAccounts` | both race on one phone, on one number or on neither; two phones spell one number, and one reads like an account number |
| 2 login attempts, 4 in all, limit 2 | `MCAccounts.cfg` | as for PINs, while the phone becomes registered |
| 3 transactions, pages of 1 row, statements of 3 | `MCHistory.cfg` | two rows reorder around a third; every row is a page boundary; a statement shows the funding row and two payments, whose id order matters, and is refused when all three transactions are payments (four rows) |
| 2 callers, limit 2, window 3, slack 1, delay 2 | `MCRateLimit.cfg` | both callers pass the count together; a request is late by more than the slack of the key and by less than the window |

`MaxCalls` and `MaxAttempts` sit in the guards of `Start`, `Call` and `Login` only; `MaxDelay` in
that of `Tick`. Once the calls are used up every request is idle and nothing more can happen, and a
walk, a registration or a reset is made once, so `CHECK_DEADLOCK FALSE` is set in every
configuration: the end is the bound's, not the system's. That requests do not wait on each other
forever is checked by `NoDeadlock` and `EveryCallAnswered` instead.

## 3. Fairness

Three liveness properties are checked, each under weak fairness.

* `EveryCallAnswered`, under `ObligationFairSpec`: a request that stays able to take its next step
  takes it. The tokio runtime polls every ready task, and Postgres wakes the waiters of a freed
  lock. A lock is contended by a bounded number of calls here, so weak fairness per request
  suffices; nothing is assumed about `Start`, `Fail`, `Lapse` or about users creating, viewing
  and closing requests and links.
* `LockoutEnds`, under `FairSpec` of `PinGuard`: the same for the steps of an attempt, and Redis
  expires a key whose TTL is over (`Timeout`).
* `RoomReturns`, under `FairSpec` of `RateLimit`: time passes (`Tick`), and a request whose commands
  are not lost comes to their end. Requests arrive as they like, and may be refused forever after.

## 4. Runs

| Run | Properties | What it shows |
| --- | --- | --- |
| `transfers` | `TypeOK`, `LedgerExplainsBalances`, `KeyMovesMoneyOnce`, `DailyCapHolds`, `ReadsAreFresh`, `AnswersAreTrue`, `RecordsArePermanent` | two transfers at a time, both directions, every key reused with the same and other payloads, failing anywhere: chains, keys, counter and answers stay consistent |
| `payments` | `NoMoneyCreated`, `ObligationPaidOnce`, `NoDeadlock`, `ImplementsBank` | transfer, accept and claim around a cycle of three users: no cycle of waits over entity rows, balance rows and keys; the whole refines `Bank` |
| `obligations` | `ObligationTypeOK`, `OneResolution`, `ClaimedLinksArePaid`, `CancelledLinksAreUnpaid`, `ResolvedRequestsStay`, `ClosedLinksStayUnpaid`, `EveryCallAnswered` | a request and a link that one user owes, accepted and claimed out of the same account while the parties reject, cancel and view past the deadline: each has one outcome, paying and closing exclude each other, and every call is answered |
| `pin` | `TypeOK`, `GuessesBounded`, `AcceptedPinIsCurrent`, `LockoutEnds` | the check-then-increment race lets through at most one attempt per request in flight; a lockout ends, unless the last EXPIRE to be sent was lost and left no TTL; the PIN an attempt is accepted with was in force at some moment since that attempt began, whatever changed meanwhile |
| `sessions` | `LiveSessionsAreListed`, `ResetDropsFinishedLogins` | a reset finds every session whose login had finished, short of lost commands |
| `accounts` | `TypeOK`, `AccountsAreWhole`, `LoginGuessesBounded`, `LoginCounterWillExpire`, `ResolutionIsStable` | racing registrations leave whole, distinct accounts; the login counter bounds the guesses, and has or is about to get a TTL unless an EXPIRE was lost, for unknown phones too; an identifier that reaches somebody reaches another only after an exact registration of it |
| `history` | `TypeOK`, `StatementAddsUp`, `WalkMissesNothing`, `PastStatementsStay`, `PagesDescend` | running balances follow in id order although ids are drawn before COMMIT; a client that pages is shown what was there at the start and what was committed since below its cursor, except rows that tie in `created_at`; a past period's statement gains only rows of transactions begun in it and still open, and is final when there are none |
| `rate_limit` | `TypeOK`, `AdmissionsBounded`, `RefusalsAreEarned`, `RoomReturns` | the race lets in at most one request more per other request in flight in the span that ends now, and one more per caller when a span is over and its late requests have come; nobody is refused because of requests that were refused; a full window empties |
| `audit` | `TotalsAndChainsHoldLive`, `AlarmMeansMovement` | beside payments, the total and the chains are judged rightly, and a balance alarm means that user's ledger grew meanwhile |

Each property has a mutant in `PROJECT.json`: a plausible bug in one of the modelled
definitions that makes the same run fail. The mutated forms stand beside the originals
(`LockSecond_Autocommit`, `LockEntity_NoForUpdate`, ...).

### Where code and text disagree

Three runs are expected to be violated; each checks what a comment or document says.

| Run | The text | What the code does |
| --- | --- | --- |
| `same_payload` | "Same key with matching payload -> 200 replay" (`transfers/service.rs:66`) | two identical calls in flight: both pass the unlocked lookup, the second fails on the UNIQUE key with an error |
| `claim_replay` | "Handle already claimed link replay vs conflict (C22)" (`links/service.rs:185`) | the lazy expiry of a viewer, decided before a claim commits and written after, overwrites `claimed`; the claimer who retries is told the link is gone. The money is not affected |
| `secondary_session` | "Redis secondary session invalidation" (`src/README.md:52`) | a login between its SET and its SADD escapes the SMEMBERS of a reset that runs in between |

## 5. Proofs

The modules below prove, for every number of users, requests in flight, keys, entities, jobs,
calls, viewers, tokens, attempts, registrations, transactions and callers, every amount, cap, limit
and seed balance, every length of a page, a statement and a window:

| Theorem | Module | Statement |
| --- | --- | --- |
| `TypeCorrect` | `MoneyMovementProofs` | `Spec => []TypeOK`; in particular no balance becomes negative |
| `FreshReads` | `MoneyMovementProofs` | `Spec => []ReadsAreFresh`: no lost update |
| `DeadlockFree` | `MoneyMovementProofs` | `Spec => []NoDeadlock` |
| `LedgerCorrect` | `MoneyMovementProofs` | `Spec => []LedgerExplainsBalances` |
| `RecordsStay` | `MoneyMovementProofs` | `Spec => RecordsArePermanent` |
| `KeysPayOnce` | `MoneyMovementProofs` | `Spec => []KeyMovesMoneyOnce` |
| `MoneyConserved` | `MoneyMovementProofs` | `Spec => []NoMoneyCreated` |
| `DailyCap` | `MoneyMovementProofs` | `Spec => []DailyCapHolds` |
| `ObligationsPaidOnce` | `BankProofs` | `Spec => []ObligationPaidOnce` |
| `BankImplemented` | `BankProofs` | `Spec => ImplementsBank`, the refinement of `Bank` |
| `AnswersTrue` | `BankProofs` | `Spec => []AnswersAreTrue` |
| `ObligationTypes` | `BankProofs` | `ObligationSpec => []ObligationTypeOK` |
| `ResolvedOnce`, `ResolvedStay` | `BankProofs` | `ObligationSpec => []OneResolution`, `=> ResolvedRequestsStay` |
| `ClaimedPaid`, `CancelledUnpaid`, `ClosedStay` | `BankProofs` | `ObligationSpec => []ClaimedLinksArePaid`, `=> []CancelledLinksAreUnpaid`, `=> ClosedLinksStayUnpaid` |
| `ObligationsStillPaidOnce` | `BankProofs` | `ObligationSpec => []ObligationPaidOnce` |
| `SystemImplementsBank` | `BankProofs` | `ObligationSpec => ImplementsBank` |
| `SystemBooksBalance` | `BankProofs` | `ObligationSpec => [](LedgerExplainsBalances /\ NoMoneyCreated /\ KeyMovesMoneyOnce)` |
| `SystemDailyCap`, `SystemDeadlockFree`, `SystemAnswersTrue`, `SystemRecordsStay` | `BankProofs` | the theorems of the same names, of `ObligationSpec` |
| `TotalsAndChainsHold` | `BankProofs` | `AuditSpec => []TotalsAndChainsHoldLive` |
| `AlarmsMeanMovement` | `BankProofs` | `AuditSpec => []AlarmMeansMovement` |
| `PinTypeCorrect`, `PinGuessesBounded`, `PinAcceptedIsCurrent` | `PinGuardProofs` | the invariants of run `pin` |
| `SessionsListed`, `ResetDrops` | `SessionsProofs` | the invariants of run `sessions` |
| `AccountTypes`, `AccountsWhole`, `LoginGuesses`, `LoginCounterExpires`, `ResolutionStable` | `AccountsProofs` | all five properties of run `accounts` |
| `HistoryTypes`, `StatementsAddUp`, `WalksMissNothing`, `PagesGoDown`, `PastIsSettled` | `HistoryProofs` | all five properties of run `history` |
| `RateLimitTypes`, `Admissions`, `Refusals` | `RateLimitProofs` | the invariants of run `rate_limit` |

**Assumptions** (named, in the module that declares the constants). In `MoneyMovement`: users are
numbered, which gives the total order Postgres uses on ids (`UsersAssumption`); the null values are
not values (`NullsAssumption`); rows of requests and links have two different users in requests and
positive amounts, as the schema's CHECKs and `create_request` ensure (`RowsAssumption`); jobs are
well formed, transfers not to oneself, as the handler checks before any of this state is touched
(`JobsAssumption`); amounts are positive, caps natural numbers (`AmountsAssumption`).
`PinAssumption`, `AccountsAssumption` and `RateLimitAssumption`: limits are positive, finitely many
attempts or callers are in flight, and normalising a phone twice is normalising it once.
`HistoryAssumption`: amounts are natural numbers, a page and a statement have at least one row.
`TokenAssumption`: no cookie is not a token. Nothing is assumed of the size of `Procs`, `Jobs` or
`Keys`, or of `Txns` in `History`: these may be infinite.

**Types, fresh reads.** `TypeOK` is not inductive: `balances` stays natural only because the value
subtracted from is at least the amount *and* is still the balance when the commit comes. So
the invariant `IInv` adds `ProcInv`, which says what a request has established by its step
(its job is a call of the right kind; from the first lock on payer and payee differ; between
the two locks it holds the first; after the check it has the funds), and `ReadsAreFresh`
itself. The commit of one request keeps another's reads fresh because both hold their rows,
which are therefore different rows.

**The ledger and its keys.** `LedgerExplainsBalances` is not inductive either: a commit appends rows
with ids drawn earlier. `LedgerInv` adds that rows have distinct ids per user below the sequence
(`RowIds`), that each user has a last row which shows the balance (`TopRows`), and that the ids a
request has drawn come after every row of *its two users* (`IdsInv`). The last holds although other
requests draw later ids and commit earlier: they cannot be about the same users. `KeyInv` (the
open transaction that inserted a key holds it and no row is committed under it) gives
`RecordsStay` and `KeysPayOnce`.

**Deadlock.** `NoDeadlock` needs `LocksInv`: a lock shows how far its holder has come (who holds an
entity row is past `lock_entity`; who holds one balance row is at its second; who holds a key waits
for nothing). Then `Distance`, a rank in which entity rows come before balance rows, these in
the order of their users, and the key last, is smaller for whoever is waited for than for
whoever waits, so the member of a set with the least distance waits for no member of the set.

**Totals.** `SumFunctionOnSet` picks an order of the elements and recurs over the subsets.
`SumTheorems` proves what does not depend on that order: the sum without an element (`SumRemove`),
of functions that agree or differ at one place (`SumAgree`, `SumChange`), of a larger one
(`SumMonotonic`), of counts (`SumOfCounts`). Where induction over the set would be used, a
counterexample that is minimal under inclusion is refuted instead (`SubsetMin`, from the library's
theorem that the strict subsets of a finite set are well-founded).

`NoMoneyCreated` then follows from `IInv`: by `ReadsAreFresh` the two balances a commit writes are
the committed ones less and plus the amount, and payer and payee differ. `DailyCapHolds` needs
`UserCap`: for every user, what was sent *and what is in flight past the check* (`Committing`) is
within the cap and within the counter, not counting transfers under a key that a failed INCR let
through. An INCR raises the counter by the
amount before the check; a commit moves an amount from in flight to sent; a failure drops it from in
flight and leaves the counter, which therefore may exceed what was sent but never falls short of it.

**Obligations and the refinement of `Bank`.** `ObligationPaidOnce` needs `EntityInv`: a request that
has decided to pay holds the lock of its entity and the entity is as it was when the decision was
made (`PayInv`), and a link that shows `claimed` has a settling event, while one that has such an
event is not active (`EventsInv`). A second payment would need the lock, and
would then find the status changed. A commit does not touch the row of an earlier payment
because its own key has no row yet (`KeyInv`). `BankImplemented` puts the parts together: at a
commit the balances written are the committed ones less and plus the amount (`ReadsAreFresh`),
the payer's funds suffice (`ProcInv`), the key is fresh (`KeyInv`) and the obligation open
(`PayInv`), which is `Bank`'s `Pay`; every other step leaves what `Bank` sees as it is.

**Answers.** `AnswersAreTrue` speaks of answers given long ago, so `AnswerInv` ties what an answer
rests on to rows that never change: a request at `publish` has its completed row (it is about to say
so), and a link with a transfer names the completed row from its creator to its claimer. `FactsStay`
shows that no step alters such a row, so a true answer stays true (`TrueAnswersStay`).

**The life of requests and links.** `ObligationInv` carries `IInv`, `LedgerInv` and `EntityInv` over
to `ObligationSpec`. `StatusStep` says what create, reject, cancel, view and expiry have in common:
they change one row, while nobody holds it, and move nothing; hence whoever has decided to pay
(`PayInv`) finds its row as it was. `CancelInv` adds that a link with a cancellation in the log is
unpaid *and* shows `cancelled` or `expired`, which no claim accepts: without the status, a claim
after the cancel could not be excluded. The viewer that overwrites `claimed` by `expired` is why
`EventsInv` lets a settled link show either. `SystemInv` collects the invariants of the handlers;
each step of the system is one of a handler or a `StatusStep` (`SystemSteps`), and since the latter
keeps all of them, the theorems about `Spec` that concern money, locks and answers hold of
`ObligationSpec` as well.

**The audit.** It reads a balance, and later the rows of that user. `BookInv` says that the rows of
a user add up to the balance in every state and that the first of them starts from zero. `AuditInv`
says that a balance that was read is the sum of the rows there were then (`audited`); so a
difference means that the rows are others by now. The total is `NoMoneyCreated` at the moment of the
one statement that reads it, the chain is `LedgerExplainsBalances` at the moment of the other.

**Counters.** `PinInv` adds `FetchedIsCurrent`: the hash in the row, and the one an attempt has
fetched, are among those in force since that attempt began (`in_force`). `GuessesBounded` is
inductive: an attempt that passes the check makes the set `Deciding` one larger only when the
counter is below the limit, and an INCR moves one attempt out of the set as it moves the counter up.
The same argument gives `LoginGuessesBounded`. `LoginCounterWillExpire` is inductive, too: it
excuses a counter without TTL only while an EXPIRE was lost and none has arrived since
(`expire_lost`).

`LimitInv` keeps three books per age: entries of the key, requests that were let in, and those let in
whose entry is still to be added (`PendingOf`). `Room` bounds the first and the last together by the
limit and the other callers, since the count before an admission was below the limit. `Alive` says
that the key outlives the window of each of its entries by `Slack`, so it never expires with one
that counts. `Books` says that, short of a lost command, the three agree within the window. Beyond the
window only an inequality holds, because a late request purges by its own, older clock reading and
others by younger ones.

The span that ends now is bounded by `Room` and `Books`. `AdmissionsBounded` speaks of older spans
as well, and a late count that purges by an older clock reading than others used may find the key
emptied. `Spans` therefore says of each older span that its entries and admissions still agree
(`Intact`, so that `Room` bounds it), or that what it has admitted *and the requests that read the
clock in it and have still to count* (`Late`) are within the limit and twice the callers
(`Bounded`). A purge takes a span from the first to the second, an admission moves a request out of
`Late`, and nobody enters `Late` of a span that is over.

**Sessions.** `SessionsInv` adds `ProgressInv` (how sets and steps of logins, logouts and the reset
relate) and `DroppingInv`: every session whose login had finished when the reset began is among what
it has left to drop, or is its own, or a command about it was lost.

**Accounts.** `AccountsInv` adds `HoldersInv`: among the open registrations past their INSERT and the
committed users no two share a phone or a number, which is what the UNIQUE indexes guarantee and the
unlocked check does not; and `RowsInv`: a user row is what its registration inserted.

**History.** `StatementAddsUp` needs that the payment that holds the balance row computes its
running balance from the current balance (`LockInv`) and has, once its id is drawn, the highest id
of the user's payments (`IdInv`): ids are drawn under the lock, although they become visible at
COMMIT. `ClockInv` dates nothing after now, which gives `PastStatementsStay`: a row that appears is
dated at the BEGIN of a transaction that is open until then, so a past period gains rows of its
`Unsettled` transactions only, and none of these begins later. `WalkInv` says that each row owed to
a walk is shown, or still below the cursor, or ties with one that is shown.

TLC finds each of these invariants to hold on the constants of the runs, too: `IInv`, `LedgerInv`,
`LocksInv`, `CapInv`, `EntityInv` and `AnswersInv` on those of `transfers` or `payments`,
`ObligationInv` and the properties named `System...` above on those of `obligations`, `BookInv` and
`AuditInv` on those of `audit`, the others on those of the run of their module.

**Only model-checked**: the liveness properties `EveryCallAnswered`, `LockoutEnds` and `RoomReturns`,
for which the prover has no rules of fairness, and the three disagreements of section 4.


## 6. What is left out

* Days and clocks. The velocity counter is that of one day; its key changes at midnight UTC
  and its EXPIRE only bounds storage. A link's deadline passes at some moment (`Lapse`).
* Balances that do not exist: registration creates user, balance and opening ledger row in one
  transaction, so the `balance_rows.len() < 2` branches are unreachable and not modelled.
* 64-bit overflow of balances: sums are bounded by the seed money of all users.
* Mail and the delivery of NATS messages; `Publish` keeps only that a message may be lost.
* Users registering while an audit runs. `run_reconciliation` counts the users and sums the balances
  in two statements; with a registration in between the total differs, and the alarm is false. Here
  the users are constant, so that `CheckTotal` may read both at once.
* That the daily cap refuses no more than it must. An INCR that is followed by a refusal or a rollback
  is not given back, so a user can be refused below the cap; the properties bound what is sent.
* Two resets at once. A session whose SADD or DEL was lost is left to its own expiry by the code, and
  exempt from the properties.
* The activity feed: one query of `limit` rows, which returns no cursor and pages nowhere.
* That `accept_request` and `claim_link` do not apply the caps of `process_transfer`:
  `DailyCapHolds` is about transfers, which is all the code enforces.
* A clock that steps back: `History` and `RateLimit` take time to pass for all requests alike.
* The filters of the history queries, which compare columns that never change, and the lookup of
  users for display.
* Scopes of the rate limiter: each scope and user has a key of its own, so one is modelled.

### Not modelled

* `core/money.rs` and `ai/parser.rs`: functions of one string without state; their unit tests reach
  every branch, and a model of them would be their transliteration.
* `notifications/service.rs`: lists and marks rows of a table into which nothing inserts.
* `core/mail.rs`: sends after COMMIT; no state depends on it.
* `main.rs`, configuration, error and envelope formats, health, telemetry: start-up, routing and
  wording. What an error does to an open transaction is `Fail`.

## 7. State of the plan

Done: every component with state that several requests share, each with its runs; proofs of every
invariant and every action property that a passing run checks. `Bank` is the abstract specification
of the money-moving handlers, alone (`BankImplemented`) and beside everything else that happens to
requests and links (`SystemImplementsBank`).

Left, should the code grow into it:

1. The audit beside registrations, which would compose `Reconcile` and `Accounts`, and beside the
   life of requests and links, of which it reads nothing.
2. An abstract specification of the sessions, which two keys written by two commands implement only
   short of lost commands.
3. Notifications, when something writes them.

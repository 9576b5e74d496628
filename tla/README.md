# Neo-Bank: TLA+ models, model checking and proofs

This directory specifies the parts of Neo-Bank in which money, events, identities
or start-up can go wrong, checks them with TLC on small instances, and proves the
safety properties with TLAPS for every instance. `PROJECT.json` holds
the map from definitions to source lines, the runs, the mutants, the findings and
the hazards; this file explains them. Paths are relative to the repository root.

## 1. The system

Go services that talk gRPC to each other, Postgres per service (Patroni, HAProxy),
Kafka for events, Redis for refresh tokens, Stripe for card payments, a React front
end.

| Component | State it keeps | Operations | What makes it correct |
|---|---|---|---|
| `services/ledger-svc` | `ledger_accounts`, append-only `entries`, cached `account_balances` | ExecuteTransfer, Deposit, ReverseDeposit, CreateLedgerAccount, rebuildBalance; reads | entries in balanced pairs, the cache equals the log, no joint overdraft, a reference posts once, no deadlock |
| `services/transfers-svc`, transfers | `transfers`, `outbox` | POST /transfers, reconciliation worker | money moves at most once; status, ledger, event and answer agree; nothing stays pending |
| `services/transfers-svc`, deposits | `deposits`, `processed_stripe_events`, `outbox` | createDeposit, Stripe webhooks, crediting / polling / orphan worker | the ledger holds no money Stripe did not take, and in the end all it took |
| `services/transfers-svc`, withdrawals | `withdrawals` | createWithdrawal | every debit has its row |
| `services/transfers-svc`, history | (reads) | merged keyset pagination | no row skipped or repeated |
| `pkg/outbox` | `outbox` table, Kafka topics | InsertEvent, RunRelay/RelayBatch, CleanupPublished | events at least once, only of committed transactions |
| `services/accounts-svc` | `accounts`, `processed_events`, `iban_resolve_attempts` | UserActivated consumer, backfill, status changes, IBAN lookup with a rate limit | one account, one ledger account and one IBAN per activated user |
| `services/auth-svc` | `users`, codes, `outbox`, Redis refresh tokens | register, verify, resend, login, refresh, logout, forgot, reset, profile, avatar | a code works once and bounds its guesses, an active password was proven, revoked sessions stay revoked |
| `services/notifications-svc` | `user_contacts`, barrier rows, dead letter topic | three Kafka consumers, e-mail | each event is notified, skipped or dead-lettered, repeated only after a failure |
| `services/fraud-svc` | `fraud_checks`, `fraud_rules` | CheckTransfer | the limits hold |
| `gateway` | WebSocket registry, account cache | proxying, push of Kafka events | a user sees their own events and only those; dead sockets go |
| `pkg/pgha` | none | error classification, Retry, WaitForWritable | a failover is waited out, a real error is not |
| `pkg/iban`, `pkg/tracing`, `pkg/health` | none | IBANs; observability | check digits catch slips |

How they meet: the gateway proxies HTTP and pushes Kafka events over WebSockets;
transfers-svc calls accounts-svc, fraud-svc and ledger-svc over gRPC with
deadlines; each service writes its events into its own `outbox` table in the
transaction that changes its state, and a relay goroutine in every instance
publishes them to `user.events`, `account.events` or `transfer.events`;
accounts-svc consumes UserActivated and calls CreateLedgerAccount; notifications-svc
and the gateway consume all of them; Stripe calls back over webhooks.

What is hard here: calls whose answer is lost after they took effect and their
retries, workers of several replicas on one table, webhooks and events out of order
or again, a COMMIT whose acknowledgement is lost, row locks and advisory locks taken
in several places, offsets and barrier rows written in separate steps, database
leaders that change in the middle of everything. `PROJECT.json` lists each such place
under `hazards`.

## 2. Modules

| Module | Models | State |
|---|---|---|
| `Bank` | abstract: what the ledger promises its callers, one atomic step per posting | `rows`, `sum`, `journal` |
| `Ledger` | `ledger.go` at the level of its Postgres transactions; implements `Bank` | `Bank`'s, the balance cache, row locks, advisory locks, one program counter per RPC |
| `Transfers` | the transfer saga: handlers, the ledger call, reconcilers; composed with `Bank` | transfers table, outbox, calls in flight, handlers, reconcilers |
| `Deposits` | card deposits: createDeposit, webhooks, worker; composed with `Bank` and Stripe | deposits table, processed events, Stripe's view, handlers, workers |
| `Outbox` | producers, relays, cleanup, topic | the table, the topic, each relay's transaction |
| `Auth` | auth-svc's identity half and its Redis sessions | users, codes, outbox, row locks, cooldowns, tokens, requests |
| `Iban` | `pkg/iban`, pure operators on sequences of character values | |
| `Accounts` | accounts-svc's consumer, backfill, lookups, status changes; uses `Iban` | the topic and offsets, accounts, ledger accounts, processed events |
| `AtLeastOnce` | abstract: what notifications-svc promises about a transfer event | `published`, `mailed`, `outcome` |
| `Notifications` | notifications-svc's three consumers; implements `AtLeastOnce` | topics, offsets, contacts, barrier rows, dead letters, the process |
| `Operations` | the resolve limit, the fraud rules and withdrawals around one customer | attempts, checks, debits, withdrawals, clock, requests |
| `History` | GET /transfers, page by page | rows in commit order, standbys, the client's walk |
| `Gateway` | the push channel of one instance beside others | topic, group offsets, cache, consumer, sockets, registry |
| `Startup` | migrations, backfill and `pgha` while services start | what HAProxy routes to, schemas, advisory locks, processes |
| `LedgerProofs`, `TransfersProofs`, `AuthProofs`, `NotificationsProofs`, `StartupProofs` | theorems about the module each extends (section 5) | |
| `OutboxProofs` | theorems about `Outbox` and `Gateway`, the two ends of an event | |
| `DepositsProofs` | theorems about `Deposits`, `Operations` and `History`, what a customer does beside transfers | |
| `AccountsProofs` | theorems about `Accounts` and `Iban` | |
| `MC*` | constants for TLC | |

`Transfers` and `Deposits` use the ledger through `Bank`'s own operators
(`Ldg!Post`, `Ldg!Tagged`). That this is sound is what the refinement
`ImplementsBank` shows: `Ledger` does nothing that `Bank` does not. Definitions keep
the names of the Go functions where one definition stands for one function.

### Ledger
A worker is one RPC. Postgres runs READ COMMITTED, so each read is a step of its
own and sees what is committed then, while a transaction's inserts and balance
updates become visible together at its COMMIT. `sum[a]` stands for the entries of
account `a` (the code reads them only as `SUM(amount)` or by reference) and
`journal` keeps the debit/credit pairs. `Begin` is the argument check;
`AcquireRefLock`, `LookupFound`, `LookupNothing` the advisory lock and replay
check of `postUncheckedTransfer`; `LockFirst`, `LockSecond`, `RowMissing` the
`SELECT ... FOR UPDATE` loop; `CheckBalance` the sum and the comparison; `Commit`
the two inserts, the two cache deltas and the COMMIT, whose acknowledgement may be
lost; `SumForRebuild`, `CommitRebuild` are rebuildBalance; `Abort` is any error,
cancellation or crash. `HashText` need not be injective: references may share an
advisory key.

### Transfers
A transfer is named by its idempotency key, one-to-one with its id through the
unique constraint. The handler's steps are the reads and writes of
`createTransferHandler`; what accounts-svc and fraud-svc answer is an input.
`LedgerPosts` and `LedgerDoesNot` are the ledger's end of a call, independent of
whether the handler still waits; `LedgerPosts` may answer Internal because
ledger-svc answers so when COMMIT returns an error. `Stop` after a write also
stands for a commit whose acknowledgement was lost, and from `done` for the
delivered answer. `GrowStale` requires that no handler is still on the row: it goes
stale after 2 minutes (`main.go:28`) while the handler waits at most 5 seconds each
for the fraud check and for the ledger, which is the code's own argument
(`transfer.go:559-565`, "naturally excludes in-flight requests"). It says nothing of
the ledger's own transaction, which the handler's deadline does not end for certain (a
COMMIT that hangs on a standby, a suspended process). So a call may still be under way
when its row goes stale, and `LedgerPosts` may execute it before, between or after the
reconciler's question and its write (`call` is then `late`). A handler process that is
itself suspended for 2 minutes in mid-request is outside the model.

### Deposits
Stripe is external: a PaymentIntent is open, succeeded or canceled, its events
are delivered repeatedly, in any order, or never. A client pays only after
createDeposit returned its client_secret. A declined attempt leaves the intent
open. Refunds are full. createDeposit has no deadline of its own, so its row may go
stale while it is still running, and the orphan sweep may then race it.
The payment webhooks are one transaction; the refund webhook is three steps
(read, ledger, record), as in the code. The worker lists rows, then works on its
list. `markDepositRefunded` has no caller and is left out.
`BooksBackedByStripe` is one-directional, as the code is: a credit is backed by a payment,
a reversal by a refund, a status or an event by a posting. That Stripe's money reaches
the ledger is `PollingRecovers`; where it does not, or a refund leaves its credit or a
late report a second event, see section 4, 1, 3 and 4.

### Outbox
Events are numbered by their BIGSERIAL id, which is handed out before COMMIT, so
ids need not be in commit order. `before` is a history variable: the pairs of
events whose transactions followed each other. A relay holds its batch's row locks
until its transaction ends. `PublishFails` includes the case that the broker took
the message all the same.

### Auth
A worker is one request. Its steps are the statements that can wait or be overtaken:
the `SELECT ... FOR UPDATE` of a user or of a code (`LockCode`, which reads the
attempts left and waits for whoever has the row), the comparison and decrement
(`consumeVerificationCode`), the rest of the transaction up to COMMIT, each Redis
command (`GETDEL`, `SREM`, `SMEMBERS`, `DEL`, and the MULTI that
stores a token with its set entry). A
code is a row number; guess 0 is a wrong one. `Fail` is an error, a cancelled
request or a crash at any step, with the rollback it causes. `proof`, `logins`,
`revoked` and `escaped` are history variables for the properties. A token carries its
`session`, the number of the login's token; a rotation hands it on, so that a session
that survives a reset under a new token is still recognised as an old one.
`RevocationReaches` demands that no token of a session opened before a reset listed
them outlives its `DEL`, with two exceptions, collected in `escaped`: a token stored
between `SMEMBERS` and `DEL` (it is out of the set for good), and a token that a
refresh had taken with `GETDEL` and whose successor it stores after the `DEL` (it
escapes that reset only). Section 4, 11 shows that the code has both.

### Accounts and Iban
The consumer's steps are `handleUserActivated`'s: the processed check, the INSERT
with its outbox event (a draw of `generateAccountNumber` that is taken is tried again,
`MaxDraws` times), CreateLedgerAccount, the mark, the offset commit. A handler that
returns an error leaves its offset uncommitted and reads on; `lapsed` records it.
A crash resumes at the committed offset. The IBAN operators work on real digits:
`mod97Remainder` and `Normalize` are recursive functions over the characters,
`Generate`, `Validate` and `Format` follow the Go code. `OneSlip` is what check digits
are for: one character changed or two neighbours swapped. `NumbersAssumption` says what
the operators are used with: account numbers of ten digits and a bank code of four
upper-case letters. The case matters: `Generate` upper-cases its copy (`iban.go:43`),
while `ResolveAccountByIban` compares the bank code as it was configured
(`grpc_server.go:88-89`).

### Notifications and AtLeastOnce
Every statement and every mail is a step. The projection consumers skip a message
their handler failed on; the transfer consumer retries in place, counts its attempts
unless `IsUnavailable` says that the database (or, because a dial error is a
`net.Error`, the mail server) is away, then writes to the dead letter topic and
commits. The first start of a group without commits begins at the end of
transfer.events and at the beginning of the others. `Drain` and `Exit` are the clean
 shutdown. `AtLeastOnce` says what this amounts to for an event: open, then
closed as sent, skipped or passed, after which nobody is mailed about it. `Bury` is
the one change of a closed event, from sent to skipped: two failures on one event can
send a delivered message to the dead letter topic (section 4, 8).

### Operations
One customer with concurrent requests and a clock. The resolve limit is one SQL
statement, split into its snapshot (`countRecentAttempts`) and its insert
(`recordResolveAttempt`); the fraud check evaluates its rules in order, one query
each, in one transaction whose `now()` is its beginning, and records the decision.
A withdrawal calls the ledger without a reference and writes its row afterwards.
Rows carry the number of the request that wrote them. `resolved` is a history variable:
every attempt ever recorded, also those the cleanup has removed since. `AttemptsBounded`
counts those, so a cleanup that removed too much would not hide what it let through. It
holds where `Retention >= Window`, a premise the code states and does not enforce
(section 4, 12).

### History
A page is three queries with separate snapshots, merged, sorted and cut. The first
page reads the primary, the later ones some standby. `CommitRow` may commit a row
whose `created_at` is older than rows already committed, because it is the time its
transaction began. Received transfers are filtered by `status = 'completed'`
(`transfer.go:286,301`), so for them `CommitRow` is the UPDATE that completes the row.

### Gateway
The instance under test, `Self`, beside `Peers` that only appear as the consumer
groups they join. `handleWS` accepts and authenticates, `ack` writes the
acknowledgement, `selectDone` waits for the socket's end, `remove` leaves the
registry. `send` takes the snapshot under the lock, `write` is one write per socket.
`due` and `got` record who is owed and who was written what.

### Startup
`route` is what HAProxy answers with: the leader, a node in recovery or nothing. Each
service's `main` is its sequence of stages; `Retry` gives a stage a budget of failed
attempts; golang-migrate is external: `runMigrations` connects, `Lock` takes its
advisory lock, and its sessions can be `Cut` while they wait for the lock, check, run
or mark a migration. golang-migrate hides the type of the error such a session dies
of, and `IsUnavailable` then knows it only by its text (`errors.go:145-166`): of
`CutErrors` it knows "unexpected EOF", and neither the text of 57P01, which a demotion
sends, nor "connection reset by peer". `interrupted` records schemas whose migration
was really cut off, `lost` the processes whose own session was. Each attempt is assumed
to return: `main.go:143` and `153` of accounts-svc ignore the attempt's context, and TCP
ends what does not answer. An older release that still runs beside the new one and
inserts rows without an IBAN is outside the model.

## 3. Runs

| Run | Instance | Shows |
|---|---|---|
| `ledger` | 2 user accounts + genesis, 2 references on one advisory key, 2 concurrent calls, 3 calls | `CacheMatchesLog`, `Solvent`, `OncePerReference`, `ReplyHonest`, refinement of `Bank` (`ImplementsBank`), `CallsReturn` |
| `transfers` | 2 keys, 3 request bodies, 2 handlers, 2 reconcilers of which one always comes back | `StatusMatchesLedger`, `OneVerdict`, `RepliesAreOwn`, `EventuallyResolved` |
| `deposits` | 1 deposit, declined and refunded payments, 2 workers of which one always comes back | `BooksBackedByStripe`, `AttachedNotAbandoned`, `PollingRecovers` |
| `deposits_late_decline` | a declined first attempt | finding: `PaidIsCredited` is violated |
| `outbox` | 3 events on 2 keys, 2 relays, batches of 2, 2 faults | `NothingLost`, `DuplicatesNeedFaults`, `EventuallyPublished` |
| `auth` | 1 address, 2 concurrent requests, 2 passwords, codes with 1 attempt, 4 requests, two starting states | `OutboxTellsUsers`, `ActivationIsProven`, `GuessesBounded`, `SessionsNeverMultiply`, `RevocationReaches` |
| `accounts` | 2 new users and 1 old account, 3 numbers (one taken), 3 events, 1 fault, 1 status change | `ProvisionedOnce`, `IbansSound`, `AccountsAreKept`, `EventuallyProvisioned` |
| `notifications` | 2 users, 2 attempts, budget 1, up to 2 events per topic, 1 fault | `DuplicatesNeedFaults`, `DeadLettersAreEarned`, `ContactsFollowEvents`, refinement of `AtLeastOnce` (`ImplementsAtLeastOnce`), `EventuallySettled` |
| `operations` | 2 concurrent requests of 3, limits of 1 and 2 that three requests can exceed, 3 ticks, 1 fault | `VelocityBounded`, `AttemptsBounded`, `DebitsAccounted` |
| `history` | pages of 1 row over 3 old and 2 new rows of 2 times, 1 failed page | `EveryRowOnce` |
| `gateway` | 2 users, 2 sockets, cap 1, 1 event, 1 fault, 1 other instance | `OnlyParties`, `DeadPeersReaped`, `SignalsArrive` |
| `startup` | 2 processes, five pairings of services, 2 failovers or kills, 3 starts | `ServingIsReady`, `FatalIsEarned`, `StartupEnds` |

More configurations are kept for use by hand. `MCTransfersDeep` (3 requests) and
`MCDepositsDeep` (2 concurrent webhooks) check safety and the type invariants on larger
instances, with symmetry; `MCNotificationsFaults` checks `ImplementsAtLeastOnce` and
`DuplicatesNeedFaults` for the transfer consumer alone with four faults, so that several
meet on one event; `MCOutboxSingle` shows `KeyOrder` for one relay. The others
reproduce the divergences of section 4; `MCTransfersFailed` and `MCDepositsWebhooks` hold
two each and are run with TLC's `-continue`, which reports both.

**Why the bounds are enough.** Two calls are what a lock protocol with pairwise
conflicts needs; three calls let a deposit fund a transfer that a third call races with.
Account balances are chosen so that the account can pay either of two transfers but not
both. Deposits of different users meet only in the ledger, whose postings for them are
unchecked, so one deposit with its actors doubled is the interesting case. Three events
and batches of two give one full batch, one row left behind, and two events of one key.
In auth-svc every race is between two requests on one user; the second starting state
puts the sessions and the reset within reach of four requests, and one attempt makes the
last attempt the first. The account numbers differ by one digit or by a swap, so that a
wrong check digit shows. A page size of one puts a boundary between any two rows. Two
gateway sockets and a cap of one reach the cap. `MaxCalls`, `MaxRequests`,
`MaxOperations`, `MaxNow`, `MaxEvents`, `MaxMessages`, `MaxLog`, `MaxRows`, `MaxErrors`,
`MaxDials`, `MaxStarts`, `MaxFaults` and `MaxMishaps` only bound how much happens; the
faults and mishaps matter for liveness (a broker that fails for ever publishes nothing).
`CHECK_DEADLOCK FALSE` appears where the bounded number of requests or events runs out.
Symmetry is used only in configurations without liveness properties.

**Fairness.** `Ledger`: a call that can move does (weak fairness; Postgres queues
lock waiters, so a waiting call is not starved); calls arriving, aborts and account
creation are not fair. `Transfers`, `Deposits`: handlers take their next step or
die; of the replicas those in `Lasting` are always started again and their tickers keep
firing (`reconcile.go:58-70`), and because each step is retried every tick, a call or
write that is tried infinitely often succeeds infinitely often (strong fairness). A
replica outside `Lasting` may stop for good at any step. Nothing is assumed about
Stripe, except in `PaidIsCredited`, whose hypothesis `Delivery` says that payment
events arrive in the end. `Outbox`: each relay goes on with its pass; faults are
finitely many. `Accounts`: the process is restarted, backfills and consumes.
`Notifications`: goroutines run and the process is restarted; an outage may last
for ever, and events are settled all the same because the budget runs out.
`Gateway`: goroutines, tickers and the group coordinator make progress; clients and
restarts are not fair. `Startup`: a started process runs on; neither a start nor a
leader is promised. `Auth`, `Operations` and `History` are checked for safety only.

**Mutants.** Each property of a passing run has a mutant of the code it is about:
definitions marked "Faulty" in the modules, with which the same run must fail.

## 4. Where the code and its comments part

Checked as a run:
1. *A late decline overrides a success* (`deposits_late_decline`).
   `markDepositFailed` has no status guard; the paid money is never credited.

Reproduced by configurations beside the runs:

2. *A failed transfer whose money moved* (`MCTransfersFailed`,
   `FailedNeverMoved`). ledger-svc answers `Internal` also when COMMIT returned an
   error, in which case the transaction may have committed; `settleTransfer` treats
   `Internal` as proof that nothing moved (`transfer.go:394-396`).
   `StatusMatchesLedger` shows that this and item 10 are the only such reasons.
3. *A late success re-credits* (`MCDepositsWebhooks`, `CreditedEventOnce`).
   `markDepositSucceeded` has no status guard (`webhook.go:334`), so a webhook after
   polling and crediting sends the deposit round again; the ledger is idempotent, the
   DepositCredited event is not.
4. *A refund can leave its credit* (`MCDepositsWebhooks`, `BooksReflectRefund`). The
   refund handler decides on a status read outside a transaction (`webhook.go:226`)
   and ignores a pending deposit for good.
5. *Key order across instances* (`MCOutboxOrder`, `KeyOrder`). With two instances,
   SKIP LOCKED lets the second publish a later event of a key first
   (`relay.go:130`); `spec.md:763` promises order per key.
6. *Replica lag while paging* (`MCHistoryLag`, `LagIsInvisible`). The second page
   comes from a standby (`http.go:438-441`); a row committed just before the first
   page but older than its last row can be missing from the whole walk.
7. *A failed activation is not redelivered* (`MCAccountsRedelivery`,
   `RedeliveredAfterError`). `kafka.go:137` of accounts-svc says "message will be
   redelivered"; the reader goes on in memory, and committing the next message
   commits past the failed one. `EventuallyProvisioned` holds because it exempts
   events whose handler failed.
8. *A delivered event recorded as skipped* (`MCNotificationsRelabel`, `SentIsFinal`).
   The mails went out and the row says `sent`, but the offset was not committed; the
   redelivery finds Postgres away for longer than the budget, the message goes to the
   dead letter topic, and `finishEvent` (`kafka.go:834` of notifications-svc), an UPDATE
   without a status guard, writes `skipped` over `sent` once Postgres is back. Its
   comment (`contacts.go:212`) says that it moves a row "from 'processing'", and the
   migration calls `skipped` "no email by design". Found while proving
   `ImplementsAtLeastOnce`, whose abstract specification then had no such step; nobody
   is mailed again because of it.
9. *A failover that ends a migration session ends the start* (`MCStartupCut`,
   `FailoverIsWaitedOut`). `spec.md:664` says that a service "that started mid-failover
   now waits it out instead of dying". golang-migrate's errors are known by eight text
   fragments only (`errors.go:157-166`); 57P01, which "Patroni demoting or stopping a
   node produces ... on every open session" (`errors.go:20-21`), reads "terminating
   connection due to administrator command", which is not among them, and `Retry` gives
   up on it at once. `FatalIsEarned` shows that nothing else in a failover does so.
10. *A transfer failed by the worker whose money moved* (`MCTransfersFailed`,
   `UnresolvedNeverMoved`). `reconcile.go:43` concludes from the ledger's not knowing a
   stale transfer that "it never executed. No money moved"; a call whose COMMIT outlives
   the 2 minutes is executed afterwards.
11. *A session that survives a password reset* (`MCAuthReset`, `ResetForcesLogin`).
   `reset.go:203-204` promises "forcing re-login everywhere"; the two exceptions of
   `RevocationReaches` (section 2, Auth) do not log in again.
12. *A resolve window longer than the retention* (`MCOperationsWindow`, `LimitHolds`).
   `main.go:85-92` of accounts-svc accepts any IBAN_RESOLVE_RATE_WINDOW;
   `rate_limit.go:54-57` says that the retention "only needs to safely outlive the
   longest rate-limit window any caller configures" and makes it a constant hour.

Visible in the models without a property against them: a failover in the middle of a
migration leaves the schema dirty, and every later start of the service dies of it
until someone repairs it (the second disjunct of `FatalIsEarned`); a withdrawal that
crashes between the debit and its row, or whose ledger answer is lost, leaves a debit no
row accounts for (`DebitsAccounted` only says that it met a fault); fraud and resolve
limits can be overshot by one per concurrent request (`Slack`); events published between
a gateway's start and its reader's first join are not pushed.

## 5. Proofs

Checked by TLAPS for every value of the constants that the named assumptions admit.
The assumptions are evaluated by TLC in the runs and say what the code or its schema
says: which sets the constants come from, that sentinels (`None`, `NoRef`, `NoRow`)
are not data, that keys are unique. Sets of actors that are counted (`Workers` in
`Auth`, `Deposits`) are finite; no assumption bounds how many there are.

Each module proves an invariant that `Init` establishes and every action preserves,
with one lemma per action or group of actions, and derives the properties from it.
TLC checked each of these invariants on the instance of the component's run, or a
similar one, before it was proved. No property below is inductive by itself.

| Module | Theorems for the runs' properties | What the invariant adds, and why |
|---|---|---|
| `LedgerProofs` | `LedgerCacheMatchesLog`, `LedgerSolvent`, `LedgerOncePerReference`, `LedgerImplementsBank` (refinement), `LedgerReplyHonest` | what a transaction read must still be true when it commits |
| `OutboxProofs`, on `Outbox` | `OutboxNothingLost`, `OutboxDuplicatesNeedFaults`; for one relay `OneRelayKeepsKeyOrder` (`KeyOrder`) | what a relay's open transaction holds |
| `OutboxProofs`, on `Gateway` | `SignalsStayPrivate` (`OnlyParties`) | whom the registry, the cache and the work in hand name |
| `TransfersProofs` | `SagaIsSound` (`StatusMatchesLedger`), `VerdictIsUnique` (`OneVerdict`), `RepliesAreSound` (`RepliesAreOwn`) | who may still write a row, and which call may still be under way when the reconciler asks |
| `DepositsProofs`, on `Deposits` | `BooksAreSound` (`BooksBackedByStripe`), `AttachedIsKept` (`AttachedNotAbandoned`, an action property) | that stale reads remain harmless because what they saw is never taken back |
| `DepositsProofs`, on `Operations` | `ResolveLimitHolds` (`AttemptsBounded`), `VelocityLimitsHold` (`VelocityBounded`), `WithdrawalsMatchLedger` (`DebitsAccounted`) | what is allowed and not recorded yet, for every window |
| `DepositsProofs`, on `History` | `WalkShowsEveryRowOnce` (`EveryRowOnce`) | what the sources asked so far have returned |
| `AuthProofs` | `GuessesAreBounded`, `ActivationProof`, `OutboxIsTrue`, `RevocationIsSound`, `SessionsAreBounded` | which row locks a request holds at each statement, and what it knows because of them |
| `AccountsProofs` | `AccountsAreProvisionedOnce` (`ProvisionedOnce`), `DecisionsAreKept` (`AccountsAreKept`, an action property), `IbansAreSound` (`IbansSound`) and its part `IbansAreOwn` | how far the handler got, and what lies before the offset; what the IBAN functions compute |
| `NotificationsProofs` | `ConsumerIsAtLeastOnce` (`ImplementsAtLeastOnce`, refinement), `DuplicatesAreEarned`, `DeadLettersEarnIt`, `ContactsAreFollowed` | what an attempt has done so far, counted against the failures |
| `StartupProofs` | `ServingProcessesAreReady`, `GivingUpIsEarned` | whose session holds a schema's advisory lock and where its migration stands |

Type correctness is a theorem of its own for `Ledger`, `Outbox`, `Transfers`,
`Deposits` and `Auth`, and a conjunct of the invariant in the others.

**Ledger.** `Control` says that a worker's place determines what it serves;
`RowsHeld` and `RefHeld` that past a lock step it holds that lock; `ReadsHold` that
what was read under those locks (the balance, the absence of a reference, the sum of a
rebuild) is still so. `ReadsHold` is preserved because every write to an account's
entries or to a reference is made by a worker with the same lock. For the refinement,
`FreshIds` adds that a running call's transaction is not in the journal: each
`Commit` maps to `Bank`'s `Post`, account creation to `OpenAccount`, all else to a
stutter. `ReplyHonest` needs `TakenIds` on top: an id in the journal was given out, so
a refused call's id is nobody's later.

**Outbox.** Marked rows are claimed and in the topic, claimed rows are committed and
unpublished, published rows committed, deleted rows published. For
`DuplicatesNeedFaults`: a row that no relay has sent in its open transaction and that
is not marked has at most as many copies as there were faults, so the one more that a
relay adds is the one the property allows. `KeyOrder` is false of two relays (section 4, 5);
`OneRelayKeepsKeyOrder` proves it for one, without the restriction to one key.
`IdsFollow`: an event that followed another has the greater id. `BatchesClosed`: a
batch that holds an event holds all those it followed, unless they are published. The
loop sends the least row it has not marked, so what that event followed is in the topic.

**Gateway.** `RegistryTrue` (a socket is registered under the user its token named) and
`CacheTrue` (a cached owner is the account's) make `WorkConcerned` inductive: the
accounts, signals and sockets that the consumer holds between two offsets all belong to
users the current event concerns, although a snapshot may be old when it is written to.
`GotConcerned` needs that a socket keeps its user; `GroupsKnown` counts the process's
ends, which name its consumer groups.

**Transfers.** `FlightOwnsRow` (the handler between its INSERT and its answer is alone
on its key and sends one call at most), `StaleIsQuiet` (a stale row has no handler on
it) and `CallsFollowRows` (a call under way belongs to a pending row or to a stale one,
and what it posts after that is `late`) are why a reconciler's answer is still true when
it writes, unless a late call came in between (`ReconcilersHoldStale`).
`VerdictsAreTrue` says of a failed row that it is `Excused`: not posted and no call
left, or one of the two cases `FailedUnmoved` names.

**Deposits.** Payments, refunds, Stripe's events, postings and outbox rows are never
taken back (`Kept`); so what a refund handler or worker holds from an earlier read
(`WebhooksHold`, `WorkersHold`) is backed for ever, and `StatusIsBacked` survives
writes that follow stale reads.

**Operations.** A limit is a count that one statement reads and a later one adds to, so
the invariant counts both: `ResolveWindows` and `CountWindows` say of every window, not
only of the one that ends now, that what is recorded and the handlers that were allowed
and have not recorded yet are at most the limit and `Slack`, the other handlers. A
handler that reads a count below the limit adds one of the latter; its insert moves one
to the former. For the sum, `SumWindows` singles out the last handler that passed: it
saw its own amount fit, and every other one adds no more than `AmountsPassed` allows.
`CleanupForgetsOld` says that what the cleanup removed is older than the retention (hence
than any window, where the retention outlives it; `ResolveWindows` has that hypothesis), and
`Numbered` that no two rows stand for one request, without which adding a row would not
add one to the count. `DebitsAccounted` needs `OutcomesHold`: a handler about to write
its row writes what the ledger did.

**History.** `CursorTrue`: the cursor is the last row shown and a page reads behind it.
`NothingLost`: a row that every standby had when the walk began was shown or is behind
the cursor. `SourcesCovered` is what a page knows between its three snapshots: a source
asked has returned every owed row behind the cursor, or a full page of newer ones and
the word that there is more. The merge then shows the newest `Limit` of them, and a row
it leaves out is behind the new cursor.

**Auth.** The proof is layered. `Base` is inductive by itself: the types, what kind of
request is at which statement, and which locks it holds there. On top, each separately:
`GuessesSpend` (guesses plus attempts left is constant), `CodesProve` with
`CodesAreSpent` (an unused code vouches for the password the row has now),
`OutboxTellsUsers` itself, `RevocationsSee` (what a revocation did not list escaped, and
a rotation under way has a session younger than the last reset unless it escaped), and `SessionsNeverMultiply` by counting live tokens and requests that hold one.

**Accounts.** `Working` (a marked or committed message has both accounts), `Passed`
(whatever lies before the offset was marked or its handler failed), `AnnouncedOnce`
by adding one to a count exactly when the row is new, and `IbansMade`.
`IbansAreOwn` follows: while the service answers, every IBAN is the one generated from
the account's own number, and no two accounts have one number.

**Iban.** `IbansAreSound` adds what the functions compute. The remainder's step is
injective in the remainder (10 and 100 are units modulo 97) and in the character, and
tells two neighbouring characters from their swap, so one slip changes the remainder of
the whole (`NoSlip`); the two check digits of `Generate` make the remainder 1
(`CheckIsOne`); `Normalize` takes the spaces of `Format` out again (`IbanNormal`);
`Validate` accepts (`IbanValid`); and the lookup finds the one account, because
different numbers have different IBANs (`IbanTells`).

**Induction without an induction theorem.** The library's induction theorems take an
operator as a parameter, which the provers cannot instantiate. What is needed of
recursive functions and of finite sets is proved by least counterexamples instead:
`LeastNat` and `NoLeast` (`AccountsProofs`) for sets of numbers, `SmallestSubset`
(`DepositsProofs`) for finite sets, such as those whose sum a fold computes.

**Notifications.** `Base` ties offsets, rows and the running attempt together and is
all that the refinement needs: mails map to `Mail`, `finishEvent` to `Close` or
`Bury`, an offset commit or a reset to `Pass`. `Counted`, `Repeated` and `Followed` are
layers for one property each.

**Startup.** `Locked` and `Migrating` say that a live session owns its schema's lock
and how far it got; `SchemaSound` that a dirty schema is one being migrated or one that
was cut off; `Backfilling` that the stages behind the migrations have the whole schema
and that a backfill's list covers the rows without an IBAN. A process whose attempt failed
with an error pgha does not know has lost its own session, which is what
`FatalIsEarned` says of it.

Every invariant, action property and refinement that a passing run checks is a theorem.
Only model-checked are the liveness properties (`CallsReturn`, `EventuallyResolved`,
`PollingRecovers`, `PaidIsCredited`, `EventuallyPublished`, `EventuallyProvisioned`,
`EventuallySettled`, `DeadPeersReaped`, `SignalsArrive`, `StartupEnds`): they need
fairness, hence `ENABLED`, which the prover does not reason about.

## 6. Not modelled, and what is next

Not modelled: the front end, generated protobuf code, deployment configuration and
load tests; tracing, health endpoints and logging; the gateway's HTTP proxy and JWT
middleware, which keep no state; auth-svc's avatar flow, whose substance is object
storage and image decoding; the ledger's read-only reports and its development tools,
which write by direct SQL when run by hand; read-only HTTP handlers. The content of
events and e-mails and the signing of tokens are abstracted everywhere.

What could follow: the avatar flow, once object storage is worth a module (two confirms
of different uploads against the cleanup of unreferenced objects); `KeyOrder` for two
relays under whatever lock would keep them apart, should the promise of `spec.md:763`
be made good.

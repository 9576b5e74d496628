------------------------------- MODULE Ledger -------------------------------
(***************************************************************************)
(* ledger-svc at the level of its Postgres transactions (READ COMMITTED):  *)
(* executeTransfer, deposit, reverseDeposit, rebuildBalance and            *)
(* createLedgerAccount, run concurrently by a pool of workers.  A worker   *)
(* is one RPC being served: it holds its transaction's row locks (SELECT   *)
(* ... FOR UPDATE on ledger_accounts) and its advisory lock until commit   *)
(* or rollback.  Uncommitted writes are invisible to the others, so the    *)
(* inserts and the balance updates of a transaction take effect at its     *)
(* COMMIT, in one step; every read is a step of its own.                   *)
(*                                                                         *)
(* sum[a] stands for the entries rows of account a: the code reads them    *)
(* only through SUM(amount) and by reference, and journal keeps the pair.  *)
(***************************************************************************)
EXTENDS Integers, FiniteSets, FiniteSetsExt

CONSTANTS
    Accounts,   \* account ids, in the order strings.ToLower compares them
    Genesis,    \* genesisAccountID
    Refs,       \* references of deposits, reversals and transfers
    NoRef,      \* no reference (NULL)
    Amounts,    \* amounts a request may carry, non-positive ones included
    Requests,   \* the calls clients issue
    Keys,       \* advisory lock keys
    HashText,   \* hashtext(reference), not necessarily injective
    Workers,    \* RPCs served at the same time
    NoWorker,   \* nobody holds the lock
    MaxCalls    \* bound: calls issued in a behaviour

VARIABLES
    rows,       \* accounts with a ledger_accounts row
    sum,        \* SUM(amount) of the committed entries, per account
    journal,    \* committed debit/credit pairs
    cache,      \* account_balances.balance, 0 where there is no row
    pc,         \* where each worker is in its transaction
    req,        \* the request each worker serves
    txid,       \* the transaction_id its call would insert
    seen,       \* the SUM(amount) a rebuild read
    reply,      \* its outcome, once done
    rowLock,    \* holder of each ledger_accounts row lock
    refLock,    \* holder of each advisory lock
    started     \* calls issued so far

vars == <<rows, sum, journal, cache, pc, req, txid, seen, reply,
          rowLock, refLock, started>>

bank == <<rows, sum, journal>>

Ids == 1 .. MaxCalls

Abs == INSTANCE Bank

\* A rebuildBalance call names one account and moves nothing.
Rebuild == [op : {"rebuild"}, from : Accounts, to : Accounts,
            amount : {1}, ref : {NoRef}]

\* deposit and reverseDeposit fix one side; a rebuild has one account.
WellFormed(p) ==
    /\ p.op = "deposit" => p.from = Genesis
    /\ p.op = "reverse" => p.to = Genesis
    /\ p.op = "rebuild" => p.from = p.to

ASSUME LedgerAssumption ==
    /\ Accounts \subseteq Nat
    /\ Genesis \in Accounts
    /\ NoRef \notin Refs
    /\ Amounts \subseteq Int
    /\ Requests \subseteq Abs!Posting \cup Rebuild
    /\ Requests # {}
    /\ \A p \in Requests : WellFormed(p)
    /\ HashText \in [Refs -> Keys]
    /\ NoWorker \notin Workers
    /\ MaxCalls \in Nat

Steps == {"idle", "reflock", "lookup", "lock1", "lock2", "sum", "post",
          "write", "done"}

Active == Steps \ {"idle", "done"}

Refusals == {"invalid_amount", "not_found", "insufficient_funds"}

Outcomes == {"none", "ok", "internal"} \cup Refusals

\* What an idle worker's req holds: any request, never looked at.
NoRequest == CHOOSE p \in Requests : TRUE

NoReply == [outcome |-> "none", tx |-> 0]

\* The types of the tables, the locks and each call's local state.
TypeOK ==
    /\ rows \subseteq Accounts
    /\ sum \in [Accounts -> Int]
    /\ journal \subseteq Abs!JournalRecord
    /\ cache \in [Accounts -> Int]
    /\ pc \in [Workers -> Steps]
    /\ req \in [Workers -> Requests]
    /\ txid \in [Workers -> 0 .. MaxCalls]
    /\ seen \in [Workers -> Int]
    /\ reply \in [Workers -> [outcome : Outcomes, tx : 0 .. MaxCalls]]
    /\ rowLock \in [Accounts -> Workers \cup {NoWorker}]
    /\ refLock \in [Keys -> Workers \cup {NoWorker}]
    /\ started \in 0 .. MaxCalls

Init ==
    /\ rows = {Genesis}
    /\ sum = [a \in Accounts |-> 0]
    /\ journal = {}
    /\ cache = [a \in Accounts |-> 0]
    /\ pc = [w \in Workers |-> "idle"]
    /\ req = [w \in Workers |-> NoRequest]
    /\ txid = [w \in Workers |-> 0]
    /\ seen = [w \in Workers |-> 0]
    /\ reply = [w \in Workers |-> NoReply]
    /\ rowLock = [a \in Accounts |-> NoWorker]
    /\ refLock = [k \in Keys |-> NoWorker]
    /\ started = 0

-----------------------------------------------------------------------------
(***************************************************************************)
(* Building blocks of the transactions.                                    *)
(***************************************************************************)

\* Deposits and reversals go through postUncheckedTransfer.
Unchecked(p) == p.op \in {"deposit", "reverse"}

\* Faulty: locks in the direction of the transfer.
LockOrderByDirection(p) == <<p.from, p.to>>

\* first, second := from, to, swapped when to sorts before from.
LockOrder(p) == IF p.to < p.from THEN <<p.to, p.from>> ELSE <<p.from, p.to>>

First(p) == LockOrder(p)[1]

Second(p) == LockOrder(p)[2]

\* Faulty: rebuildBalance sums the entries without locking the account.
EntryRebuildUnlocked(p) ==
    IF p.op = "rebuild" THEN "sum"
    ELSE IF Unchecked(p) /\ p.ref # NoRef THEN "reflock" ELSE "lock1"

\* Faulty: the check-then-insert on reference without its advisory lock.
EntryNoRefLock(p) ==
    IF Unchecked(p) /\ p.ref # NoRef THEN "lookup" ELSE "lock1"

\* Where a call goes after its argument checks.
Entry(p) ==
    IF Unchecked(p) /\ p.ref # NoRef THEN "reflock" ELSE "lock1"

\* Commit and rollback both end the transaction and release what it holds.
Release(w) ==
    /\ rowLock' = [a \in Accounts |->
                     IF rowLock[a] = w THEN NoWorker ELSE rowLock[a]]
    /\ refLock' = [k \in Keys |->
                     IF refLock[k] = w THEN NoWorker ELSE refLock[k]]

Answer(w, outcome, tx) ==
    /\ pc' = [pc EXCEPT ![w] = "done"]
    /\ reply' = [reply EXCEPT ![w] = [outcome |-> outcome, tx |-> tx]]

\* An early return: the deferred tx.Rollback undoes everything.
Refuse(w, outcome) ==
    /\ Answer(w, outcome, 0)
    /\ Release(w)
    /\ UNCHANGED <<bank, cache, req, txid, seen, started>>

GoTo(w, step) ==
    /\ pc' = [pc EXCEPT ![w] = step]
    /\ UNCHANGED <<req, txid, reply, started>>

\* getBalance: the cached balance, a missing account_balances row being 0; an
\* account without a ledger_accounts row is ErrLedgerAccountNotFound.
GetBalance(a) ==
    IF a \in rows THEN [outcome |-> "ok", balance |-> cache[a]]
                  ELSE [outcome |-> "account_not_found", balance |-> 0]

\* getTransactionByReference: any transaction tagged with the reference.
GetTransactionByReference(r) == {j.id : j \in Abs!Tagged(r)}

-----------------------------------------------------------------------------
(***************************************************************************)
(* The steps of a call.                                                    *)
(***************************************************************************)

\* An RPC arrives; amount <= 0 is refused before any transaction begins.
Begin(w, p) ==
    /\ pc[w] = "idle"
    /\ started < MaxCalls
    /\ started' = started + 1
    /\ req' = [req EXCEPT ![w] = p]
    /\ txid' = [txid EXCEPT ![w] = started + 1]
    /\ IF p.amount <= 0
         THEN Answer(w, "invalid_amount", 0)
         ELSE /\ pc' = [pc EXCEPT ![w] = Entry(p)]
              /\ UNCHANGED reply
    /\ UNCHANGED <<bank, cache, seen, rowLock, refLock>>

\* SELECT pg_advisory_xact_lock(hashtext(reference)).
AcquireRefLock(w) ==
    LET k == HashText[req[w].ref] IN
    /\ pc[w] = "reflock"
    /\ refLock[k] = NoWorker
    /\ refLock' = [refLock EXCEPT ![k] = w]
    /\ GoTo(w, "lookup")
    /\ UNCHANGED <<bank, cache, seen, rowLock>>

\* SELECT transaction_id FROM entries WHERE reference = $1 LIMIT 1: an
\* existing transaction is the answer and nothing is written.
LookupFound(w) ==
    /\ pc[w] = "lookup"
    /\ \E tx \in GetTransactionByReference(req[w].ref) : Answer(w, "ok", tx)
    /\ Release(w)
    /\ UNCHANGED <<bank, cache, req, txid, seen, started>>

LookupNothing(w) ==
    /\ pc[w] = "lookup"
    /\ GetTransactionByReference(req[w].ref) = {}
    /\ GoTo(w, "lock1")
    /\ UNCHANGED <<bank, cache, seen, rowLock, refLock>>

\* Faulty: SELECT id without FOR UPDATE.
LockRowUnlocked(w, a, next) ==
    /\ a \in rows
    /\ GoTo(w, next)
    /\ UNCHANGED <<bank, cache, seen, rowLock, refLock>>

\* lockLedgerAccount: SELECT id ... FOR UPDATE waits for the row's holder,
\* and a transaction never waits for itself.
LockRow(w, a, next) ==
    /\ a \in rows
    /\ rowLock[a] \in {NoWorker, w}
    /\ rowLock' = [rowLock EXCEPT ![a] = w]
    /\ GoTo(w, next)
    /\ UNCHANGED <<bank, cache, seen, refLock>>

LockFirst(w) ==
    /\ pc[w] = "lock1"
    /\ LockRow(w, First(req[w]), IF req[w].op = "rebuild" THEN "sum"
                                                          ELSE "lock2")

LockSecond(w) ==
    /\ pc[w] = "lock2"
    /\ LockRow(w, Second(req[w]), IF Unchecked(req[w]) THEN "post"
                                                       ELSE "sum")

\* No ledger_accounts row: *AccountNotFound.
RowMissing(w) ==
    /\ \/ pc[w] = "lock1" /\ First(req[w]) \notin rows
       \/ pc[w] = "lock2" /\ Second(req[w]) \notin rows
    /\ Refuse(w, "not_found")

\* Faulty: off by one, a balance one short of the amount passes.
CoveredOffByOne(w) == sum[req[w].from] + 1 >= req[w].amount

\* The overdraft check of executeTransfer, on SUM(entries).
Covered(w) == sum[req[w].from] >= req[w].amount

CheckBalance(w) ==
    /\ pc[w] = "sum"
    /\ req[w].op = "transfer"
    /\ IF Covered(w)
         THEN GoTo(w, "post") /\ UNCHANGED <<bank, cache, seen, rowLock, refLock>>
         ELSE Refuse(w, "insufficient_funds")

\* The debit and the credit entry, applyBalanceDelta on both accounts, and
\* COMMIT.  The server may commit and the acknowledgement still be lost, in
\* which case tx.Commit returns an error.
Commit(w) ==
    LET p == req[w] IN
    /\ pc[w] = "post"
    /\ sum' = Abs!Moved(sum, p)
    /\ journal' = journal \cup {Abs!Record(txid[w], p)}
    /\ cache' = Abs!Moved(cache, p)
    /\ \E acked \in BOOLEAN :
         IF acked THEN Answer(w, "ok", txid[w]) ELSE Answer(w, "internal", 0)
    /\ Release(w)
    /\ UNCHANGED <<rows, req, txid, seen, started>>

\* rebuildBalance: SUM(entries) under the row lock, then the overwrite.
SumForRebuild(w) ==
    /\ pc[w] = "sum"
    /\ req[w].op = "rebuild"
    /\ seen' = [seen EXCEPT ![w] = sum[req[w].from]]
    /\ GoTo(w, "write")
    /\ UNCHANGED <<bank, cache, rowLock, refLock>>

CommitRebuild(w) ==
    /\ pc[w] = "write"
    /\ cache' = [cache EXCEPT ![req[w].from] = seen[w]]
    /\ \E acked \in BOOLEAN :
         Answer(w, IF acked THEN "ok" ELSE "internal", 0)
    /\ Release(w)
    /\ UNCHANGED <<bank, req, txid, seen, started>>

\* Faulty: the error of COMMIT is dropped, the rollback is reported as OK.
AbortErrorDropped(w) ==
    /\ pc[w] \in Active
    /\ Answer(w, IF pc[w] = "post" THEN "ok" ELSE "internal", txid[w])
    /\ Release(w)
    /\ UNCHANGED <<bank, cache, req, txid, seen, started>>

\* A lost connection, a failed statement, a cancelled context or a crash of
\* the process: Postgres rolls the transaction back, the caller gets an error.
Abort(w) ==
    /\ pc[w] \in Active
    /\ Refuse(w, "internal")

\* The response is on its way; the worker serves the next call.
Return(w) ==
    /\ pc[w] = "done"
    /\ pc' = [pc EXCEPT ![w] = "idle"]
    /\ reply' = [reply EXCEPT ![w] = NoReply]
    /\ req' = [req EXCEPT ![w] = NoRequest]
    /\ txid' = [txid EXCEPT ![w] = 0]
    /\ seen' = [seen EXCEPT ![w] = 0]
    /\ UNCHANGED <<bank, cache, rowLock, refLock, started>>

\* createLedgerAccount: one upsert statement; rewriting an existing row
\* waits for its lock and changes nothing.
CreateLedgerAccount(a) ==
    /\ rowLock[a] = NoWorker
    /\ rows' = rows \cup {a}
    /\ UNCHANGED <<sum, journal, cache, pc, req, txid, seen, reply,
                   rowLock, refLock, started>>

Step(w) ==
    \/ AcquireRefLock(w)
    \/ LookupFound(w)
    \/ LookupNothing(w)
    \/ LockFirst(w)
    \/ LockSecond(w)
    \/ RowMissing(w)
    \/ CheckBalance(w)
    \/ Commit(w)
    \/ SumForRebuild(w)
    \/ CommitRebuild(w)
    \/ Return(w)

Next ==
    \/ \E w \in Workers : \/ \E p \in Requests : Begin(w, p)
                          \/ Step(w)
                          \/ Abort(w)
    \/ \E a \in Accounts : CreateLedgerAccount(a)

Spec == Init /\ [][Next]_vars

\* A worker that can move does: the Go scheduler and Postgres's lock queues
\* starve nobody.  Calls arriving, crashes and account creation are not fair.
Fairness == \A w \in Workers : WF_vars(Step(w))

LiveSpec == Spec /\ Fairness

-----------------------------------------------------------------------------
(***************************************************************************)
(* Properties.                                                             *)
(***************************************************************************)

\* getBalance serves the cache; it equals the entries log at every committed
\* state, although transfers add deltas while rebuildBalance overwrites it
\* with a sum it read earlier.
CacheMatchesLog == \A a \in rows : GetBalance(a).balance = sum[a]

\* No account other than genesis is overdrawn, except through a reversed
\* deposit (the limitation reverseDeposit's comment accepts): concurrent
\* transfers never jointly spend more than the account holds.
Solvent ==
    \A a \in Accounts \ {Genesis} :
        sum[a] < 0 => \E j \in journal : j.op = "reverse" /\ j.from = a

\* A deposit or reversal reference is posted at most once, however often and
\* however concurrently it is retried and whatever the advisory keys collide.
OncePerReference ==
    \A j, k \in journal :
        (j.ref = k.ref /\ j.ref # NoRef /\ j.op # "transfer"
                       /\ k.op # "transfer") => j = k

\* An OK answer names a committed transaction carrying the caller's
\* reference; a business refusal means this call moved nothing.
ReplyHonest ==
    \A w \in Workers : pc[w] = "done" =>
        /\ (reply[w].outcome = "ok" /\ req[w].op # "rebuild") =>
             \E j \in journal : j.id = reply[w].tx /\ j.ref = req[w].ref
        /\ reply[w].outcome \in Refusals => \A j \in journal : j.id # txid[w]

\* Every step the RPCs take, locked and interleaved, is one atomic step of
\* Bank or changes nothing there.
ImplementsBank == Abs!BankSpec

\* Every call that began is answered: no lock is left behind by a refusal or
\* a rollback, and no calls wait on one another in a circle.
CallsReturn == \A w \in Workers : pc[w] # "idle" ~> pc[w] = "idle"
=============================================================================

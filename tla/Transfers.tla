----------------------------- MODULE Transfers ------------------------------
(***************************************************************************)
(* The money-transfer saga of transfers-svc: the POST /transfers handler   *)
(* (createTransfer, checkTransferFraud, settleTransfer), the ledger call   *)
(* it makes over an unreliable network, and the reconciliation worker.     *)
(* Handlers and reconcilers of several replicas share the transfers table; *)
(* the ledger is the atomic Bank that Ledger.tla implements.               *)
(*                                                                         *)
(* A transfer is named by its idempotency key, which the table's unique    *)
(* constraint makes one-to-one with transfers.id; the id is also the       *)
(* reference the ledger entries carry.                                     *)
(***************************************************************************)
EXTENDS Integers, FiniteSets, Sequences

CONSTANTS
    Accounts, Genesis, Amounts,
    Opened,       \* accounts whose ledger_accounts row exists already
    Opening,      \* balances when the behaviour starts
    Keys,         \* idempotency keys
    NoKey,        \* no key; also the ledger's NULL reference
    Requests,     \* POST /transfers bodies clients send, with their key
    Handlers,     \* requests served at the same time
    Reconcilers,  \* replicas running runReconciliationWorker
    Lasting,      \* replicas that are always started again
    MaxRequests   \* bound: requests received in a behaviour

VARIABLES
    rows, sum, journal,  \* the ledger (Bank)
    row,          \* row[k]: the immutable columns of transfer k, or NoRow
    status,       \* transfers.status, "none" when there is no row
    reason,       \* transfers.failure_reason
    outbox,       \* outbox[k]: the events queued for transfer k, in order
    stale,        \* transfers whose updated_at is older than staleAfter
    call,         \* call[k]: the ExecuteTransfer call tagged k
    hpc, hreq,    \* each handler's step and request
    reply,        \* what it answered: outcome and the transfer's status
    rpc, todo,    \* each reconciler's step and the rows it still has to do
    current,      \* the row it works on
    found,        \* GetTransactionByReference said so
    received      \* requests received so far

ledger == <<rows, sum, journal>>
table == <<row, status, reason, outbox>>
handler == <<hpc, hreq, reply, received>>
worker == <<rpc, todo, current, found>>
vars == <<ledger, table, stale, call, handler, worker>>

Refs == Keys
NoRef == NoKey
Ids == 1 .. MaxRequests

Ldg == INSTANCE Bank

TransferRequest == [key : Keys, sender : Accounts, recipient : Accounts,
                    amount : Amounts]

ASSUME TransfersAssumption ==
    /\ Genesis \in Opened
    /\ Opened \subseteq Accounts
    /\ Amounts \subseteq Int
    /\ Opening \in [Accounts -> Int]
    /\ NoKey \notin Keys
    /\ Requests \subseteq TransferRequest
    /\ Requests # {}
    /\ Lasting \subseteq Reconcilers
    /\ MaxRequests \in Nat

NoRow == [key |-> NoKey]

NoRequest == CHOOSE q \in Requests : TRUE

Terminal == {"completed", "failed", "rejected"}

Statuses == {"none", "pending"} \cup Terminal

LedgerReasons == {"insufficient_funds", "account_not_found",
                  "invalid_amount", "ledger_internal_error"}

Reasons == LedgerReasons \cup {"none", "fraud_rule", "timeout_unresolved"}

Events == {"TransferCompleted", "TransferFailed", "TransferRejected"}

HandlerSteps == {"idle", "lookup", "validate", "insert", "replay", "fraud",
                 "reject", "settle", "await", "done"}

\* Between the INSERT and the answer the request is in flight.
InFlight == {"fraud", "reject", "settle", "await"}

\* "late": executed after the row had gone stale.
CallStates == {"none", "sent", "ok", "lost", "late"} \cup LedgerReasons

NoReply == [outcome |-> "none", status |-> "none"]

\* The types of the transfers table, the calls and each actor's local state.
TypeOK ==
    /\ rows \subseteq Accounts
    /\ sum \in [Accounts -> Int]
    /\ \A j \in journal : j.ref \in Keys /\ j.amount \in Amounts
    /\ row \in [Keys -> Requests \cup {NoRow}]
    /\ status \in [Keys -> Statuses]
    /\ reason \in [Keys -> Reasons]
    /\ \A k \in Keys : outbox[k] \in Seq(Events)
    /\ stale \subseteq Keys
    /\ call \in [Keys -> CallStates]
    /\ hpc \in [Handlers -> HandlerSteps]
    /\ hreq \in [Handlers -> Requests]
    /\ \A h \in Handlers : reply[h].status \in Statuses
    /\ rpc \in [Reconcilers -> {"idle", "pick", "write"}]
    /\ todo \in [Reconcilers -> SUBSET Keys]
    /\ current \in [Reconcilers -> Keys \cup {NoKey}]
    /\ found \in [Reconcilers -> BOOLEAN]
    /\ received \in 0 .. MaxRequests

Init ==
    /\ rows = Opened
    /\ sum = Opening
    /\ journal = {}
    /\ row = [k \in Keys |-> NoRow]
    /\ status = [k \in Keys |-> "none"]
    /\ reason = [k \in Keys |-> "none"]
    /\ outbox = [k \in Keys |-> <<>>]
    /\ stale = {}
    /\ call = [k \in Keys |-> "none"]
    /\ hpc = [h \in Handlers |-> "idle"]
    /\ hreq = [h \in Handlers |-> NoRequest]
    /\ reply = [h \in Handlers |-> NoReply]
    /\ rpc = [r \in Reconcilers |-> "idle"]
    /\ todo = [r \in Reconcilers |-> {}]
    /\ current = [r \in Reconcilers |-> NoKey]
    /\ found = [r \in Reconcilers |-> FALSE]
    /\ received = 0

-----------------------------------------------------------------------------
GoTo(h, step) ==
    /\ hpc' = [hpc EXCEPT ![h] = step]
    /\ UNCHANGED <<hreq, reply, received>>

Answer(h, outcome, st) ==
    /\ hpc' = [hpc EXCEPT ![h] = "done"]
    /\ reply' = [reply EXCEPT ![h] = [outcome |-> outcome, status |-> st]]
    /\ UNCHANGED <<hreq, received>>

EventFor(st) == CASE st = "completed" -> "TransferCompleted"
                  [] st = "failed" -> "TransferFailed"
                  [] st = "rejected" -> "TransferRejected"

\* markTransferCompleted, markTransferFailed, markTransferRejected: the
\* UPDATE ... WHERE id and the outbox row in one Postgres transaction.
Mark(k, st, why) ==
    /\ status' = [status EXCEPT ![k] = st]
    /\ reason' = [reason EXCEPT ![k] = why]
    /\ outbox' = [outbox EXCEPT ![k] = Append(@, EventFor(st))]
    /\ UNCHANGED row

\* Faulty: the reconciler's writes without AND status = 'pending'.
MarkIfPendingUnguarded(k, st, why) == Mark(k, st, why)

\* markTransfer{Completed,Failed}IfPending: zero rows affected, no event.
MarkIfPending(k, st, why) ==
    IF status[k] = "pending" THEN Mark(k, st, why) ELSE UNCHANGED table

-----------------------------------------------------------------------------
(***************************************************************************)
(* createTransferHandler.                                                  *)
(***************************************************************************)
Receive(h, q) ==
    /\ hpc[h] = "idle"
    /\ received < MaxRequests
    /\ received' = received + 1
    /\ hreq' = [hreq EXCEPT ![h] = q]
    /\ hpc' = [hpc EXCEPT ![h] = "lookup"]
    /\ UNCHANGED <<ledger, table, stale, call, reply, worker>>

\* getTransferByIdempotencyKey; the status it read is what a replay will
\* report, however long the calls in between take.
Lookup(h) ==
    LET st == status[hreq[h].key] IN
    /\ hpc[h] = "lookup"
    /\ hpc' = [hpc EXCEPT ![h] = IF st = "none" THEN "validate" ELSE "replay"]
    /\ reply' = [reply EXCEPT ![h].status = st]
    /\ UNCHANGED <<hreq, received>>
    /\ UNCHANGED <<ledger, table, stale, call, worker>>

\* Faulty: the key alone identifies a request.
SameRequestKeyOnly(q, p) == q.key = p.key

SameRequest(q, p) ==
    /\ q.sender = p.sender
    /\ q.amount = p.amount
    /\ q.recipient = p.recipient

\* reconcileReplay: the stored row against this request (its recipient is
\* resolved again first); a match is answered with the row's state as it was
\* read and never reaches fraud-svc or the ledger.
Replay(h) ==
    LET k == hreq[h].key IN
    /\ hpc[h] = "replay"
    /\ IF SameRequest(hreq[h], row[k])
         THEN Answer(h, "replayed", reply[h].status)
         ELSE Answer(h, "key_reused", "none")
    /\ UNCHANGED <<ledger, table, stale, call, worker>>

\* Amount, recipient and sender checks; what accounts-svc says (unknown or
\* closed recipient, inactive sender, rate limit) is an input.
Validate(h) ==
    /\ hpc[h] = "validate"
    /\ \/ /\ hreq[h].amount > 0
          /\ hreq[h].recipient # hreq[h].sender
          /\ GoTo(h, "insert")
       \/ Answer(h, "refused", "none")
    /\ UNCHANGED <<ledger, table, stale, call, worker>>

\* INSERT ... RETURNING; the unique constraint on idempotency_key decides
\* between concurrent requests, the loser looks the winner's row up.
Insert(h) ==
    LET k == hreq[h].key IN
    /\ hpc[h] = "insert"
    /\ IF status[k] = "none"
         THEN /\ row' = [row EXCEPT ![k] = hreq[h]]
              /\ status' = [status EXCEPT ![k] = "pending"]
              /\ UNCHANGED <<reason, outbox>>
              /\ GoTo(h, "fraud")
         ELSE UNCHANGED table /\ GoTo(h, "lookup")
    /\ UNCHANGED <<ledger, stale, call, worker>>

\* checkTransferFraud: approve, reject, or no usable answer, in which case
\* the row stays pending.
CheckFraud(h) ==
    /\ hpc[h] = "fraud"
    /\ \/ GoTo(h, "settle")
       \/ GoTo(h, "reject")
       \/ Answer(h, "accepted", "pending")
    /\ UNCHANGED <<ledger, table, stale, call, worker>>

MarkRejected(h) ==
    /\ hpc[h] = "reject"
    /\ Mark(hreq[h].key, "rejected", "fraud_rule")
    /\ Answer(h, "created", "rejected")
    /\ UNCHANGED <<ledger, stale, call, worker>>

\* settleTransfer sends ExecuteTransfer with the transfer id as reference.
SendExecute(h) ==
    /\ hpc[h] = "settle"
    /\ call' = [call EXCEPT ![hreq[h].key] = "sent"]
    /\ GoTo(h, "await")
    /\ UNCHANGED <<ledger, table, stale, worker>>

\* The ledger answered: completed, or failed with the code's reason.
Settle(h) ==
    LET k == hreq[h].key IN
    /\ hpc[h] = "await"
    /\ \/ /\ call[k] = "ok"
          /\ Mark(k, "completed", "none")
          /\ Answer(h, "created", "completed")
       \/ /\ call[k] \in LedgerReasons
          /\ Mark(k, "failed", call[k])
          /\ Answer(h, "created", "failed")
    /\ UNCHANGED <<ledger, stale, call, worker>>

\* Faulty: a transport failure is taken for a failed transfer.
SettleUncertainFails(h) ==
    /\ hpc[h] = "await"
    /\ Mark(hreq[h].key, "failed", "timeout_unresolved")
    /\ Answer(h, "created", "failed")
    /\ UNCHANGED <<ledger, stale, call, worker>>

\* Unavailable, DeadlineExceeded, Unknown: the call may still be running, or
\* its answer was lost.  The row is left pending.
SettleUncertain(h) ==
    /\ hpc[h] = "await"
    /\ Answer(h, "accepted", "pending")
    /\ UNCHANGED <<ledger, table, stale, call, worker>>

\* The answer is delivered; or a crash, an error of accounts-svc or of the
\* service's own database ends the request where it is.  What it wrote
\* stays, the write of a COMMIT whose acknowledgement was lost included.
Stop(h) ==
    /\ hpc[h] # "idle"
    /\ hpc' = [hpc EXCEPT ![h] = "idle"]
    /\ hreq' = [hreq EXCEPT ![h] = NoRequest]
    /\ reply' = [reply EXCEPT ![h] = NoReply]
    /\ UNCHANGED <<ledger, table, stale, call, received, worker>>

-----------------------------------------------------------------------------
(***************************************************************************)
(* The ledger's side of the call.                                          *)
(***************************************************************************)
Payment(k) == [op |-> "transfer", from |-> row[k].sender,
               to |-> row[k].recipient, amount |-> row[k].amount, ref |-> k]

\* Posted and answered, or posted and the COMMIT acknowledgement lost, which
\* ledger-svc reports as codes.Internal.  Nobody waits for a late answer.
LedgerPosts(k) ==
    /\ call[k] = "sent"
    /\ Ldg!Post(Cardinality(journal) + 1, Payment(k))
    /\ \E answer \in IF k \in stale THEN {"late"}
                                     ELSE {"ok", "ledger_internal_error"} :
         call' = [call EXCEPT ![k] = answer]
    /\ UNCHANGED <<table, stale, handler, worker>>

\* What ExecuteTransfer refuses the payment with; the row locks come before
\* the balance check.
Refusals(p) ==
    IF ~({p.from, p.to} \subseteq rows) THEN {"account_not_found"}
    ELSE IF sum[p.from] < p.amount THEN {"insufficient_funds"}
    ELSE {}

\* Refused, rolled back with an error, or the request never arrived.
LedgerDoesNot(k) ==
    /\ call[k] = "sent"
    /\ \E answer \in Refusals(Payment(k)) \cup {"ledger_internal_error", "lost"} :
         /\ call' = [call EXCEPT ![k] = answer]
    /\ UNCHANGED <<ledger, table, stale, handler, worker>>

-----------------------------------------------------------------------------
(***************************************************************************)
(* The reconciliation worker.                                              *)
(***************************************************************************)

\* staleAfter (2 minutes) passes over a pending row.  The handler's fraud
\* check and its wait for the ledger are bounded by 5 seconds each, so no
\* request for this row is in flight any more.  What the handler's deadline
\* does not bound is the ledger's own transaction: a call that is still
\* "sent" may be executed afterwards.
GrowStale(k) ==
    /\ status[k] = "pending"
    /\ \A h \in Handlers : hreq[h].key = k => hpc[h] \notin InFlight
    /\ stale' = stale \cup {k}
    /\ UNCHANGED <<ledger, table, call, handler, worker>>

\* getStalePendingTransfers.
ListStale(r) ==
    /\ rpc[r] = "idle"
    /\ \E k \in stale : status[k] = "pending"
    /\ todo' = [todo EXCEPT ![r] = {k \in stale : status[k] = "pending"}]
    /\ rpc' = [rpc EXCEPT ![r] = "pick"]
    /\ UNCHANGED <<ledger, table, stale, call, handler, current, found>>

\* GetTransactionByReference for the next row of the list.
AskLedger(r) ==
    /\ rpc[r] = "pick"
    /\ \E k \in todo[r] :
         /\ current' = [current EXCEPT ![r] = k]
         /\ found' = [found EXCEPT ![r] = Ldg!Tagged(k) # {}]
         /\ todo' = [todo EXCEPT ![r] = @ \ {k}]
    /\ rpc' = [rpc EXCEPT ![r] = "write"]
    /\ UNCHANGED <<ledger, table, stale, call, handler>>

\* Faulty: an execution the ledger does not know of is left for later.
ReconcileFoundOnly(r) ==
    /\ rpc[r] = "write"
    /\ IF found[r] THEN MarkIfPending(current[r], "completed", "none")
                   ELSE UNCHANGED table
    /\ rpc' = [rpc EXCEPT ![r] = IF todo[r] = {} THEN "idle" ELSE "pick"]
    /\ current' = [current EXCEPT ![r] = NoKey]
    /\ found' = [found EXCEPT ![r] = FALSE]
    /\ UNCHANGED <<ledger, stale, call, handler, todo>>

\* Record the fact the ledger reported, unless the row was resolved since.
Reconcile(r) ==
    /\ rpc[r] = "write"
    /\ IF found[r] THEN MarkIfPending(current[r], "completed", "none")
                   ELSE MarkIfPending(current[r], "failed", "timeout_unresolved")
    /\ rpc' = [rpc EXCEPT ![r] = IF todo[r] = {} THEN "idle" ELSE "pick"]
    /\ current' = [current EXCEPT ![r] = NoKey]
    /\ found' = [found EXCEPT ![r] = FALSE]
    /\ UNCHANGED <<ledger, stale, call, handler, todo>>

\* An unreachable ledger or a failed write: the row waits for the next tick,
\* the loop goes on with the others.
SkipTransfer(r) ==
    /\ \/ /\ rpc[r] = "pick"
          /\ \E k \in todo[r] : todo' = [todo EXCEPT ![r] = @ \ {k}]
       \/ rpc[r] = "write" /\ UNCHANGED todo
    /\ rpc' = [rpc EXCEPT ![r] = IF todo'[r] = {} THEN "idle" ELSE "pick"]
    /\ current' = [current EXCEPT ![r] = NoKey]
    /\ found' = [found EXCEPT ![r] = FALSE]
    /\ UNCHANGED <<ledger, table, stale, call, handler>>

\* The process restarts in the middle of a tick.
RestartReconciler(r) ==
    /\ rpc[r] # "idle"
    /\ rpc' = [rpc EXCEPT ![r] = "idle"]
    /\ todo' = [todo EXCEPT ![r] = {}]
    /\ current' = [current EXCEPT ![r] = NoKey]
    /\ found' = [found EXCEPT ![r] = FALSE]
    /\ UNCHANGED <<ledger, table, stale, call, handler>>

-----------------------------------------------------------------------------
HandlerStep(h) ==
    \/ Lookup(h)
    \/ Replay(h)
    \/ Validate(h)
    \/ Insert(h)
    \/ CheckFraud(h)
    \/ MarkRejected(h)
    \/ SendExecute(h)
    \/ Settle(h)
    \/ SettleUncertain(h)
    \/ Stop(h)

LedgerStep(k) == LedgerPosts(k) \/ LedgerDoesNot(k)

Next ==
    \/ \E h \in Handlers : \/ \E q \in Requests : Receive(h, q)
                           \/ HandlerStep(h)
    \/ \E k \in Keys : LedgerStep(k) \/ GrowStale(k)
    \/ \E r \in Reconcilers : \/ ListStale(r)
                              \/ AskLedger(r)
                              \/ Reconcile(r)
                              \/ SkipTransfer(r)
                              \/ RestartReconciler(r)

Spec == Init /\ [][Next]_vars

\* A handler takes its next step or dies, a call ends by its deadline, time
\* passes, and on a replica that is always started again the worker's ticker
\* keeps firing; its lookups and writes succeed infinitely often if they are
\* tried infinitely often.  Another replica may die for good.
Fairness ==
    /\ \A h \in Handlers : WF_vars(HandlerStep(h))
    /\ \A k \in Keys : WF_vars(LedgerStep(k)) /\ WF_vars(GrowStale(k))
    /\ \A r \in Lasting : /\ WF_vars(ListStale(r))
                          /\ SF_vars(AskLedger(r))
                          /\ SF_vars(Reconcile(r))

LiveSpec == Spec /\ Fairness

-----------------------------------------------------------------------------
(***************************************************************************)
(* Properties.                                                             *)
(***************************************************************************)
Posted(k) == Ldg!Tagged(k) # {}

\* However often and concurrently a request is retried, crashes or is
\* replayed, its transfer is posted to the ledger at most once.
SettledOnce == \A k \in Keys : Cardinality(Ldg!Tagged(k)) <= 1

\* A completed transfer moved exactly the money its row names.
CompletedMoved ==
    \A k \in Keys : status[k] = "completed" =>
        \E j \in journal : /\ j.ref = k
                           /\ j.from = row[k].sender
                           /\ j.to = row[k].recipient
                           /\ j.amount = row[k].amount

\* A rejected transfer moved nothing and never will.  A failed one may have
\* moved its money, or still move it, in two cases only: the ledger answered
\* codes.Internal, which says nothing about its COMMIT (ledger.go:422), or
\* the worker asked while the call was still running and wrote "it never
\* executed" (transfer.go:570).
FailedUnmoved ==
    \A k \in Keys :
        /\ status[k] = "rejected" => ~Posted(k) /\ call[k] # "sent"
        /\ status[k] = "failed" /\ (Posted(k) \/ call[k] = "sent") =>
              \/ /\ reason[k] = "ledger_internal_error"
                 /\ call[k] = "ledger_internal_error"
              \/ /\ reason[k] = "timeout_unresolved"
                 /\ call[k] \in {"sent", "late"}

\* Status and ledger agree, those two cases apart, whatever was lost, late or
\* repeated.
StatusMatchesLedger == SettledOnce /\ CompletedMoved /\ FailedUnmoved

\* The stronger claim of settleTransfer's comment: any answer of the ledger
\* says for certain whether the money moved, so a failed transfer never did.
FailedNeverMoved ==
    \A k \in Keys : status[k] = "failed" => ~Posted(k)

\* The worker's premise (reconcile.go:43): what the ledger does not know of
\* when the row is stale "never executed. No money moved".
UnresolvedNeverMoved ==
    \A k \in Keys : reason[k] = "timeout_unresolved" => ~Posted(k)

\* A terminal transfer has exactly one outbox event, of its own kind, and a
\* pending one has none: consumers see one verdict per transfer.
OneVerdict ==
    \A k \in Keys :
        outbox[k] = IF status[k] \in Terminal THEN <<EventFor(status[k])>>
                                              ELSE <<>>

\* A client is only ever shown the state of the transfer it asked for, and a
\* final status it was shown stays the transfer's status.
RepliesAreOwn ==
    \A h \in Handlers :
        LET k == hreq[h].key IN
        reply[h].outcome \in {"created", "accepted", "replayed"} =>
            /\ row[k] = hreq[h]
            /\ reply[h].status \in Terminal => reply[h].status = status[k]

\* No transfer stays pending forever: the reconciler resolves what a lost
\* answer or a crash left behind.
EventuallyResolved ==
    \A k \in Keys : status[k] = "pending" ~> status[k] \in Terminal
=============================================================================

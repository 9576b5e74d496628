------------------------------ MODULE Deposits ------------------------------
(***************************************************************************)
(* Card top-ups of transfers-svc: createDeposit, the Stripe webhook        *)
(* handlers and the deposit half of the reconciliation worker, running     *)
(* concurrently on one deposits table, with Stripe and the ledger outside. *)
(*                                                                         *)
(* Stripe is external: a PaymentIntent that is paid, declined, canceled or *)
(* refunded, and events about it that arrive any number of times, in any   *)
(* order, or never.  The ledger is the atomic Bank of Bank.tla.            *)
(***************************************************************************)
EXTENDS Integers, FiniteSets

CONSTANTS
    Deposits,            \* deposits.id values
    Accounts, Genesis,
    Owner, Amount,       \* each deposit's account and amount
    MinAmount, MaxAmount,  \* depositMinAmount, depositMaxAmount
    Declined,            \* deposits whose first payment attempt is declined
    Refundable,          \* deposits Stripe may refund
    Webhooks,            \* charge.refunded deliveries handled at a time
    Workers,             \* replicas running the reconciliation worker
    Lasting              \* replicas that are always started again

VARIABLES
    rows, sum, journal,  \* the ledger (Bank)
    status, reason,      \* deposits.status and failure_reason
    intent,              \* deposits with a stripe_payment_intent_id
    stale,               \* deposits whose updated_at is older than staleAfter
    outbox,              \* outbox[d]: DepositCredited events queued for d
    cpc,                 \* the step of createDeposit for each deposit
    payment,             \* Stripe: status of the PaymentIntent
    refunded,            \* Stripe: deposits whose charge was refunded
    sent,                \* Stripe: events it delivers, again and again
    processed,           \* processed_stripe_events
    wpc, wdep, wseen,    \* a refund handler's step, deposit and status read
    rpc, todo,           \* a worker's step and its list of rows
    current, answer      \* its row and what Stripe said of it

ledger == <<rows, sum, journal>>
table == <<status, reason, intent, stale, outbox>>
stripe == <<payment, refunded, sent>>
webhook == <<wpc, wdep, wseen>>
worker == <<rpc, todo, current, answer>>
vars == <<ledger, table, cpc, stripe, processed, webhook, worker>>

NoRef == <<"null">>

\* A reference of its own for the reversal, the same on every delivery.
reversalReference(d) == <<"reversal", d>>

Refs == {<<"credit", d>> : d \in Deposits} \cup {reversalReference(d) : d \in Deposits}
Ids == 1 .. Cardinality(Refs)
Amounts == {Amount[d] : d \in Deposits}

Ldg == INSTANCE Bank

ASSUME DepositsAssumption ==
    /\ IsFiniteSet(Deposits)
    /\ Genesis \in Accounts
    /\ Owner \in [Deposits -> Accounts \ {Genesis}]
    /\ Amount \in [Deposits -> Int]
    /\ MinAmount \in Nat \ {0}
    /\ MaxAmount \in Nat
    /\ Lasting \subseteq Workers

None == "none"

Statuses == {None, "pending", "succeeded", "failed", "credited", "refunded"}

Reasons == {None, "declined", "canceled", "abandoned", "refunded_before_credit"}

EventTypes == {"payment_failed", "succeeded", "charge_refunded"}

\* The types of the deposits table, Stripe's state and each actor's.
TypeOK ==
    /\ rows \subseteq Accounts
    /\ sum \in [Accounts -> Int]
    /\ \A j \in journal : j.ref \in Refs
    /\ status \in [Deposits -> Statuses]
    /\ reason \in [Deposits -> Reasons]
    /\ intent \subseteq Deposits
    /\ stale \subseteq Deposits
    /\ outbox \in [Deposits -> Nat]
    /\ cpc \in [Deposits -> {None, "calling", "attach", "returned", "dead"}]
    /\ payment \in [Deposits -> {None, "open", "succeeded", "canceled"}]
    /\ refunded \subseteq Deposits
    /\ sent \subseteq Deposits \X EventTypes
    /\ processed \subseteq sent
    /\ wpc \in [Webhooks -> {"idle", "decide", "record"}]
    /\ wdep \in [Webhooks -> Deposits \cup {None}]
    /\ wseen \in [Webhooks -> Statuses]
    /\ rpc \in [Workers -> {"idle", "credit", "mark", "poll", "resolve", "sweep"}]
    /\ todo \in [Workers -> SUBSET Deposits]
    /\ current \in [Workers -> Deposits \cup {None}]
    /\ answer \in [Workers -> {None, "open", "succeeded", "canceled"}]

Init ==
    /\ rows = Accounts
    /\ sum = [a \in Accounts |-> 0]
    /\ journal = {}
    /\ status = [d \in Deposits |-> None]
    /\ reason = [d \in Deposits |-> None]
    /\ intent = {}
    /\ stale = {}
    /\ outbox = [d \in Deposits |-> 0]
    /\ cpc = [d \in Deposits |-> None]
    /\ payment = [d \in Deposits |-> None]
    /\ refunded = {}
    /\ sent = {}
    /\ processed = {}
    /\ wpc = [w \in Webhooks |-> "idle"]
    /\ wdep = [w \in Webhooks |-> None]
    /\ wseen = [w \in Webhooks |-> None]
    /\ rpc = [r \in Workers |-> "idle"]
    /\ todo = [r \in Workers |-> {}]
    /\ current = [r \in Workers |-> None]
    /\ answer = [r \in Workers |-> None]

-----------------------------------------------------------------------------
\* Every UPDATE of a deposits row sets updated_at = now().
Write(d, st, why) ==
    /\ status' = [status EXCEPT ![d] = st]
    /\ reason' = [reason EXCEPT ![d] = why]
    /\ stale' = stale \ {d}
    /\ UNCHANGED <<intent, outbox>>

(***************************************************************************)
(* createDeposit.                                                          *)
(***************************************************************************)

\* A valid amount, an active account: INSERT, then the call to Stripe.
InsertDeposit(d) ==
    /\ cpc[d] = None
    /\ MinAmount <= Amount[d]
    /\ Amount[d] <= MaxAmount
    /\ status' = [status EXCEPT ![d] = "pending"]
    /\ cpc' = [cpc EXCEPT ![d] = "calling"]
    /\ UNCHANGED <<reason, intent, stale, outbox>>
    /\ UNCHANGED <<ledger, stripe, processed, webhook, worker>>

\* Stripe answers with the new PaymentIntent, or the call fails, in which
\* case Stripe may or may not have created it.
CreateIntent(d) ==
    /\ cpc[d] = "calling"
    /\ \/ /\ cpc' = [cpc EXCEPT ![d] = "attach"]
          /\ payment' = [payment EXCEPT ![d] = "open"]
       \/ /\ cpc' = [cpc EXCEPT ![d] = "dead"]
          /\ \E made \in {None, "open"} : payment' = [payment EXCEPT ![d] = made]
    /\ UNCHANGED <<refunded, sent>>
    /\ UNCHANGED <<ledger, table, processed, webhook, worker>>

\* The second UPDATE has no status guard.  Only a caller that gets its answer
\* holds the client_secret it needs to pay.
AttachIntent(d) ==
    /\ cpc[d] = "attach"
    /\ intent' = intent \cup {d}
    /\ stale' = stale \ {d}
    /\ \E end \in {"returned", "dead"} : cpc' = [cpc EXCEPT ![d] = end]
    /\ UNCHANGED <<status, reason, outbox>>
    /\ UNCHANGED <<ledger, stripe, processed, webhook, worker>>

\* The process dies between the two writes.
CreateDies(d) ==
    /\ cpc[d] \in {"calling", "attach"}
    /\ cpc' = [cpc EXCEPT ![d] = "dead"]
    /\ UNCHANGED <<ledger, table, stripe, processed, webhook, worker>>

-----------------------------------------------------------------------------
(***************************************************************************)
(* Stripe (external).  A declined attempt leaves the PaymentIntent open    *)
(* and the customer may try again; a refund leaves it "succeeded".         *)
(***************************************************************************)
StripeSays(d, pi, type) ==
    /\ payment' = [payment EXCEPT ![d] = pi]
    /\ sent' = sent \cup {<<d, type>>}
    /\ UNCHANGED <<ledger, table, cpc, processed, webhook, worker>>

Decline(d) ==
    /\ cpc[d] = "returned"
    /\ payment[d] = "open"
    /\ d \in Declined
    /\ <<d, "payment_failed">> \notin sent
    /\ StripeSays(d, "open", "payment_failed")
    /\ UNCHANGED refunded

Pay(d) ==
    /\ cpc[d] = "returned"
    /\ payment[d] = "open"
    /\ StripeSays(d, "succeeded", "succeeded")
    /\ UNCHANGED refunded

Cancel(d) ==
    /\ payment[d] = "open"
    /\ payment' = [payment EXCEPT ![d] = "canceled"]
    /\ UNCHANGED <<refunded, sent>>
    /\ UNCHANGED <<ledger, table, cpc, processed, webhook, worker>>

Refund(d) ==
    /\ payment[d] = "succeeded"
    /\ d \in Refundable \ refunded
    /\ refunded' = refunded \cup {d}
    /\ StripeSays(d, "succeeded", "charge_refunded")

-----------------------------------------------------------------------------
(***************************************************************************)
(* The webhook.  A payment event is recorded as processed and applied in   *)
(* one transaction; a redelivery of a recorded event changes nothing.      *)
(***************************************************************************)
DepositSucceeded(d) ==
    /\ <<d, "succeeded">> \in sent \ processed
    /\ processed' = processed \cup {<<d, "succeeded">>}
    /\ IF d \in intent THEN Write(d, "succeeded", reason[d]) ELSE UNCHANGED table
    /\ UNCHANGED <<ledger, cpc, stripe, webhook, worker>>

DepositFailed(d) ==
    /\ <<d, "payment_failed">> \in sent \ processed
    /\ processed' = processed \cup {<<d, "payment_failed">>}
    /\ IF d \in intent THEN Write(d, "failed", "declined") ELSE UNCHANGED table
    /\ UNCHANGED <<ledger, cpc, stripe, webhook, worker>>

\* charge.refunded: the deposit's status is read outside any transaction.
ReadRefunded(w, d) ==
    /\ wpc[w] = "idle"
    /\ <<d, "charge_refunded">> \in sent
    /\ wpc' = [wpc EXCEPT ![w] = "decide"]
    /\ wdep' = [wdep EXCEPT ![w] = d]
    /\ wseen' = [wseen EXCEPT ![w] = IF d \in intent THEN status[d] ELSE None]
    /\ UNCHANGED <<ledger, table, cpc, stripe, processed, worker>>

\* Deposit and ReverseDeposit return the posting already tagged with the
\* reference instead of making a second one.
PostOnce(p) ==
    IF Ldg!TagsOf(p.ref) # {}
      THEN UNCHANGED ledger
      ELSE Ldg!Post(Cardinality(journal) + 1, p)

\* A credited deposit: the reversal is posted before anything is recorded.
ReverseDeposit(w) ==
    LET d == wdep[w] IN
    /\ wpc[w] = "decide"
    /\ wseen[w] = "credited"
    /\ PostOnce([op |-> "reverse", from |-> Owner[d], to |-> Genesis,
                 amount |-> Amount[d], ref |-> reversalReference(d)])
    /\ wpc' = [wpc EXCEPT ![w] = "record"]
    /\ UNCHANGED <<wdep, wseen>>
    /\ UNCHANGED <<table, cpc, stripe, processed, worker>>

HandlerDone(w) ==
    /\ wpc' = [wpc EXCEPT ![w] = "idle"]
    /\ wdep' = [wdep EXCEPT ![w] = None]
    /\ wseen' = [wseen EXCEPT ![w] = None]

\* The dedup insert and the status, by the status that was read; a delivery
\* that finds the event recorded rolls back.
RecordRefunded(w) ==
    LET d == wdep[w]
        e == <<d, "charge_refunded">>
    IN  /\ \/ wpc[w] = "record"
           \/ wpc[w] = "decide" /\ wseen[w] # "credited"
        /\ processed' = processed \cup {e}
        /\ IF e \in processed THEN UNCHANGED table
           ELSE CASE wseen[w] = "credited" -> Write(d, "refunded", None)
                  [] wseen[w] = "succeeded" ->
                        Write(d, "failed", "refunded_before_credit")
                  [] OTHER -> UNCHANGED table
        /\ HandlerDone(w)
        /\ UNCHANGED <<ledger, cpc, stripe, worker>>

\* An error or a crash: 500, and Stripe delivers the event again.
WebhookFails(w) ==
    /\ wpc[w] # "idle"
    /\ HandlerDone(w)
    /\ UNCHANGED <<ledger, table, cpc, stripe, processed, worker>>

-----------------------------------------------------------------------------
(***************************************************************************)
(* reconcileDepositsOnce: one tick credits what succeeded, then asks       *)
(* Stripe about what stayed pending, then sweeps what has no intent.  Each *)
(* part lists its rows first and works on that list.                       *)
(***************************************************************************)
GoOn(r, step, list) ==
    /\ rpc' = [rpc EXCEPT ![r] = step]
    /\ todo' = [todo EXCEPT ![r] = list]

NoCurrent(r) ==
    /\ current' = [current EXCEPT ![r] = None]
    /\ answer' = [answer EXCEPT ![r] = None]

ListSucceeded(r) ==
    /\ rpc[r] = "idle"
    /\ GoOn(r, "credit", {d \in Deposits : status[d] = "succeeded"})
    /\ UNCHANGED <<ledger, table, cpc, stripe, processed, webhook, current, answer>>

\* creditDeposit: the ledger first, with the deposit's id as reference.
CreditDeposit(r) ==
    /\ rpc[r] = "credit"
    /\ \E d \in todo[r] :
         /\ PostOnce([op |-> "deposit", from |-> Genesis, to |-> Owner[d],
                      amount |-> Amount[d], ref |-> <<"credit", d>>])
         /\ current' = [current EXCEPT ![r] = d]
         /\ GoOn(r, "mark", todo[r] \ {d})
    /\ UNCHANGED <<table, cpc, stripe, processed, webhook, answer>>

\* Faulty: the status is saved, the event is published after the COMMIT.
MarkCreditedDualWrite(r) ==
    LET d == current[r] IN
    /\ rpc[r] = "mark"
    /\ status' = [status EXCEPT ![d] = IF @ = "succeeded" THEN "credited" ELSE @]
    /\ stale' = stale \ {d}
    /\ \E n \in {0, 1} : outbox' = [outbox EXCEPT ![d] = @ + n]
    /\ UNCHANGED <<reason, intent>>
    /\ GoOn(r, "credit", todo[r])
    /\ NoCurrent(r)
    /\ UNCHANGED <<ledger, cpc, stripe, processed, webhook>>

\* markDepositCreditedIfSucceeded: status and event in one transaction.
MarkCredited(r) ==
    LET d == current[r] IN
    /\ rpc[r] = "mark"
    /\ IF status[d] = "succeeded"
         THEN /\ status' = [status EXCEPT ![d] = "credited"]
              /\ stale' = stale \ {d}
              /\ outbox' = [outbox EXCEPT ![d] = @ + 1]
              /\ UNCHANGED <<reason, intent>>
         ELSE UNCHANGED table
    /\ GoOn(r, "credit", todo[r])
    /\ NoCurrent(r)
    /\ UNCHANGED <<ledger, cpc, stripe, processed, webhook>>

\* getPendingDepositsWithIntentBefore.
ListPending(r) ==
    /\ rpc[r] = "credit"
    /\ todo[r] = {}
    /\ GoOn(r, "poll", {d \in intent \cap stale : status[d] = "pending"})
    /\ UNCHANGED <<ledger, table, cpc, stripe, processed, webhook, current, answer>>

RetrieveIntent(r) ==
    /\ rpc[r] = "poll"
    /\ \E d \in todo[r] :
         /\ current' = [current EXCEPT ![r] = d]
         /\ answer' = [answer EXCEPT ![r] = payment[d]]
         /\ GoOn(r, "resolve", todo[r] \ {d})
    /\ UNCHANGED <<ledger, table, cpc, stripe, processed, webhook>>

\* Faulty: the poller only closes canceled payments.
ResolvedCanceledOnly(d, said) ==
    IF said = "canceled" THEN Write(d, "failed", "canceled") ELSE UNCHANGED table

\* markDepositSucceededIfPending, markDepositFailedIfPending; any other
\* answer of Stripe leaves the row alone.
Resolved(d, said) ==
    CASE said = "succeeded" -> Write(d, "succeeded", reason[d])
      [] said = "canceled" -> Write(d, "failed", "canceled")
      [] OTHER -> UNCHANGED table

ResolvePending(r) ==
    /\ rpc[r] = "resolve"
    /\ IF status[current[r]] = "pending" THEN Resolved(current[r], answer[r])
                                         ELSE UNCHANGED table
    /\ GoOn(r, "poll", todo[r])
    /\ NoCurrent(r)
    /\ UNCHANGED <<ledger, cpc, stripe, processed, webhook>>

\* getOrphanedPendingDeposits.
ListOrphans(r) ==
    /\ rpc[r] = "poll"
    /\ todo[r] = {}
    /\ GoOn(r, "sweep", {d \in stale \ intent : status[d] = "pending"})
    /\ UNCHANGED <<ledger, table, cpc, stripe, processed, webhook, current, answer>>

\* Faulty: guarded by the status only.
FailIfOrphanedAnyIntent(d) ==
    IF status[d] = "pending" THEN Write(d, "failed", "abandoned")
                             ELSE UNCHANGED table

\* markDepositFailedIfOrphaned.
FailIfOrphaned(d) ==
    IF status[d] = "pending" /\ d \notin intent
      THEN Write(d, "failed", "abandoned")
      ELSE UNCHANGED table

SweepOrphan(r) ==
    /\ rpc[r] = "sweep"
    /\ \E d \in todo[r] :
         /\ FailIfOrphaned(d)
         /\ GoOn(r, "sweep", todo[r] \ {d})
    /\ UNCHANGED <<ledger, cpc, stripe, processed, webhook, current, answer>>

EndTick(r) ==
    /\ rpc[r] = "sweep"
    /\ todo[r] = {}
    /\ GoOn(r, "idle", {})
    /\ UNCHANGED <<ledger, table, cpc, stripe, processed, webhook, current, answer>>

\* A failed call or write: this row waits for the next tick, the loop goes
\* on.  A ledger call that failed may have posted all the same.
SkipRow(r) ==
    /\ \/ /\ rpc[r] \in {"credit", "poll", "sweep"}
          /\ \E d \in todo[r] : GoOn(r, rpc[r], todo[r] \ {d})
       \/ rpc[r] = "mark" /\ GoOn(r, "credit", todo[r])
       \/ rpc[r] = "resolve" /\ GoOn(r, "poll", todo[r])
    /\ NoCurrent(r)
    /\ UNCHANGED <<ledger, table, cpc, stripe, processed, webhook>>

RestartWorker(r) ==
    /\ rpc[r] # "idle"
    /\ GoOn(r, "idle", {})
    /\ NoCurrent(r)
    /\ UNCHANGED <<ledger, table, cpc, stripe, processed, webhook>>

\* staleAfter passes with no write to a pending row; createDeposit has no
\* deadline of its own and may still be under way.
GrowStale(d) ==
    /\ status[d] = "pending"
    /\ d \notin stale
    /\ stale' = stale \cup {d}
    /\ UNCHANGED <<status, reason, intent, outbox>>
    /\ UNCHANGED <<ledger, cpc, stripe, processed, webhook, worker>>

-----------------------------------------------------------------------------
CreateStep(d) ==
    InsertDeposit(d) \/ CreateIntent(d) \/ AttachIntent(d) \/ CreateDies(d)

StripeStep(d) == Decline(d) \/ Pay(d) \/ Cancel(d) \/ Refund(d)

WebhookStep(w) ==
    \/ \E d \in Deposits : ReadRefunded(w, d)
    \/ ReverseDeposit(w)
    \/ RecordRefunded(w)
    \/ WebhookFails(w)

WorkerStep(r) ==
    \/ ListSucceeded(r)
    \/ CreditDeposit(r)
    \/ MarkCredited(r)
    \/ ListPending(r)
    \/ RetrieveIntent(r)
    \/ ResolvePending(r)
    \/ ListOrphans(r)
    \/ SweepOrphan(r)
    \/ EndTick(r)
    \/ SkipRow(r)
    \/ RestartWorker(r)

Next ==
    \/ \E d \in Deposits : \/ CreateStep(d)
                           \/ StripeStep(d)
                           \/ DepositSucceeded(d)
                           \/ DepositFailed(d)
                           \/ GrowStale(d)
    \/ \E w \in Webhooks : WebhookStep(w)
    \/ \E r \in Workers : WorkerStep(r)

Spec == Init /\ [][Next]_vars

\* On a replica that is always started again the ticker keeps firing and each
\* step of a tick succeeds infinitely often if it is tried infinitely often;
\* another replica may die at any point of a tick, for good.  Time passes.  Nothing is assumed of
\* Stripe: an event may never arrive.
Fairness ==
    /\ \A d \in Deposits : WF_vars(GrowStale(d))
    /\ \A r \in Lasting :
         /\ WF_vars(ListSucceeded(r))
         /\ SF_vars(CreditDeposit(r))
         /\ SF_vars(MarkCredited(r))
         /\ SF_vars(ListPending(r))
         /\ SF_vars(RetrieveIntent(r))
         /\ SF_vars(ResolvePending(r))
         /\ SF_vars(ListOrphans(r))
         /\ SF_vars(SweepOrphan(r))
         /\ SF_vars(EndTick(r))

LiveSpec == Spec /\ Fairness

\* Stripe keeps retrying an event until it is acknowledged.
Delivery == \A d \in Deposits : /\ WF_vars(DepositSucceeded(d))
                                /\ WF_vars(DepositFailed(d))

-----------------------------------------------------------------------------
(***************************************************************************)
(* Properties.                                                             *)
(***************************************************************************)
Credits(d) == Ldg!Tagged(<<"credit", d>>)

Reversals(d) == Ldg!Tagged(<<"reversal", d>>)

\* The ledger only holds money Stripe took: a deposit is credited at most
\* once, in full, and only if its payment succeeded; it is reversed at most
\* once, after its credit, and only if Stripe refunded it.
BooksBacked ==
    \A d \in Deposits :
        /\ Cardinality(Credits(d)) <= 1
        /\ Credits(d) # {} => payment[d] = "succeeded"
        /\ \A j \in Credits(d) : j.to = Owner[d] /\ j.amount = Amount[d]
        /\ Cardinality(Reversals(d)) <= 1
        /\ Reversals(d) # {} => Credits(d) # {} /\ d \in refunded

\* A deposit shown as credited or refunded was posted to the ledger, and its
\* DepositCredited event is queued.
CreditedIsPosted ==
    \A d \in Deposits : status[d] \in {"credited", "refunded"} =>
        Credits(d) # {} /\ outbox[d] > 0

\* A deposit shown as refunded has its reversal in the ledger: a reference
\* shared with the credit, or a status written before the posting, would
\* leave the user with money Stripe took back.
RefundedIsReversed ==
    \A d \in Deposits : status[d] = "refunded" => Reversals(d) # {}

\* A success is announced once for each report of it: the second DepositCredited
\* of a deposit that polling had brought to 'credited' takes the webhook's late
\* 'succeeded' (webhook.go:334 has no status guard), and there is no third.
AnnouncedPerReport ==
    \A d \in Deposits :
        outbox[d] <= IF <<d, "succeeded">> \in processed THEN 2 ELSE 1

\* The ledger only holds what Stripe took, and a status or an event only claims
\* what the ledger holds, through duplicated and reordered events, stale reads of
\* a refund and a credit whose replica dies before its mark.  The converse is not
\* claimed: a paid deposit may be 'failed' (PaidIsCredited), and a handled refund
\* may leave its credit standing (BooksReflectRefund).
BooksBackedByStripe ==
    BooksBacked /\ CreditedIsPosted /\ RefundedIsReversed /\ AnnouncedPerReport

\* The sweep never abandons a pending deposit that has its PaymentIntent,
\* even if the intent was attached after the sweep listed the row.
AttachedNotAbandoned ==
    [][\A d \in intent : status[d] = "pending" =>
          ~(status'[d] = "failed" /\ reason'[d] = "abandoned")]_vars

\* With every webhook lost, a payment that succeeded while its deposit was
\* pending still reaches the user's balance, unless it was refunded or a
\* declined attempt's event still comes in for it.
LostWebhookRecovered ==
    \A d \in Deposits :
        (d \in intent /\ status[d] = "pending" /\ payment[d] = "succeeded")
        ~> \/ Credits(d) # {}
           \/ d \in refunded
           \/ <<d, "payment_failed">> \in processed

\* A deposit whose creation died before the intent was attached is closed.
OrphansClosed ==
    \A d \in Deposits :
        (status[d] = "pending" /\ d \notin intent /\ cpc[d] = "dead")
        ~> status[d] = "failed"

\* The worker makes up for whatever Stripe or a crash withheld.
PollingRecovers == LostWebhookRecovered /\ OrphansClosed

\* markDepositCreditedIfSucceeded's claim that crediting never
\* double-publishes: at most one DepositCredited event per deposit.
CreditedEventOnce == \A d \in Deposits : outbox[d] <= 1

\* "Stripe took it back, so the books must reflect that": once a refund has
\* been handled, no credit of its deposit stands without its reversal.
BooksReflectRefund ==
    \A d \in Deposits :
        (<<d, "charge_refunded">> \in processed /\ Credits(d) # {})
        => Reversals(d) # {}

\* The invariant deposit_reconcile.go centres on: if Stripe's payment events
\* all arrive, money Stripe took reaches the ledger or was refunded.
PaidIsCredited ==
    Delivery =>
      \A d \in Deposits :
        payment[d] = "succeeded" ~> (Credits(d) # {} \/ d \in refunded)
=============================================================================

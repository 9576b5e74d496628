--------------------------- MODULE DepositsProofs ---------------------------
(***************************************************************************)
(* Proofs about Deposits for any number of deposits, deliveries and        *)
(* workers, whatever Stripe sends, repeats or withholds; about Operations, *)
(* a customer's other requests, for any number of handlers, any limits and *)
(* any schedule; and about History, the list of all of them, for any page  *)
(* size and any rows.                                                      *)
(***************************************************************************)
EXTENDS Deposits, Operations, History, TLAPS, FiniteSetTheorems

Paid(d) == payment[d] = "succeeded"

\* The ledger holds credits and reversals of deposits, one of each at most.
BooksAreDeposits ==
    /\ \A j \in journal : \E d \in Deposits :
          \/ /\ j.op = "deposit" /\ j.ref = <<"credit", d>>
             /\ j.to = Owner[d] /\ j.amount = Amount[d]
          \/ j.op = "reverse" /\ j.ref = <<"reversal", d>>
    /\ \A i, j \in journal : i.ref = j.ref => i = j

\* Credits stand for payments, reversals for refunds of credited deposits.
BooksFollowStripe ==
    \A d \in Deposits :
        /\ Credits(d) # {} => Paid(d)
        /\ Reversals(d) # {} => Credits(d) # {} /\ d \in refunded

\* A payment is made by a caller that was answered, and Stripe only reports
\* what happened.
StripeIsTruthful ==
    \A d \in Deposits :
        /\ Paid(d) => cpc[d] = "returned"
        /\ <<d, "succeeded">> \in sent => Paid(d)
        /\ <<d, "charge_refunded">> \in sent => d \in refunded

\* What the status of a deposit says of Stripe and of the ledger.
StatusIsBacked ==
    \A d \in Deposits :
        /\ status[d] = "succeeded" => Paid(d)
        /\ status[d] \in {"credited", "refunded"} => Credits(d) # {} /\ outbox[d] > 0
        /\ status[d] = "refunded" => Reversals(d) # {}

\* A refund handler works on a refunded deposit, and the credited status it
\* read is still backed by the ledger however stale it is.
WebhooksHold ==
    \A w \in Webhooks :
        /\ wpc[w] # "idle" =>
              wdep[w] \in Deposits /\ <<wdep[w], "charge_refunded">> \in sent
        /\ (wpc[w] # "idle" /\ wseen[w] = "credited") =>
              Credits(wdep[w]) # {} /\ outbox[wdep[w]] > 0
        /\ wpc[w] = "record" => wseen[w] = "credited" /\ Reversals(wdep[w]) # {}

\* A worker credits paid deposits only, marks what it posted and keeps what
\* Stripe told it, which stays true.
WorkersHold ==
    \A r \in Workers :
        /\ rpc[r] \in {"credit", "mark"} => \A d \in todo[r] : Paid(d)
        /\ rpc[r] = "mark" => current[r] \in Deposits /\ Credits(current[r]) # {}
        /\ rpc[r] = "resolve" =>
              current[r] \in Deposits /\ (answer[r] = "succeeded" => Paid(current[r]))

\* The inductive invariant.
IndInv ==
    /\ TypeOK
    /\ BooksAreDeposits
    /\ BooksFollowStripe
    /\ StripeIsTruthful
    /\ StatusIsBacked
    /\ WebhooksHold
    /\ WorkersHold

\* What is never taken back: a payment, a refund, an event Stripe sends, a
\* posting and a queued event.
Kept ==
    /\ \A d \in Deposits : Paid(d) => Paid(d)'
    /\ \A d \in Deposits : Credits(d) # {} => Credits(d)' # {}
    /\ \A d \in Deposits : Reversals(d) # {} => Reversals(d)' # {}
    /\ \A d \in Deposits : outbox[d] > 0 => outbox'[d] > 0
    /\ sent \subseteq sent'
    /\ refunded \subseteq refunded'

\* What a posting changes in the books.
CreditPosted(d) ==
    /\ Credits(d)' # {}
    /\ \A x \in Deposits : x # d => Credits(x)' = Credits(x)
    /\ \A x \in Deposits : Reversals(x)' = Reversals(x)

ReversalPosted(d) ==
    /\ Reversals(d)' # {}
    /\ \A x \in Deposits : x # d => Reversals(x)' = Reversals(x)
    /\ \A x \in Deposits : Credits(x)' = Credits(x)

-----------------------------------------------------------------------------
\* Credit and reversal references are what they look like.
LEMMA TaggedFacts ==
    ASSUME NEW d \in Deposits
    PROVE  /\ Credits(d) = {j \in journal : j.ref = <<"credit", d>>}
           /\ Reversals(d) = {j \in journal : j.ref = <<"reversal", d>>}
           /\ <<"credit", d>> \in Refs
           /\ <<"reversal", d>> \in Refs
  BY DEF Credits, Reversals, Ldg!Tagged, NoRef, Refs, reversalReference

\* A step that leaves the ledger alone leaves the books alone.
LEMMA BooksStay ==
    ASSUME IndInv, UNCHANGED ledger
    PROVE  /\ BooksAreDeposits'
           /\ \A d \in Deposits : Credits(d)' = Credits(d) /\ Reversals(d)' = Reversals(d)
           /\ rows' = rows /\ sum' = sum /\ journal' = journal
  BY DEF IndInv, ledger, BooksAreDeposits, Credits, Reversals, Ldg!Tagged

\* A step of somebody else leaves a refund handler's knowledge true.
LEMMA WebhooksStay ==
    ASSUME IndInv, Kept, UNCHANGED webhook
    PROVE  WebhooksHold'
  BY DEF IndInv, Kept, webhook, WebhooksHold

\* A step of somebody else leaves a worker's knowledge true.
LEMMA WorkersStay ==
    ASSUME IndInv, Kept, UNCHANGED worker
    PROVE  WorkersHold'
  BY DEF IndInv, TypeOK, Kept, worker, WorkersHold

\* An empty table, an empty journal, and Stripe knows of nothing.
LEMMA InitIndInv == Init => IndInv
<1> SUFFICES ASSUME Init PROVE IndInv
  OBVIOUS
<1> USE DEF Init
<1>1. TypeOK
  BY DEF TypeOK, None, Statuses, Reasons
<1>2. \A d \in Deposits : Credits(d) = {} /\ Reversals(d) = {}
  BY DEF Credits, Reversals, Ldg!Tagged
<1>3. BooksAreDeposits /\ BooksFollowStripe
  BY <1>2 DEF BooksAreDeposits, BooksFollowStripe
<1>4. StripeIsTruthful /\ StatusIsBacked
  BY DEF StripeIsTruthful, StatusIsBacked, Paid, None
<1>5. WebhooksHold /\ WorkersHold
  BY DEF WebhooksHold, WorkersHold
<1> QED BY <1>1, <1>3, <1>4, <1>5 DEF IndInv

-----------------------------------------------------------------------------
\* createDeposit: the PaymentIntent it makes is not paid yet.
LEMMA CreateIndInv ==
    ASSUME IndInv, NEW d \in Deposits, CreateStep(d)
    PROVE  IndInv'
<1> USE DEF IndInv
<1>1. /\ UNCHANGED <<ledger, reason, outbox, refunded, sent, processed, webhook, worker>>
      /\ intent' \subseteq intent \cup {d}
      /\ stale' \subseteq stale
  BY DEF CreateStep, InsertDeposit, CreateIntent, AttachIntent, CreateDies, stripe, table
<1>2. \A x \in Deposits : Credits(x)' = Credits(x) /\ Reversals(x)' = Reversals(x)
  BY <1>1, BooksStay
<1>3. /\ payment' \in [Deposits -> {None, "open", "succeeded", "canceled"}]
      /\ cpc' \in [Deposits -> {None, "calling", "attach", "returned", "dead"}]
      /\ \A x \in Deposits : Paid(x) => cpc[x] = "returned"
  <2>1. /\ payment \in [Deposits -> {None, "open", "succeeded", "canceled"}]
        /\ cpc \in [Deposits -> {None, "calling", "attach", "returned", "dead"}]
        /\ \A x \in Deposits : Paid(x) => cpc[x] = "returned"
    BY DEF TypeOK, StripeIsTruthful
  <2> HIDE DEF IndInv
  <2>2. CASE InsertDeposit(d)
    BY <2>1, <2>2 DEF InsertDeposit, stripe
  <2>3. CASE CreateIntent(d)
    BY <2>1, <2>3 DEF CreateIntent
  <2>4. CASE AttachIntent(d)
    BY <2>1, <2>4 DEF AttachIntent, stripe
  <2>5. CASE CreateDies(d)
    BY <2>1, <2>5 DEF CreateDies, stripe
  <2> QED BY <2>2, <2>3, <2>4, <2>5 DEF CreateStep
<1>4. \A x \in Deposits : Paid(x)' = Paid(x) /\ (Paid(x) => cpc'[x] = "returned")
  BY <1>3
     DEF TypeOK, Paid, CreateStep, InsertDeposit, CreateIntent, AttachIntent, CreateDies,
         stripe, None
<1>5. status' = status \/ status' = [status EXCEPT ![d] = "pending"]
  BY DEF CreateStep, InsertDeposit, CreateIntent, AttachIntent, CreateDies, table
<1>6. TypeOK'
  BY <1>1, <1>3, <1>5 DEF TypeOK, ledger, webhook, worker, Statuses
<1>7. BooksFollowStripe' /\ StripeIsTruthful'
  BY <1>1, <1>2, <1>4 DEF BooksFollowStripe, StripeIsTruthful
<1>8. StatusIsBacked'
  BY <1>1, <1>2, <1>4, <1>5 DEF TypeOK, StatusIsBacked
<1>9. Kept
  BY <1>1, <1>2, <1>4 DEF Kept
<1> QED BY <1>1, <1>6, <1>7, <1>8, <1>9, BooksStay, WebhooksStay, WorkersStay

\* Stripe moves forward and tells the truth.
LEMMA StripeIndInv ==
    ASSUME IndInv, NEW d \in Deposits, StripeStep(d)
    PROVE  IndInv'
<1> USE DEF IndInv
<1>1. UNCHANGED <<ledger, table, cpc, processed, webhook, worker>>
  BY DEF StripeStep, Decline, Pay, Cancel, Refund, StripeSays
<1>2. \A x \in Deposits : Credits(x)' = Credits(x) /\ Reversals(x)' = Reversals(x)
  BY <1>1, BooksStay
<1>3. /\ payment' \in [Deposits -> {None, "open", "succeeded", "canceled"}]
      /\ refunded' \subseteq Deposits
      /\ sent' \subseteq Deposits \X EventTypes
      /\ sent \subseteq sent' /\ refunded \subseteq refunded'
      /\ \A x \in Deposits : Paid(x) => Paid(x)'
  BY DEF TypeOK, StripeStep, Decline, Pay, Cancel, Refund, StripeSays, EventTypes, Paid
<1>4. StripeIsTruthful'
  <2>1. CASE Decline(d)
    BY <1>1, <2>1 DEF Decline, StripeSays, TypeOK, StripeIsTruthful, Paid
  <2>2. CASE Pay(d)
    BY <1>1, <2>2 DEF Pay, StripeSays, TypeOK, StripeIsTruthful, Paid
  <2>3. CASE Cancel(d)
    BY <1>1, <2>3 DEF Cancel, TypeOK, StripeIsTruthful, Paid
  <2>4. CASE Refund(d)
    BY <1>1, <2>4 DEF Refund, StripeSays, TypeOK, StripeIsTruthful, Paid
  <2> QED BY <2>1, <2>2, <2>3, <2>4 DEF StripeStep
<1>5. TypeOK'
  BY <1>1, <1>3 DEF TypeOK, ledger, table, webhook, worker
<1>6. BooksFollowStripe' /\ StatusIsBacked'
  BY <1>1, <1>2, <1>3 DEF BooksFollowStripe, StatusIsBacked, table
<1>7. Kept
  BY <1>1, <1>2, <1>3 DEF Kept, table
<1> QED BY <1>1, <1>4, <1>5, <1>6, <1>7, BooksStay, WebhooksStay, WorkersStay

\* A write of one deposit's row, when the new status is backed.
LEMMA WriteFacts ==
    ASSUME IndInv, NEW d \in Deposits, NEW st \in Statuses, NEW why \in Reasons,
           Write(d, st, why), UNCHANGED <<ledger, payment>>,
           st \in {"succeeded", "refunded", "failed"},
           st = "succeeded" => Paid(d),
           st = "refunded" => Credits(d) # {} /\ Reversals(d) # {} /\ outbox[d] > 0
    PROVE  /\ StatusIsBacked'
           /\ status' \in [Deposits -> Statuses]
           /\ reason' \in [Deposits -> Reasons]
           /\ intent' = intent /\ outbox' = outbox
           /\ stale' \subseteq stale
<1>1. \A x \in Deposits : Credits(x)' = Credits(x) /\ Reversals(x)' = Reversals(x)
  BY BooksStay
<1>2. \A x \in Deposits : Paid(x)' = Paid(x)
  BY DEF Paid
<1> QED BY <1>1, <1>2 DEF IndInv, TypeOK, Write, StatusIsBacked

\* A step of the tables only: no posting, nothing new from Stripe.
LEMMA TableStep ==
    ASSUME IndInv, UNCHANGED <<ledger, cpc, stripe>>,
           StatusIsBacked',
           status' \in [Deposits -> Statuses],
           reason' \in [Deposits -> Reasons],
           intent' = intent,
           outbox' \in [Deposits -> Nat],
           \A x \in Deposits : outbox[x] <= outbox'[x],
           stale' \subseteq Deposits,
           processed' \subseteq sent
    PROVE  /\ UNCHANGED <<webhook, worker>> => TypeOK'
           /\ BooksAreDeposits' /\ BooksFollowStripe' /\ StripeIsTruthful'
           /\ Kept
<1> USE DEF IndInv
<1>1. \A x \in Deposits : Credits(x)' = Credits(x) /\ Reversals(x)' = Reversals(x)
  BY BooksStay
<1>2. \A x \in Deposits : Paid(x)' = Paid(x)
  BY DEF Paid, stripe
<1>3. UNCHANGED <<webhook, worker>> => TypeOK'
  BY DEF TypeOK, ledger, stripe, webhook, worker
<1>4. BooksFollowStripe' /\ StripeIsTruthful'
  BY <1>1, <1>2 DEF BooksFollowStripe, StripeIsTruthful, stripe
<1>5. \A x \in Deposits : outbox[x] > 0 => outbox'[x] > 0
  BY DEF TypeOK
<1>6. Kept
  BY <1>1, <1>2, <1>5 DEF Kept, stripe
<1> QED BY <1>3, <1>4, <1>6, BooksStay

\* Payment events: a reported success is a payment.
LEMMA PaymentEventIndInv ==
    ASSUME IndInv, NEW d \in Deposits, DepositSucceeded(d) \/ DepositFailed(d)
    PROVE  IndInv'
<1> USE DEF IndInv
<1>1. /\ UNCHANGED <<ledger, cpc, stripe, webhook, worker, payment>>
      /\ processed' \subseteq sent
  BY DEF DepositSucceeded, DepositFailed, TypeOK, stripe
<1>2. /\ StatusIsBacked'
      /\ status' \in [Deposits -> Statuses]
      /\ reason' \in [Deposits -> Reasons]
      /\ intent' = intent /\ outbox' = outbox
      /\ stale' \subseteq stale
  <2>1. CASE UNCHANGED table
    BY <1>1, <2>1, BooksStay DEF TypeOK, table, StatusIsBacked, Paid
  <2>2. CASE DepositSucceeded(d) /\ Write(d, "succeeded", reason[d])
    <3>1. Paid(d)
      BY <2>2 DEF DepositSucceeded, StripeIsTruthful
    <3>2. "succeeded" \in Statuses /\ reason[d] \in Reasons
      BY DEF Statuses, TypeOK
    <3> QED BY <1>1, <2>2, <3>1, <3>2, WriteFacts
  <2>3. CASE Write(d, "failed", "declined")
    <3>1. "failed" \in Statuses /\ "declined" \in Reasons
      BY DEF Statuses, Reasons
    <3> QED BY <1>1, <2>3, <3>1, WriteFacts
  <2> QED BY <2>1, <2>2, <2>3 DEF DepositSucceeded, DepositFailed
<1>3. stale' \subseteq Deposits /\ \A x \in Deposits : outbox[x] <= outbox'[x]
  BY <1>2 DEF TypeOK
<1>4. outbox' \in [Deposits -> Nat]
  BY <1>2 DEF TypeOK
<1>5. TypeOK' /\ BooksAreDeposits' /\ BooksFollowStripe' /\ StripeIsTruthful' /\ Kept
  BY <1>1, <1>2, <1>3, <1>4, TableStep
<1> QED BY <1>1, <1>2, <1>5, WebhooksStay, WorkersStay

\* Time passes.
LEMMA GrowStaleIndInv ==
    ASSUME IndInv, NEW d \in Deposits, GrowStale(d)
    PROVE  IndInv'
<1> USE DEF IndInv
<1>1. /\ UNCHANGED <<status, reason, intent, outbox>>
      /\ UNCHANGED <<ledger, cpc, stripe, processed, webhook, worker>>
      /\ stale' = stale \cup {d}
  BY DEF GrowStale
<1>2. StatusIsBacked'
  BY <1>1, BooksStay DEF StatusIsBacked, Paid, stripe
<1>3. /\ status' \in [Deposits -> Statuses] /\ reason' \in [Deposits -> Reasons]
      /\ outbox' \in [Deposits -> Nat] /\ \A x \in Deposits : outbox[x] <= outbox'[x]
      /\ stale' \subseteq Deposits /\ processed' \subseteq sent
  BY <1>1 DEF TypeOK
<1>4. TypeOK' /\ BooksAreDeposits' /\ BooksFollowStripe' /\ StripeIsTruthful' /\ Kept
  BY <1>1, <1>2, <1>3, TableStep
<1> QED BY <1>1, <1>2, <1>4, WebhooksStay, WorkersStay

-----------------------------------------------------------------------------
\* Deposit and ReverseDeposit post at most once per reference, because the
\* ledger holds no transfer under a deposit's references.
LEMMA PostOnceFacts ==
    ASSUME IndInv, NEW p, NEW d \in Deposits, PostOnce(p),
           p.amount = Amount[d],
           \/ p.op = "deposit" /\ p.ref = <<"credit", d>> /\ p.to = Owner[d]
           \/ p.op = "reverse" /\ p.ref = <<"reversal", d>>
    PROVE  /\ BooksAreDeposits'
           /\ \A j \in journal' : j.ref \in Refs
           /\ rows' = rows /\ sum' \in [Accounts -> Int]
           /\ p.op = "deposit" => CreditPosted(d)
           /\ p.op = "reverse" => ReversalPosted(d)
<1> USE DEF IndInv, CreditPosted, ReversalPosted
<1>1. Ldg!TagsOf(p.ref) = {j \in journal : j.ref = p.ref}
  BY DEF Ldg!TagsOf, Ldg!Tagged, BooksAreDeposits, NoRef
<1>2. CASE Ldg!TagsOf(p.ref) # {}
  <2>1. UNCHANGED ledger
    BY <1>2 DEF PostOnce
  <2>2. p.op = "deposit" => Credits(d) # {}
    BY <1>1, <1>2, TaggedFacts
  <2>3. p.op = "reverse" => Reversals(d) # {}
    BY <1>1, <1>2, TaggedFacts
  <2> QED BY <2>1, <2>2, <2>3, BooksStay DEF TypeOK, ledger
<1>3. CASE Ldg!TagsOf(p.ref) = {}
  <2> DEFINE rec == Ldg!Record(Cardinality(journal) + 1, p)
  <2>1. journal' = journal \cup {rec} /\ rows' = rows /\ sum' = Ldg!Moved(sum, p)
    BY <1>3 DEF PostOnce, Ldg!Post
  <2>2. rec.ref = p.ref /\ rec.op = p.op /\ rec.to = p.to /\ rec.amount = p.amount
    BY DEF Ldg!Record
  <2> HIDE DEF rec
  <2>3. \A j \in journal : j.ref # rec.ref
    BY <1>1, <1>3, <2>2
  <2>4. BooksAreDeposits'
    BY <2>1, <2>2, <2>3 DEF BooksAreDeposits
  <2>5. sum' \in [Accounts -> Int]
    BY <2>1, DepositsAssumption DEF TypeOK, Ldg!Moved
  <2>6. \A j \in journal' : j.ref \in Refs
    BY <2>1, <2>2, TaggedFacts DEF TypeOK
  <2>7. \A x \in Deposits :
          /\ Credits(x)' = {j \in journal' : j.ref = <<"credit", x>>}
          /\ Reversals(x)' = {j \in journal' : j.ref = <<"reversal", x>>}
    BY DEF Credits, Reversals, Ldg!Tagged, NoRef
  <2>8. \A x \in Deposits : ~(x = d /\ p.op = "deposit") => Credits(x)' = Credits(x)
    <3> SUFFICES ASSUME NEW x \in Deposits, ~(x = d /\ p.op = "deposit")
                 PROVE  Credits(x)' = Credits(x)
      OBVIOUS
    <3>1. rec.ref # <<"credit", x>>
      BY <2>2
    <3> QED BY <2>1, <2>7, <3>1, TaggedFacts, ZenonT(40)
  <2>9. \A x \in Deposits : ~(x = d /\ p.op = "reverse") => Reversals(x)' = Reversals(x)
    <3> SUFFICES ASSUME NEW x \in Deposits, ~(x = d /\ p.op = "reverse")
                 PROVE  Reversals(x)' = Reversals(x)
      OBVIOUS
    <3>1. rec.ref # <<"reversal", x>>
      BY <2>2
    <3>2. Reversals(x) = {j \in journal : j.ref = <<"reversal", x>>}
      BY TaggedFacts
    <3> QED BY <2>1, <2>7, <3>1, <3>2
  <2>10. p.op = "deposit" => Credits(d)' # {}
    BY <2>1, <2>2, <2>7
  <2>11. p.op = "reverse" => Reversals(d)' # {}
    BY <2>1, <2>2, <2>7
  <2> QED BY <2>1, <2>4, <2>5, <2>6, <2>8, <2>9, <2>10, <2>11
<1> QED BY <1>2, <1>3

\* A posting step of the ledger, with the tables and Stripe as they are.
LEMMA PostingStep ==
    ASSUME IndInv, NEW d \in Deposits, UNCHANGED <<table, cpc, stripe, processed>>,
           \/ Paid(d) /\ CreditPosted(d)
           \/ Credits(d) # {} /\ d \in refunded /\ ReversalPosted(d)
    PROVE  BooksFollowStripe' /\ StripeIsTruthful' /\ StatusIsBacked' /\ Kept
<1> USE DEF IndInv, CreditPosted, ReversalPosted
<1>1. \A x \in Deposits : Paid(x)' = Paid(x)
  BY DEF Paid, stripe
<1>2. BooksFollowStripe'
  BY <1>1 DEF BooksFollowStripe, stripe
<1>3. StripeIsTruthful' /\ StatusIsBacked'
  BY <1>1 DEF StripeIsTruthful, StatusIsBacked, stripe, table
<1>4. Kept
  BY <1>1 DEF Kept, stripe, table
<1> QED BY <1>2, <1>3, <1>4

\* A refund handler reads the status of a deposit whose charge was refunded.
LEMMA ReadRefundedIndInv ==
    ASSUME IndInv, NEW w \in Webhooks, NEW d \in Deposits, ReadRefunded(w, d)
    PROVE  IndInv'
<1> USE DEF IndInv
<1>1. UNCHANGED <<ledger, table, cpc, stripe, processed, worker>>
  BY DEF ReadRefunded
<1>2. StatusIsBacked'
  BY <1>1, BooksStay DEF StatusIsBacked, Paid, stripe, table
<1>3. /\ status' \in [Deposits -> Statuses] /\ reason' \in [Deposits -> Reasons]
      /\ outbox' \in [Deposits -> Nat] /\ \A x \in Deposits : outbox[x] <= outbox'[x]
      /\ stale' \subseteq Deposits /\ processed' \subseteq sent /\ intent' = intent
  BY <1>1 DEF TypeOK, table
<1>4. BooksAreDeposits' /\ BooksFollowStripe' /\ StripeIsTruthful' /\ Kept
  BY <1>1, <1>2, <1>3, TableStep
<1>5. TypeOK'
  BY <1>1 DEF ReadRefunded, TypeOK, ledger, table, stripe, worker, Statuses, None
<1>6. WebhooksHold'
  <2>1. /\ wpc' = [wpc EXCEPT ![w] = "decide"] /\ wdep' = [wdep EXCEPT ![w] = d]
        /\ wseen' = [wseen EXCEPT ![w] = IF d \in intent THEN status[d] ELSE None]
        /\ <<d, "charge_refunded">> \in sent
    BY DEF ReadRefunded
  <2>2. wseen'[w] = "credited" => status[d] = "credited"
    BY <2>1 DEF TypeOK, None
  <2>3. wseen'[w] = "credited" => Credits(d) # {} /\ outbox[d] > 0
    BY <2>2 DEF StatusIsBacked
  <2> QED BY <1>1, <2>1, <2>3, <1>4 DEF TypeOK, WebhooksHold, Kept, stripe, table
<1> QED BY <1>1, <1>2, <1>4, <1>5, <1>6, WorkersStay

\* The reversal is of a credit that stands, for a refund Stripe made.
LEMMA ReverseDepositIndInv ==
    ASSUME IndInv, NEW w \in Webhooks, ReverseDeposit(w)
    PROVE  IndInv'
<1> DEFINE d == wdep[w]
           p == [op |-> "reverse", from |-> Owner[d], to |-> Genesis,
                 amount |-> Amount[d], ref |-> reversalReference(d)]
<1> USE DEF IndInv
<1>1. /\ wpc[w] = "decide" /\ wseen[w] = "credited" /\ PostOnce(p)
      /\ wpc' = [wpc EXCEPT ![w] = "record"]
      /\ UNCHANGED <<wdep, wseen, table, cpc, stripe, processed, worker>>
  BY DEF ReverseDeposit
<1>2. d \in Deposits /\ d \in refunded /\ Credits(d) # {} /\ outbox[d] > 0
  BY <1>1 DEF WebhooksHold, StripeIsTruthful
<1>3. p.op = "reverse" /\ p.ref = <<"reversal", d>> /\ p.amount = Amount[d]
  BY DEF reversalReference
<1> HIDE DEF d, p
<1>4. /\ BooksAreDeposits' /\ \A j \in journal' : j.ref \in Refs
      /\ rows' = rows /\ sum' \in [Accounts -> Int]
      /\ ReversalPosted(d)
  BY <1>1, <1>2, <1>3, PostOnceFacts
<1>5. BooksFollowStripe' /\ StripeIsTruthful' /\ StatusIsBacked' /\ Kept
  BY <1>1, <1>2, <1>4, PostingStep
<1>6. TypeOK'
  BY <1>1, <1>4 DEF TypeOK, table, stripe, worker
<1>7. WebhooksHold'
  BY <1>1, <1>4, <1>5 DEF TypeOK, WebhooksHold, Kept, ReversalPosted, table, d
<1> QED BY <1>1, <1>4, <1>5, <1>6, <1>7, WorkersStay

\* The record of a refund; a deposit is only shown refunded once reversed.
LEMMA RecordRefundedIndInv ==
    ASSUME IndInv, NEW w \in Webhooks, RecordRefunded(w)
    PROVE  IndInv'
<1> DEFINE d == wdep[w]
<1> USE DEF IndInv
<1>1. /\ wpc[w] = "record" \/ (wpc[w] = "decide" /\ wseen[w] # "credited")
      /\ processed' = processed \cup {<<d, "charge_refunded">>}
      /\ HandlerDone(w)
      /\ UNCHANGED <<ledger, cpc, stripe, worker, payment>>
      /\ \/ UNCHANGED table
         \/ wseen[w] = "credited" /\ Write(d, "refunded", None)
         \/ Write(d, "failed", "refunded_before_credit")
  BY DEF RecordRefunded, stripe
<1>2. d \in Deposits /\ <<d, "charge_refunded">> \in sent
  BY <1>1 DEF WebhooksHold
<1>3. wseen[w] = "credited" => Credits(d) # {} /\ Reversals(d) # {} /\ outbox[d] > 0
  BY <1>1 DEF WebhooksHold
<1>4. /\ StatusIsBacked'
      /\ status' \in [Deposits -> Statuses]
      /\ reason' \in [Deposits -> Reasons]
      /\ intent' = intent /\ outbox' = outbox
      /\ stale' \subseteq stale
  <2>1. CASE UNCHANGED table
    BY <1>1, <2>1, BooksStay DEF TypeOK, table, StatusIsBacked, Paid
  <2>2. CASE wseen[w] = "credited" /\ Write(d, "refunded", None)
    <3>1. "refunded" \in Statuses /\ None \in Reasons
      BY DEF Statuses, Reasons
    <3> HIDE DEF d
    <3> QED BY <1>1, <1>2, <1>3, <2>2, <3>1, WriteFacts
  <2>3. CASE Write(d, "failed", "refunded_before_credit")
    <3>1. "failed" \in Statuses /\ "refunded_before_credit" \in Reasons
      BY DEF Statuses, Reasons
    <3> HIDE DEF d
    <3> QED BY <1>1, <1>2, <2>3, <3>1, WriteFacts
  <2> QED BY <1>1, <2>1, <2>2, <2>3
<1>5. /\ stale' \subseteq Deposits /\ \A x \in Deposits : outbox[x] <= outbox'[x]
      /\ outbox' \in [Deposits -> Nat] /\ processed' \subseteq sent
  BY <1>1, <1>2, <1>4 DEF TypeOK
<1>6. BooksAreDeposits' /\ BooksFollowStripe' /\ StripeIsTruthful' /\ Kept
  BY <1>1, <1>4, <1>5, TableStep
<1>7. TypeOK'
  BY <1>1, <1>4, <1>5 DEF TypeOK, HandlerDone, ledger, stripe, worker, Statuses
<1>8. WebhooksHold'
  BY <1>1, <1>6 DEF TypeOK, WebhooksHold, HandlerDone, Kept
<1> QED BY <1>1, <1>4, <1>6, <1>7, <1>8, WorkersStay

\* An error or a crash forgets what the handler knew.
LEMMA WebhookFailsIndInv ==
    ASSUME IndInv, NEW w \in Webhooks, WebhookFails(w)
    PROVE  IndInv'
<1> USE DEF IndInv
<1>1. UNCHANGED <<ledger, table, cpc, stripe, processed, worker>> /\ HandlerDone(w)
  BY DEF WebhookFails
<1>2. StatusIsBacked'
  BY <1>1, BooksStay DEF StatusIsBacked, Paid, stripe, table
<1>3. /\ status' \in [Deposits -> Statuses] /\ reason' \in [Deposits -> Reasons]
      /\ outbox' \in [Deposits -> Nat] /\ \A x \in Deposits : outbox[x] <= outbox'[x]
      /\ stale' \subseteq Deposits /\ processed' \subseteq sent /\ intent' = intent
  BY <1>1 DEF TypeOK, table
<1>4. BooksAreDeposits' /\ BooksFollowStripe' /\ StripeIsTruthful' /\ Kept
  BY <1>1, <1>2, <1>3, TableStep
<1>5. TypeOK'
  BY <1>1 DEF HandlerDone, TypeOK, ledger, table, stripe, worker, Statuses
<1>6. WebhooksHold'
  BY <1>1, <1>4 DEF TypeOK, WebhooksHold, HandlerDone, Kept
<1> QED BY <1>1, <1>2, <1>4, <1>5, <1>6, WorkersStay

-----------------------------------------------------------------------------
\* A worker's step that writes no table and posts nothing.
LEMMA WorkerReads ==
    ASSUME IndInv, UNCHANGED <<ledger, table, cpc, stripe, processed, webhook>>,
           rpc' \in [Workers -> {"idle", "credit", "mark", "poll", "resolve", "sweep"}],
           todo' \in [Workers -> SUBSET Deposits],
           current' \in [Workers -> Deposits \cup {None}],
           answer' \in [Workers -> {None, "open", "succeeded", "canceled"}],
           WorkersHold'
    PROVE  IndInv'
<1> USE DEF IndInv
<1>1. StatusIsBacked'
  BY BooksStay DEF StatusIsBacked, Paid, stripe, table
<1>2. /\ status' \in [Deposits -> Statuses] /\ reason' \in [Deposits -> Reasons]
      /\ outbox' \in [Deposits -> Nat] /\ \A x \in Deposits : outbox[x] <= outbox'[x]
      /\ stale' \subseteq Deposits /\ processed' \subseteq sent /\ intent' = intent
  BY DEF TypeOK, table
<1>3. BooksAreDeposits' /\ BooksFollowStripe' /\ StripeIsTruthful' /\ Kept
  BY <1>1, <1>2, TableStep
<1>4. TypeOK'
  BY DEF TypeOK, ledger, table, stripe, webhook
<1> QED BY <1>1, <1>3, <1>4, WebhooksStay

\* Listing, polling, skipping and restarting: a list is of rows that are paid
\* where it matters, and Stripe's answer is kept with its row.
LEMMA WorkerReadsIndInv ==
    ASSUME IndInv, NEW r \in Workers,
           \/ ListSucceeded(r) \/ ListPending(r) \/ RetrieveIntent(r)
           \/ ListOrphans(r) \/ EndTick(r) \/ SkipRow(r) \/ RestartWorker(r)
    PROVE  IndInv'
<1> USE DEF IndInv
<1>1. UNCHANGED <<ledger, table, cpc, stripe, processed, webhook>>
  BY DEF ListSucceeded, ListPending, RetrieveIntent, ListOrphans, EndTick, SkipRow,
         RestartWorker
<1>2. \A x \in Deposits : Paid(x)' = Paid(x) /\ Credits(x)' = Credits(x)
  BY <1>1, BooksStay DEF Paid, stripe
<1>3. /\ rpc' \in [Workers -> {"idle", "credit", "mark", "poll", "resolve", "sweep"}]
      /\ todo' \in [Workers -> SUBSET Deposits]
      /\ current' \in [Workers -> Deposits \cup {None}]
      /\ answer' \in [Workers -> {None, "open", "succeeded", "canceled"}]
      /\ WorkersHold'
  <2> USE <1>2 DEF TypeOK, GoOn, NoCurrent
  <2>1. CASE ListSucceeded(r)
    BY <2>1 DEF ListSucceeded, WorkersHold, StatusIsBacked
  <2>2. CASE ListPending(r)
    BY <2>2 DEF ListPending, WorkersHold
  <2>3. CASE RetrieveIntent(r)
    <3>1. PICK d \in todo[r] : /\ current' = [current EXCEPT ![r] = d]
                               /\ answer' = [answer EXCEPT ![r] = payment[d]]
                               /\ todo' = [todo EXCEPT ![r] = todo[r] \ {d}]
      BY <2>3 DEF RetrieveIntent
    <3>2. d \in Deposits /\ rpc' = [rpc EXCEPT ![r] = "resolve"]
      BY <2>3 DEF RetrieveIntent
    <3> QED BY <3>1, <3>2 DEF WorkersHold, Paid
  <2>4. CASE ListOrphans(r)
    BY <2>4 DEF ListOrphans, WorkersHold
  <2>5. CASE EndTick(r)
    BY <2>5 DEF EndTick, WorkersHold
  <2>6. CASE SkipRow(r)
    <3>1. CASE rpc[r] \in {"credit", "poll", "sweep"} /\
               \E d \in todo[r] : GoOn(r, rpc[r], todo[r] \ {d})
      <4>1. PICK d \in todo[r] : /\ rpc' = [rpc EXCEPT ![r] = rpc[r]]
                                 /\ todo' = [todo EXCEPT ![r] = todo[r] \ {d}]
        BY <3>1
      <4>2. /\ current' = [current EXCEPT ![r] = None]
            /\ answer' = [answer EXCEPT ![r] = None]
        BY <2>6 DEF SkipRow
      <4>3. /\ rpc' = rpc /\ \A x \in Workers : todo'[x] \subseteq todo[x]
            /\ \A x \in Workers : x # r => current'[x] = current[x] /\ answer'[x] = answer[x]
        BY <4>1, <4>2
      <4>4. WorkersHold /\ \A x \in Workers : todo[x] \subseteq Deposits
        OBVIOUS
      <4>5. WorkersHold'
        <5> HIDE DEF IndInv, TypeOK
        <5> QED BY <1>2, <3>1, <4>3, <4>4 DEF WorkersHold
      <4> QED BY <4>1, <4>2, <4>5
    <3>2. CASE rpc[r] = "mark" /\ GoOn(r, "credit", todo[r])
      BY <2>6, <3>2 DEF SkipRow, WorkersHold
    <3>3. CASE rpc[r] = "resolve" /\ GoOn(r, "poll", todo[r])
      BY <2>6, <3>3 DEF SkipRow, WorkersHold
    <3> QED BY <2>6, <3>1, <3>2, <3>3 DEF SkipRow
  <2>7. CASE RestartWorker(r)
    BY <2>7 DEF RestartWorker, WorkersHold
  <2> QED BY <2>1, <2>2, <2>3, <2>4, <2>5, <2>6, <2>7
<1> QED BY <1>1, <1>3, WorkerReads

\* The credit is of a deposit that was listed as paid.
LEMMA CreditDepositIndInv ==
    ASSUME IndInv, NEW r \in Workers, CreditDeposit(r)
    PROVE  IndInv'
<1> USE DEF IndInv
<1>1. PICK d \in todo[r] :
         /\ PostOnce([op |-> "deposit", from |-> Genesis, to |-> Owner[d],
                      amount |-> Amount[d], ref |-> <<"credit", d>>])
         /\ current' = [current EXCEPT ![r] = d]
         /\ GoOn(r, "mark", todo[r] \ {d})
  BY DEF CreditDeposit
<1>2. /\ UNCHANGED <<table, cpc, stripe, processed, webhook, answer>>
      /\ rpc[r] = "credit"
  BY DEF CreditDeposit
<1>3. d \in Deposits /\ Paid(d)
  BY <1>2 DEF TypeOK, WorkersHold
<1> DEFINE p == [op |-> "deposit", from |-> Genesis, to |-> Owner[d],
                 amount |-> Amount[d], ref |-> <<"credit", d>>]
<1>4. /\ p.op = "deposit" /\ p.ref = <<"credit", d>> /\ p.to = Owner[d]
      /\ p.amount = Amount[d] /\ PostOnce(p)
  BY <1>1
<1> HIDE DEF p
<1>5. /\ BooksAreDeposits' /\ \A j \in journal' : j.ref \in Refs
      /\ rows' = rows /\ sum' \in [Accounts -> Int]
      /\ CreditPosted(d)
  BY <1>3, <1>4, PostOnceFacts
<1>6. BooksFollowStripe' /\ StripeIsTruthful' /\ StatusIsBacked' /\ Kept
  BY <1>2, <1>3, <1>5, PostingStep
<1>7. TypeOK'
  BY <1>1, <1>2, <1>3, <1>5 DEF TypeOK, GoOn, table, stripe, webhook
<1>8. WorkersHold'
  BY <1>1, <1>2, <1>3, <1>5, <1>6 DEF TypeOK, WorkersHold, GoOn, Kept, CreditPosted
<1> QED BY <1>2, <1>5, <1>6, <1>7, <1>8, WebhooksStay

\* The three writes of a worker: the row it holds, or nothing.
LEMMA WorkerWrites ==
    ASSUME IndInv, NEW r \in Workers,
           UNCHANGED <<ledger, cpc, stripe, processed, webhook>>,
           StatusIsBacked',
           status' \in [Deposits -> Statuses],
           reason' \in [Deposits -> Reasons],
           intent' = intent,
           outbox' \in [Deposits -> Nat],
           \A x \in Deposits : outbox[x] <= outbox'[x],
           stale' \subseteq Deposits,
           rpc' \in [Workers -> {"idle", "credit", "mark", "poll", "resolve", "sweep"}],
           todo' \in [Workers -> SUBSET Deposits],
           current' \in [Workers -> Deposits \cup {None}],
           answer' \in [Workers -> {None, "open", "succeeded", "canceled"}],
           Kept => WorkersHold'
    PROVE  IndInv'
<1> USE DEF IndInv
<1>1. processed' \subseteq sent
  BY DEF TypeOK
<1>2. BooksAreDeposits' /\ BooksFollowStripe' /\ StripeIsTruthful' /\ Kept
  BY <1>1, TableStep
<1>3. TypeOK'
  BY DEF TypeOK, ledger, stripe, webhook
<1> QED BY <1>2, <1>3, WebhooksStay

\* A deposit is marked credited by the worker whose posting is in the ledger.
LEMMA MarkCreditedIndInv ==
    ASSUME IndInv, NEW r \in Workers, MarkCredited(r)
    PROVE  IndInv'
<1> DEFINE d == current[r]
<1> USE DEF IndInv
<1>1. /\ rpc[r] = "mark" /\ GoOn(r, "credit", todo[r]) /\ NoCurrent(r)
      /\ UNCHANGED <<ledger, cpc, stripe, processed, webhook>>
  BY DEF MarkCredited
<1>2. d \in Deposits /\ Credits(d) # {}
  BY <1>1 DEF WorkersHold
<1>3. /\ \A x \in Deposits : Credits(x)' = Credits(x) /\ Reversals(x)' = Reversals(x)
      /\ \A x \in Deposits : Paid(x)' = Paid(x)
  BY <1>1, BooksStay DEF Paid, stripe
<1>4. /\ rpc' \in [Workers -> {"idle", "credit", "mark", "poll", "resolve", "sweep"}]
      /\ todo' \in [Workers -> SUBSET Deposits]
      /\ current' \in [Workers -> Deposits \cup {None}]
      /\ answer' \in [Workers -> {None, "open", "succeeded", "canceled"}]
      /\ Kept => WorkersHold'
  BY <1>1 DEF TypeOK, GoOn, NoCurrent, WorkersHold, Kept
<1>5. /\ StatusIsBacked'
      /\ status' \in [Deposits -> Statuses] /\ reason' \in [Deposits -> Reasons]
      /\ intent' = intent /\ outbox' \in [Deposits -> Nat]
      /\ \A x \in Deposits : outbox[x] <= outbox'[x]
      /\ stale' \subseteq Deposits
  <2>1. CASE status[d] = "succeeded"
    <3>1. /\ status' = [status EXCEPT ![d] = "credited"]
          /\ stale' = stale \ {d}
          /\ outbox' = [outbox EXCEPT ![d] = @ + 1]
          /\ UNCHANGED <<reason, intent>>
      BY <2>1 DEF MarkCredited
    <3> HIDE DEF d
    <3> QED BY <1>2, <1>3, <3>1 DEF TypeOK, Statuses, StatusIsBacked
  <2>2. CASE status[d] # "succeeded"
    <3>1. UNCHANGED table
      BY <2>2 DEF MarkCredited
    <3> QED BY <1>3, <3>1 DEF TypeOK, table, StatusIsBacked
  <2> QED BY <2>1, <2>2
<1> QED BY <1>1, <1>4, <1>5, WorkerWrites

\* A pending deposit is resolved as Stripe said; a payment stays one.
LEMMA ResolvePendingIndInv ==
    ASSUME IndInv, NEW r \in Workers, ResolvePending(r)
    PROVE  IndInv'
<1> DEFINE d == current[r]
<1> USE DEF IndInv
<1>1. /\ rpc[r] = "resolve" /\ GoOn(r, "poll", todo[r]) /\ NoCurrent(r)
      /\ UNCHANGED <<ledger, cpc, stripe, processed, webhook, payment>>
  BY DEF ResolvePending, stripe
<1>2. d \in Deposits /\ (answer[r] = "succeeded" => Paid(d))
  BY <1>1 DEF WorkersHold
<1>3. /\ rpc' \in [Workers -> {"idle", "credit", "mark", "poll", "resolve", "sweep"}]
      /\ todo' \in [Workers -> SUBSET Deposits]
      /\ current' \in [Workers -> Deposits \cup {None}]
      /\ answer' \in [Workers -> {None, "open", "succeeded", "canceled"}]
      /\ Kept => WorkersHold'
  BY <1>1 DEF TypeOK, GoOn, NoCurrent, WorkersHold, Kept
<1>4. \/ UNCHANGED table
      \/ answer[r] = "succeeded" /\ Write(d, "succeeded", reason[d])
      \/ Write(d, "failed", "canceled")
  BY DEF ResolvePending, Resolved
<1> HIDE DEF d
<1>5. /\ StatusIsBacked'
      /\ status' \in [Deposits -> Statuses] /\ reason' \in [Deposits -> Reasons]
      /\ intent' = intent /\ outbox' = outbox
      /\ stale' \subseteq stale
  <2>1. CASE UNCHANGED table
    BY <1>1, <2>1, BooksStay DEF TypeOK, table, StatusIsBacked, Paid
  <2>2. CASE answer[r] = "succeeded" /\ Write(d, "succeeded", reason[d])
    <3>1. "succeeded" \in Statuses /\ reason[d] \in Reasons
      BY <1>2 DEF Statuses, TypeOK
    <3> QED BY <1>1, <1>2, <2>2, <3>1, WriteFacts
  <2>3. CASE Write(d, "failed", "canceled")
    <3>1. "failed" \in Statuses /\ "canceled" \in Reasons
      BY DEF Statuses, Reasons
    <3> QED BY <1>1, <1>2, <2>3, <3>1, WriteFacts
  <2> QED BY <1>4, <2>1, <2>2, <2>3
<1>6. /\ outbox' \in [Deposits -> Nat]
      /\ \A x \in Deposits : outbox[x] <= outbox'[x]
      /\ stale' \subseteq Deposits
  BY <1>5 DEF TypeOK
<1> QED BY <1>1, <1>3, <1>5, <1>6, WorkerWrites

\* The sweep fails deposits without an intent.
LEMMA SweepOrphanIndInv ==
    ASSUME IndInv, NEW r \in Workers, SweepOrphan(r)
    PROVE  IndInv'
<1> USE DEF IndInv
<1>1. PICK d \in todo[r] : FailIfOrphaned(d) /\ GoOn(r, "sweep", todo[r] \ {d})
  BY DEF SweepOrphan
<1>2. /\ rpc[r] = "sweep" /\ d \in Deposits
      /\ UNCHANGED <<ledger, cpc, stripe, processed, webhook, current, answer, payment>>
  BY DEF SweepOrphan, TypeOK, stripe
<1>3. /\ rpc' \in [Workers -> {"idle", "credit", "mark", "poll", "resolve", "sweep"}]
      /\ todo' \in [Workers -> SUBSET Deposits]
      /\ current' \in [Workers -> Deposits \cup {None}]
      /\ answer' \in [Workers -> {None, "open", "succeeded", "canceled"}]
      /\ Kept => WorkersHold'
  BY <1>1, <1>2 DEF TypeOK, GoOn, WorkersHold, Kept
<1>4. /\ StatusIsBacked'
      /\ status' \in [Deposits -> Statuses] /\ reason' \in [Deposits -> Reasons]
      /\ intent' = intent /\ outbox' = outbox
      /\ stale' \subseteq stale
  <2>1. CASE UNCHANGED table
    BY <1>2, <2>1, BooksStay DEF TypeOK, table, StatusIsBacked, Paid
  <2>2. CASE Write(d, "failed", "abandoned")
    <3>1. "failed" \in Statuses /\ "abandoned" \in Reasons
      BY DEF Statuses, Reasons
    <3> QED BY <1>2, <2>2, <3>1, WriteFacts
  <2> QED BY <1>1, <2>1, <2>2 DEF FailIfOrphaned
<1>5. /\ outbox' \in [Deposits -> Nat]
      /\ \A x \in Deposits : outbox[x] <= outbox'[x]
      /\ stale' \subseteq Deposits
  BY <1>4 DEF TypeOK
<1> QED BY <1>2, <1>3, <1>4, <1>5, WorkerWrites

-----------------------------------------------------------------------------
\* Every step preserves the inductive invariant.
LEMMA NextIndInv == IndInv /\ [Next]_vars => IndInv'
<1> SUFFICES ASSUME IndInv, [Next]_vars PROVE IndInv'
  OBVIOUS
<1>1. ASSUME NEW d \in Deposits,
             \/ CreateStep(d) \/ StripeStep(d) \/ DepositSucceeded(d)
             \/ DepositFailed(d) \/ GrowStale(d)
      PROVE  IndInv'
  BY <1>1, CreateIndInv, StripeIndInv, PaymentEventIndInv, GrowStaleIndInv
<1>2. ASSUME NEW w \in Webhooks, WebhookStep(w) PROVE IndInv'
  BY <1>2, ReadRefundedIndInv, ReverseDepositIndInv, RecordRefundedIndInv,
     WebhookFailsIndInv DEF WebhookStep
<1>3. ASSUME NEW r \in Workers, WorkerStep(r) PROVE IndInv'
  BY <1>3, WorkerReadsIndInv, CreditDepositIndInv, MarkCreditedIndInv,
     ResolvePendingIndInv, SweepOrphanIndInv DEF WorkerStep
<1>4. CASE UNCHANGED vars
  <2>1. /\ UNCHANGED <<ledger, table, cpc, stripe, processed, webhook>>
        /\ UNCHANGED worker
    BY <1>4 DEF vars
  <2>2. Kept
    BY <2>1, BooksStay DEF Kept, Paid, stripe, table
  <2>3. WorkersHold'
    BY <2>1, <2>2, WorkersStay
  <2> QED BY <2>1, <2>3, WorkerReads DEF worker, IndInv, TypeOK
<1> QED BY <1>1, <1>2, <1>3, <1>4 DEF Next

\* The inductive invariant holds of every reachable state.
THEOREM SpecIndInv == Spec => []IndInv
  BY InitIndInv, NextIndInv, PTL DEF Spec

\* A set whose members are all equal has at most one.
LEMMA AtMostOne ==
    ASSUME NEW S, \A x, y \in S : x = y
    PROVE  Cardinality(S) <= 1
<1>1. CASE S = {}
  BY <1>1, FS_EmptySet
<1>2. CASE S # {}
  <2>1. PICK x : x \in S
    BY <1>2
  <2>2. S = {x}
    BY <2>1
  <2> QED BY <2>2, FS_Singleton
<1> QED BY <1>1, <1>2

\* The events of a deposit, by its status and by what the webhook has reported: a
\* deposit turns 'succeeded' once from 'pending' and once by the webhook.
Announced ==
    \A d \in Deposits :
        /\ cpc[d] = None \/ status[d] = "pending" => outbox[d] = 0
        /\ outbox[d] <= 2
        /\ status[d] = "succeeded" => outbox[d] <= 1
        /\ <<d, "succeeded">> \notin processed =>
              outbox[d] <= 1 /\ (status[d] = "succeeded" => outbox[d] = 0)

\* A step that queues nothing, when the statuses it writes are neither 'pending'
\* nor 'succeeded'.
LEMMA AnnouncedStays ==
    ASSUME IndInv, Announced, UNCHANGED outbox, processed \subseteq processed',
           \A d \in Deposits : cpc'[d] = None => cpc[d] = None,
           \A d \in Deposits : status'[d] \in {"pending", "succeeded"} => status'[d] = status[d]
    PROVE  Announced'
  BY DEF Announced, IndInv, TypeOK

\* Every step keeps the count of the events.
LEMMA AnnouncedStep == IndInv /\ Announced /\ [Next]_vars => Announced'
<1> SUFFICES ASSUME IndInv, Announced, [Next]_vars PROVE Announced'
  OBVIOUS
<1>1. /\ status \in [Deposits -> Statuses] /\ outbox \in [Deposits -> Nat]
      /\ cpc \in [Deposits -> {None, "calling", "attach", "returned", "dead"}]
  BY DEF IndInv, TypeOK
<1>2. ASSUME NEW d \in Deposits, CreateStep(d) PROVE Announced'
  <2>1. UNCHANGED <<outbox, processed>>
    BY <1>2 DEF CreateStep, InsertDeposit, CreateIntent, AttachIntent, CreateDies, table
  <2>2. CASE InsertDeposit(d)
    <3>1. /\ cpc[d] = None /\ status' = [status EXCEPT ![d] = "pending"]
          /\ cpc' = [cpc EXCEPT ![d] = "calling"]
      BY <2>2 DEF InsertDeposit
    <3>2. outbox[d] = 0
      BY <3>1 DEF Announced
    <3> QED BY <1>1, <2>1, <3>1, <3>2 DEF Announced
  <2>3. CASE CreateIntent(d) \/ AttachIntent(d) \/ CreateDies(d)
    <3>1. UNCHANGED status /\ \A x \in Deposits : cpc'[x] = None => cpc[x] = None
      BY <1>1, <2>3 DEF CreateIntent, AttachIntent, CreateDies, table, None
    <3> QED BY <2>1, <3>1, AnnouncedStays
  <2> QED BY <1>2, <2>2, <2>3 DEF CreateStep
<1>3. ASSUME NEW d \in Deposits, StripeStep(d) \/ GrowStale(d) PROVE Announced'
  <2>1. UNCHANGED <<status, outbox, cpc, processed>>
    BY <1>3 DEF StripeStep, Decline, Pay, Cancel, Refund, StripeSays, GrowStale, table
  <2> QED BY <2>1, AnnouncedStays
<1>4. ASSUME NEW d \in Deposits, DepositSucceeded(d) PROVE Announced'
  <2>1. /\ <<d, "succeeded">> \notin processed
        /\ processed' = processed \cup {<<d, "succeeded">>}
        /\ UNCHANGED <<outbox, cpc>>
        /\ UNCHANGED status \/ (d \in intent /\ status' = [status EXCEPT ![d] = "succeeded"])
    BY <1>4 DEF DepositSucceeded, Write, table
  <2>2. CASE UNCHANGED status
    BY <2>1, <2>2, AnnouncedStays
  <2>3. CASE status' = [status EXCEPT ![d] = "succeeded"]
    <3>1. outbox[d] <= 1
      BY <2>1 DEF Announced
    <3>2. cpc[d] # None
      BY <1>4 DEF DepositSucceeded, IndInv, StripeIsTruthful, None
    <3>3. ASSUME NEW x \in Deposits
          PROVE  /\ cpc'[x] = None \/ status'[x] = "pending" => outbox'[x] = 0
                 /\ outbox'[x] <= 2
                 /\ status'[x] = "succeeded" => outbox'[x] <= 1
                 /\ <<x, "succeeded">> \notin processed' =>
                       outbox'[x] <= 1 /\ (status'[x] = "succeeded" => outbox'[x] = 0)
      <4>1. CASE x = d
        BY <1>1, <2>1, <2>3, <3>1, <3>2, <4>1
      <4>2. CASE x # d
        BY <1>1, <2>1, <2>3, <4>2 DEF Announced
      <4> QED BY <4>1, <4>2
    <3> QED BY <3>3 DEF Announced
  <2> QED BY <2>1, <2>2, <2>3
<1>5. ASSUME NEW d \in Deposits, DepositFailed(d) PROVE Announced'
  <2>1. /\ processed \subseteq processed' /\ UNCHANGED <<outbox, cpc>>
        /\ UNCHANGED status \/ status' = [status EXCEPT ![d] = "failed"]
    BY <1>5 DEF DepositFailed, Write, table
  <2> QED BY <1>1, <2>1, AnnouncedStays
<1>6. ASSUME NEW w \in Webhooks, WebhookStep(w) PROVE Announced'
  <2>1. CASE RecordRefunded(w)
    <3>1. /\ processed \subseteq processed' /\ UNCHANGED <<outbox, cpc>>
          /\ \/ UNCHANGED status
             \/ status' = [status EXCEPT ![wdep[w]] = "refunded"]
             \/ status' = [status EXCEPT ![wdep[w]] = "failed"]
      BY <2>1 DEF RecordRefunded, Write, table
    <3> QED BY <1>1, <3>1, AnnouncedStays
  <2>2. CASE ~RecordRefunded(w)
    <3>1. UNCHANGED <<status, outbox, cpc, processed>>
      BY <1>6, <2>2 DEF WebhookStep, ReadRefunded, ReverseDeposit, WebhookFails, table
    <3> QED BY <3>1, AnnouncedStays
  <2> QED BY <2>1, <2>2
<1>7. ASSUME NEW r \in Workers, WorkerStep(r) PROVE Announced'
  <2>1. UNCHANGED <<cpc, processed>>
    BY <1>7 DEF WorkerStep, ListSucceeded, CreditDeposit, MarkCredited, ListPending,
                RetrieveIntent, ResolvePending, ListOrphans, SweepOrphan, EndTick, SkipRow,
                RestartWorker
  <2>2. CASE MarkCredited(r) /\ status[current[r]] = "succeeded"
    <3> DEFINE d == current[r]
    <3>1. /\ status' = [status EXCEPT ![d] = "credited"]
          /\ outbox' = [outbox EXCEPT ![d] = @ + 1] /\ rpc[r] = "mark"
      BY <2>2 DEF MarkCredited
    <3>2. d \in Deposits /\ Paid(d)
      BY <2>2, <3>1 DEF IndInv, WorkersHold, StatusIsBacked
    <3>3. cpc[d] # None
      BY <3>2 DEF IndInv, StripeIsTruthful, None
    <3>4. outbox[d] <= 1 /\ (<<d, "succeeded">> \notin processed => outbox[d] = 0)
      BY <2>2, <3>2 DEF Announced
    <3> HIDE DEF d
    <3>5. ASSUME NEW x \in Deposits
          PROVE  /\ cpc'[x] = None \/ status'[x] = "pending" => outbox'[x] = 0
                 /\ outbox'[x] <= 2
                 /\ status'[x] = "succeeded" => outbox'[x] <= 1
                 /\ <<x, "succeeded">> \notin processed' =>
                       outbox'[x] <= 1 /\ (status'[x] = "succeeded" => outbox'[x] = 0)
      <4>1. CASE x = d
        BY <1>1, <2>1, <3>1, <3>3, <3>4, <4>1
      <4>2. CASE x # d
        BY <1>1, <2>1, <3>1, <4>2 DEF Announced
      <4> QED BY <4>1, <4>2
    <3> QED BY <3>5 DEF Announced
  <2>3. CASE ResolvePending(r)
    <3> DEFINE d == current[r]
    <3>1. UNCHANGED outbox
      BY <2>3 DEF ResolvePending, Resolved, Write, table
    <3>2. \/ UNCHANGED status
          \/ status' = [status EXCEPT ![d] = "failed"]
          \/ status[d] = "pending" /\ status' = [status EXCEPT ![d] = "succeeded"]
      BY <2>3 DEF ResolvePending, Resolved, Write, table
    <3> HIDE DEF d
    <3>3. CASE UNCHANGED status \/ status' = [status EXCEPT ![d] = "failed"]
      BY <1>1, <2>1, <3>1, <3>3, AnnouncedStays
    <3>4. CASE status[d] = "pending" /\ status' = [status EXCEPT ![d] = "succeeded"]
      <4>1. ASSUME NEW x \in Deposits
            PROVE  /\ cpc'[x] = None \/ status'[x] = "pending" => outbox'[x] = 0
                   /\ outbox'[x] <= 2
                   /\ status'[x] = "succeeded" => outbox'[x] <= 1
                   /\ <<x, "succeeded">> \notin processed' =>
                         outbox'[x] <= 1 /\ (status'[x] = "succeeded" => outbox'[x] = 0)
        <5>1. CASE x = d
          <6>1. outbox[x] = 0
            BY <3>4, <5>1 DEF Announced
          <6> QED BY <1>1, <2>1, <3>1, <3>4, <5>1, <6>1
        <5>2. CASE x # d
          <6>1. status'[x] = status[x]
            BY <1>1, <3>4, <5>2
          <6> QED BY <2>1, <3>1, <6>1 DEF Announced
        <5> QED BY <5>1, <5>2
      <4> QED BY <4>1 DEF Announced
    <3> QED BY <3>2, <3>3, <3>4
  <2>4. CASE SweepOrphan(r)
    <3>1. UNCHANGED outbox
          /\ (UNCHANGED status \/ \E d \in todo[r] : status' = [status EXCEPT ![d] = "failed"])
      BY <2>4 DEF SweepOrphan, FailIfOrphaned, Write, table
    <3>2. \A x \in Deposits : status'[x] \in {"pending", "succeeded"} => status'[x] = status[x]
      BY <1>1, <3>1
    <3> QED BY <2>1, <3>1, <3>2, AnnouncedStays
  <2>5. CASE /\ ~(MarkCredited(r) /\ status[current[r]] = "succeeded")
             /\ ~ResolvePending(r) /\ ~SweepOrphan(r)
    <3>1. UNCHANGED <<status, outbox>>
      BY <1>7, <2>5 DEF WorkerStep, ListSucceeded, CreditDeposit, MarkCredited, ListPending,
                        RetrieveIntent, ListOrphans, EndTick, SkipRow, RestartWorker, table
    <3> QED BY <2>1, <3>1, AnnouncedStays
  <2> QED BY <2>2, <2>3, <2>4, <2>5
<1>8. CASE UNCHANGED vars
  <2>1. UNCHANGED <<status, outbox, cpc, processed>>
    BY <1>8 DEF vars, table
  <2> QED BY <2>1, AnnouncedStays
<1> QED BY <1>2, <1>3, <1>4, <1>5, <1>6, <1>7, <1>8 DEF Next

\* The count holds of every reachable state.
THEOREM SpecAnnounced == Spec => []Announced
<1>1. Init => Announced
  BY DEF Init, Announced, None
<1> QED BY <1>1, AnnouncedStep, SpecIndInv, PTL DEF Spec

\* Every variable keeps its type.
THEOREM TypeCorrect == Spec => []TypeOK
<1>1. IndInv => TypeOK
  BY DEF IndInv
<1> QED BY <1>1, SpecIndInv, PTL

\* The ledger only holds what Stripe took, and status and events claim no more
\* than the ledger holds, through duplicated and reordered events, stale reads of
\* refund handlers and workers that die between two writes.
THEOREM BooksAreSound == Spec => []BooksBackedByStripe
<1>1. IndInv => BooksBacked
  <2> SUFFICES ASSUME IndInv, NEW d \in Deposits
               PROVE  /\ Cardinality(Credits(d)) <= 1
                      /\ Credits(d) # {} => payment[d] = "succeeded"
                      /\ \A j \in Credits(d) : j.to = Owner[d] /\ j.amount = Amount[d]
                      /\ Cardinality(Reversals(d)) <= 1
                      /\ Reversals(d) # {} => Credits(d) # {} /\ d \in refunded
    BY DEF BooksBacked
  <2>1. \A x, y \in Credits(d) : x = y
    BY TaggedFacts DEF IndInv, BooksAreDeposits
  <2>2. \A x, y \in Reversals(d) : x = y
    BY TaggedFacts DEF IndInv, BooksAreDeposits
  <2>3. ASSUME NEW j \in Credits(d)
        PROVE  j.to = Owner[d] /\ j.amount = Amount[d]
    <3>1. j \in journal /\ j.ref = <<"credit", d>>
      BY TaggedFacts
    <3>2. PICK e \in Deposits :
            \/ /\ j.op = "deposit" /\ j.ref = <<"credit", e>>
               /\ j.to = Owner[e] /\ j.amount = Amount[e]
            \/ j.op = "reverse" /\ j.ref = <<"reversal", e>>
      BY <3>1 DEF IndInv, BooksAreDeposits
    <3> QED BY <3>1, <3>2
  <2>4. /\ Credits(d) # {} => payment[d] = "succeeded"
        /\ Reversals(d) # {} => Credits(d) # {} /\ d \in refunded
    BY DEF IndInv, BooksFollowStripe, Paid
  <2> QED BY <2>1, <2>2, <2>3, <2>4, AtMostOne
<1>2. IndInv => CreditedIsPosted /\ RefundedIsReversed
  BY DEF IndInv, StatusIsBacked, CreditedIsPosted, RefundedIsReversed
<1>3. IndInv /\ Announced => AnnouncedPerReport
  BY DEF IndInv, TypeOK, Announced, AnnouncedPerReport
<1>4. IndInv /\ Announced => BooksBackedByStripe
  BY <1>1, <1>2, <1>3 DEF BooksBackedByStripe
<1> QED BY <1>4, SpecIndInv, SpecAnnounced, PTL

\* The sweep never abandons a pending deposit that has its PaymentIntent: it
\* is the only step that gives that reason, and it looks at the intent again.
THEOREM AttachedIsKept == Spec => AttachedNotAbandoned
<1> DEFINE Keeps == \A d \in intent : status[d] = "pending" =>
                       ~(status'[d] = "failed" /\ reason'[d] = "abandoned")
<1>1. ASSUME TypeOK, [Next]_vars PROVE Keeps \/ UNCHANGED vars
  <2> SUFFICES ASSUME Next PROVE Keeps
    BY <1>1
  <2> SUFFICES ASSUME NEW d \in intent, status[d] = "pending",
                      status'[d] = "failed", reason'[d] = "abandoned"
               PROVE  FALSE
    OBVIOUS
  <2>1. status \in [Deposits -> Statuses] /\ reason \in [Deposits -> Reasons] /\ d \in Deposits
    BY <1>1 DEF TypeOK
  <2>2. ~UNCHANGED table /\ ~UNCHANGED status
    BY DEF table
  <2>3. \A x \in Deposits : \A st, why :
           Write(x, st, why) => x = d /\ st = "failed" /\ why = "abandoned"
    BY <2>1 DEF Write
  <2>4. ASSUME NEW x \in Deposits,
               \/ CreateStep(x) \/ StripeStep(x) \/ DepositSucceeded(x)
               \/ DepositFailed(x) \/ GrowStale(x)
        PROVE  FALSE
    <3>1. CASE CreateStep(x)
      BY <2>1, <2>2, <3>1 DEF CreateStep, InsertDeposit, CreateIntent, AttachIntent, CreateDies
    <3>2. CASE StripeStep(x)
      BY <2>2, <3>2 DEF StripeStep, Decline, Pay, Cancel, Refund, StripeSays
    <3>3. CASE DepositSucceeded(x) \/ DepositFailed(x)
      BY <2>2, <2>3, <3>3 DEF DepositSucceeded, DepositFailed
    <3>4. CASE GrowStale(x)
      BY <2>2, <3>4 DEF GrowStale
    <3> QED BY <2>4, <3>1, <3>2, <3>3, <3>4
  <2>5. ASSUME NEW w \in Webhooks, WebhookStep(w) PROVE FALSE
    <3>1. CASE RecordRefunded(w)
      <4>1. \/ Write(wdep[w], "refunded", None)
            \/ Write(wdep[w], "failed", "refunded_before_credit")
        BY <2>2, <3>1 DEF RecordRefunded
      <4> QED BY <2>1, <4>1 DEF Write
    <3> QED BY <2>2, <2>5, <3>1
            DEF WebhookStep, ReadRefunded, ReverseDeposit, WebhookFails
  <2>6. ASSUME NEW r \in Workers, WorkerStep(r) PROVE FALSE
    <3>1. CASE MarkCredited(r)
      BY <2>1, <2>2, <3>1 DEF MarkCredited
    <3>2. CASE ResolvePending(r)
      <4>1. \/ Write(current[r], "succeeded", reason[current[r]])
            \/ Write(current[r], "failed", "canceled")
        BY <2>2, <3>2 DEF ResolvePending, Resolved
      <4> QED BY <2>1, <4>1 DEF Write
    <3>3. CASE SweepOrphan(r)
      <4>1. PICK x \in todo[r] : FailIfOrphaned(x)
        BY <3>3 DEF SweepOrphan
      <4>2. x \in Deposits
        BY <1>1 DEF TypeOK
      <4> QED BY <2>2, <2>3, <4>1, <4>2 DEF FailIfOrphaned
    <3> QED BY <2>2, <2>6, <3>1, <3>2, <3>3
            DEF WorkerStep, ListSucceeded, CreditDeposit, ListPending, RetrieveIntent,
                ListOrphans, EndTick, SkipRow, RestartWorker
  <2> QED BY <2>4, <2>5, <2>6 DEF Next
<1>2. TypeOK /\ [Next]_vars => [Keeps]_vars
  BY <1>1
<1> QED BY <1>2, TypeCorrect, PTL DEF Spec, AttachedNotAbandoned

-----------------------------------------------------------------------------
(***************************************************************************)
(* Sums over a table.  Induction is by a smallest counterexample.          *)
(***************************************************************************)

\* A non-empty family of subsets of a finite set has a smallest member.
LEMMA SmallestSubset ==
    ASSUME NEW S, IsFiniteSet(S), NEW Bad \in SUBSET (SUBSET S), Bad # {}
    PROVE  \E s \in Bad : \A u \in SUBSET s : u # s => u \notin Bad
<1>1. IsWellFoundedOn(StrictSubsetOrdering(S), FiniteSubsetsOf(S))
  BY FS_StrictSubsetOrderingWellFounded
<1>2. Bad \subseteq FiniteSubsetsOf(S)
  BY FS_FiniteSubsetsOfFinite
<1>3. PICK s \in Bad : \A u \in Bad : ~ (<<u, s>> \in StrictSubsetOrdering(S))
  BY <1>1, <1>2, WFMin
<1>4. ASSUME NEW u \in SUBSET s, u # s, u \in Bad
      PROVE  FALSE
  <2>1. <<u, s>> \in StrictSubsetOrdering(S)
    BY <1>4 DEF StrictSubsetOrdering
  <2> QED  BY <1>3, <1>4, <2>1
<1> QED  BY <1>4

\* What the fold behind TotalAmount computes, one set after the other.
Head1(s) == CHOOSE c \in s : TRUE

SumStep(g, s) == IF s = {} THEN 0 ELSE Head1(s).amount + g[s \ {Head1(s)}]

IsSum(g, S) == g = [s \in SUBSET S |-> SumStep(g, s)]

LEMMA Head1In == ASSUME NEW s, s # {} PROVE Head1(s) \in s
BY DEF Head1

\* Two such functions agree where both are defined.
LEMMA SumUnique ==
    ASSUME NEW S, IsFiniteSet(S), NEW T, NEW g, NEW h, IsSum(g, S), IsSum(h, T),
           NEW s \in SUBSET (S \cap T)
    PROVE  g[s] = h[s]
<1> DEFINE Bad == {u \in SUBSET (S \cap T) : g[u] # h[u]}
<1> SUFFICES ASSUME Bad # {} PROVE FALSE
  OBVIOUS
<1>1. IsFiniteSet(S \cap T)
  BY FS_Intersection
<1>2. PICK u \in Bad : \A v \in SUBSET u : v # u => v \notin Bad
  <2> HIDE DEF Bad
  <2>1. Bad \in SUBSET (SUBSET (S \cap T))  BY DEF Bad
  <2> QED  BY <1>1, <2>1, SmallestSubset
<1>3. g[u] = SumStep(g, u) /\ h[u] = SumStep(h, u)
  BY DEF IsSum
<1>4. CASE u = {}
  BY <1>3, <1>4 DEF SumStep
<1>5. CASE u # {}
  <2>1. Head1(u) \in u  BY <1>5, Head1In
  <2>2. g[u \ {Head1(u)}] = h[u \ {Head1(u)}]  BY <1>2, <2>1
  <2> QED  BY <1>3, <1>5, <2>2 DEF SumStep
<1> QED  BY <1>4, <1>5

\* Every finite set has one.
LEMMA SumExists ==
    ASSUME NEW S, IsFiniteSet(S)
    PROVE  \E g : IsSum(g, S)
<1> DEFINE Bad == {T \in SUBSET S : ~ \E g : IsSum(g, T)}
           G(u) == CHOOSE g : IsSum(g, u)
<1> SUFFICES ASSUME Bad # {} PROVE FALSE
  OBVIOUS
<1>1. PICK T \in Bad : \A u \in SUBSET T : u # T => u \notin Bad
  <2> HIDE DEF Bad
  <2>1. Bad \in SUBSET (SUBSET S)  BY DEF Bad
  <2> QED  BY <2>1, SmallestSubset
<1>2. ASSUME NEW u \in SUBSET T, u # T
      PROVE  IsSum(G(u), u)
  <2>1. \E g : IsSum(g, u)  BY <1>1, <1>2
  <2> QED  BY <2>1
<1> DEFINE V(s) == IF s = {} THEN 0 ELSE Head1(s).amount + G(s \ {Head1(s)})[s \ {Head1(s)}]
           g == [s \in SUBSET T |-> V(s)]
<1> HIDE DEF G
<1>3. ASSUME NEW u \in SUBSET T, u # T
      PROVE  G(u)[u] = V(u)
  <2>1. G(u)[u] = SumStep(G(u), u)  BY <1>2, <1>3 DEF IsSum
  <2>2. CASE u = {}  BY <2>1, <2>2 DEF SumStep
  <2>3. CASE u # {}
    <3> DEFINE w == u \ {Head1(u)}
    <3>1. Head1(u) \in u  BY <2>3, Head1In
    <3>2. w \in SUBSET T /\ w # T /\ w \in SUBSET (u \cap w)  BY <1>3, <3>1
    <3>3. IsSum(G(u), u) /\ IsSum(G(w), w)  BY <1>2, <1>3, <3>2
    <3>4. IsFiniteSet(u)  BY <1>1, FS_Subset
    <3> HIDE DEF w
    <3>5. G(u)[w] = G(w)[w]  BY <3>2, <3>3, <3>4, SumUnique
    <3> USE DEF w
    <3> QED  BY <2>1, <2>3, <3>5 DEF SumStep
  <2> QED  BY <2>2, <2>3
<1>4. ASSUME NEW s \in SUBSET T
      PROVE  g[s] = SumStep(g, s)
  <2>1. CASE s = {}  BY <2>1 DEF SumStep
  <2>2. CASE s # {}
    <3>1. Head1(s) \in s  BY <2>2, Head1In
    <3>2. s \ {Head1(s)} \in SUBSET T /\ s \ {Head1(s)} # T  BY <3>1
    <3> HIDE DEF V
    <3>3. g[s \ {Head1(s)}] = G(s \ {Head1(s)})[s \ {Head1(s)}]  BY <1>3, <3>2
    <3> USE DEF V
    <3> QED  BY <2>2, <3>3 DEF SumStep
  <2> QED  BY <2>1, <2>2
<1>5. IsSum(g, T)
  <2> HIDE DEF V
  <2>1. g = [s \in SUBSET T |-> g[s]]  OBVIOUS
  <2> HIDE DEF g
  <2> QED  BY <1>4, <2>1 DEF IsSum
<1> QED  BY <1>1, <1>5

Summands(S) == IsFiniteSet(S) /\ \A c \in S : c.amount \in Nat

\* TotalAmount adds what its CHOOSE picks to the total of the rest.
LEMMA TotalUnfolds ==
    ASSUME NEW S, IsFiniteSet(S)
    PROVE  /\ S = {} => TotalAmount(S) = 0
           /\ S # {} => TotalAmount(S) = Head1(S).amount + TotalAmount(S \ {Head1(S)})
<1> DEFINE Iter(T) == CHOOSE g : IsSum(g, T)
<1>1. ASSUME NEW T
      PROVE  TotalAmount(T) = Iter(T)[T]
  BY DEF TotalAmount, MapThenSumSet, MapThenFoldSet, IsSum, SumStep, Head1
<1>2. ASSUME NEW T, IsFiniteSet(T)
      PROVE  IsSum(Iter(T), T)
  BY <1>2, SumExists
<1> HIDE DEF Iter
<1>3. Iter(S)[S] = SumStep(Iter(S), S)
  BY <1>2 DEF IsSum
<1>4. CASE S = {}
  BY <1>1, <1>3, <1>4 DEF SumStep
<1>5. CASE S # {}
  <2> DEFINE T == S \ {Head1(S)}
  <2>1. IsFiniteSet(T)  BY FS_Subset
  <2>2. IsSum(Iter(S), S) /\ IsSum(Iter(T), T)  BY <1>2, <2>1
  <2>3. T \in SUBSET (S \cap T)  OBVIOUS
  <2> HIDE DEF T
  <2>4. Iter(S)[T] = Iter(T)[T]  BY <2>2, <2>3, SumUnique
  <2> USE DEF T
  <2> QED  BY <1>1, <1>3, <1>5, <2>4 DEF SumStep
<1> QED  BY <1>4, <1>5

\* It does not matter which row is taken out first.
LEMMA TotalRemove ==
    ASSUME NEW S, Summands(S)
    PROVE  /\ TotalAmount(S) \in Nat
           /\ \A x \in S : TotalAmount(S) = x.amount + TotalAmount(S \ {x})
<1> DEFINE Good(s) == /\ TotalAmount(s) \in Nat
                      /\ \A x \in s : TotalAmount(s) = x.amount + TotalAmount(s \ {x})
           Bad == {s \in SUBSET S : ~ Good(s)}
<1> SUFFICES ASSUME Bad # {} PROVE FALSE
  OBVIOUS
<1>1. PICK s \in Bad : \A u \in SUBSET s : u # s => u \notin Bad
  <2> HIDE DEF Bad
  <2>1. Bad \in SUBSET (SUBSET S)  BY DEF Bad
  <2> QED  BY <2>1, SmallestSubset DEF Summands
<1>2. IsFiniteSet(s) /\ \A c \in s : c.amount \in Nat
  BY <1>1, FS_Subset DEF Summands
<1> HIDE DEF Good
<1>3. ASSUME NEW u \in SUBSET s, u # s
      PROVE  Good(u)
  BY <1>1, <1>3
<1> USE DEF Good
<1>4. CASE s = {}
  <2>1. TotalAmount(s) = 0  BY <1>2, <1>4, TotalUnfolds
  <2> QED  BY <1>1, <1>4, <2>1
<1>5. CASE s # {}
  <2> DEFINE c == Head1(s)
             w == s \ {c}
  <2>1. c \in s  BY <1>5, Head1In
  <2>2. w \in SUBSET s /\ w # s  BY <2>1
  <2>3. TotalAmount(s) = c.amount + TotalAmount(w)  BY <1>2, <1>5, TotalUnfolds
  <2> HIDE DEF c
  <2>4. Good(w)
    <3> HIDE DEF Good, w
    <3> QED  BY <1>3, <2>2
  <2>5. TotalAmount(s) \in Nat  BY <1>2, <2>1, <2>3, <2>4
  <2>6. ASSUME NEW x \in s
        PROVE  TotalAmount(s) = x.amount + TotalAmount(s \ {x})
    <3>1. CASE x = c  BY <2>3, <3>1
    <3>2. CASE x # c
      <4> DEFINE v == s \ {x}
      <4>1. v \in SUBSET s /\ v # s /\ c \in v /\ x \in w  BY <2>1, <3>2
      <4>2. Good(v)
        <5> HIDE DEF Good, v
        <5> QED  BY <1>3, <4>1
      <4>3. TotalAmount(v) = c.amount + TotalAmount(v \ {c})  BY <4>1, <4>2
      <4>4. TotalAmount(w) = x.amount + TotalAmount(w \ {x})  BY <2>4, <4>1
      <4>5. v \ {c} = w \ {x} /\ v \ {c} \in SUBSET s /\ v \ {c} # s  BY <4>1
      <4>6. TotalAmount(v \ {c}) \in Nat
        <5>1. Good(v \ {c})
          <6> HIDE DEF Good, v
          <6> QED  BY <1>3, <4>5
        <5> QED  BY <5>1
      <4>7. c.amount \in Nat /\ x.amount \in Nat  BY <1>2, <2>1
      <4> HIDE DEF v, w
      <4> DEFINE r == TotalAmount(v \ {c})
      <4>8. TotalAmount(s) = c.amount + (x.amount + r)  BY <2>3, <4>4, <4>5
      <4>9. TotalAmount(v) = c.amount + r  BY <4>3
      <4>10. r \in Nat  BY <4>6
      <4> HIDE DEF r
      <4> QED  BY <4>7, <4>8, <4>9, <4>10 DEF v
    <3> QED  BY <3>1, <3>2
  <2> QED  BY <1>1, <2>5, <2>6
<1> QED  BY <1>4, <1>5

LEMMA TotalAdd ==
    ASSUME NEW S, Summands(S), NEW x, x \notin S, x.amount \in Nat
    PROVE  /\ Summands(S \cup {x})
           /\ TotalAmount(S \cup {x}) = TotalAmount(S) + x.amount
<1>1. Summands(S \cup {x})
  BY FS_AddElement DEF Summands
<1> DEFINE U == S \cup {x}
<1>2. x \in U /\ U \ {x} = S
  OBVIOUS
<1> HIDE DEF U
<1>3. TotalAmount(U) = x.amount + TotalAmount(S)
  <2>1. Summands(U)  BY <1>1 DEF U
  <2>2. TotalAmount(U) = x.amount + TotalAmount(U \ {x})  BY <1>2, <2>1, TotalRemove
  <2> QED  BY <1>2, <2>2
<1>4. TotalAmount(S) \in Nat
  BY TotalRemove
<1> QED  BY <1>1, <1>3, <1>4 DEF U

\* A part of the rows adds up to no more.
LEMMA TotalMonotone ==
    ASSUME NEW S, Summands(S), NEW T \in SUBSET S
    PROVE  TotalAmount(T) <= TotalAmount(S)
<1> DEFINE Bad == {s \in SUBSET S : T \subseteq s /\ ~ (TotalAmount(T) <= TotalAmount(s))}
<1> SUFFICES ASSUME Bad # {} PROVE FALSE
  OBVIOUS
<1>1. PICK s \in Bad : \A u \in SUBSET s : u # s => u \notin Bad
  <2> HIDE DEF Bad
  <2>1. Bad \in SUBSET (SUBSET S)  BY DEF Bad
  <2> QED  BY <2>1, SmallestSubset DEF Summands
<1>2. ASSUME NEW u \in SUBSET S
      PROVE  Summands(u) /\ TotalAmount(u) \in Nat
  <2>1. Summands(u)  BY FS_Subset DEF Summands
  <2> QED  BY <2>1, TotalRemove
<1>3. T # s
  BY <1>1, <1>2
<1>4. PICK x \in s : x \notin T
  BY <1>1, <1>3
<1>5. TotalAmount(T) <= TotalAmount(s \ {x})
  BY <1>1, <1>4
<1>6. TotalAmount(s) = x.amount + TotalAmount(s \ {x}) /\ x.amount \in Nat
  <2>1. Summands(s)  BY <1>1, <1>2
  <2> QED  BY <2>1, <1>4, TotalRemove DEF Summands
<1>7. TotalAmount(T) \in Nat /\ TotalAmount(s \ {x}) \in Nat /\ TotalAmount(s) \in Nat
  BY <1>1, <1>2
<1> QED  BY <1>1, <1>5, <1>6, <1>7

-----------------------------------------------------------------------------
(***************************************************************************)
(* Operations: the invariant.                                              *)
(***************************************************************************)
OpSteps ==
    {"idle", "resolve", "attempt", "check", "amount_threshold", "velocity_count",
     "velocity_sum", "approve", "reject", "status", "debit", "insert"}

Outcomes == {"none", "payout_simulated", "failed"}

OpTask == [at : OpSteps, op : Nat, amount : Nat, since : Nat, seen : Nat, status : Outcomes]

ResolveRow == [op : Nat, at : Nat]

CheckRow == [op : Nat, at : Nat, amount : Nat]

OperationsTypeOK ==
    /\ now \in Nat /\ received \in Nat
    /\ task \in [Handlers -> OpTask]
    /\ resolved \in SUBSET ResolveRow /\ IsFiniteSet(resolved)
    /\ attempts \in SUBSET resolved
    /\ checks \in SUBSET CheckRow /\ IsFiniteSet(checks)
    /\ debits \in SUBSET Nat
    /\ withdrawals \in SUBSET [op : Nat, status : Outcomes]

Live(h) == task[h].at # "idle"

\* Every request has a number of its own, and a row carries the number of a
\* request that is past the statement that writes it.
Numbered ==
    /\ \A h \in Handlers : Live(h) => task[h].op \in 1 .. received
    /\ \A g, h \in Handlers : Live(g) /\ Live(h) /\ g # h => task[g].op # task[h].op
    /\ \A r \in resolved : /\ r.op \in 1 .. received
                           /\ \A h \in Handlers :
                                task[h].at \in {"resolve", "attempt"} => task[h].op # r.op
    /\ \A c \in checks : /\ c.op \in 1 .. received
                         /\ \A h \in Handlers : Live(h) => task[h].op # c.op
    /\ \A w \in withdrawals : /\ w.op \in 1 .. received
                              /\ \A h \in Handlers : Live(h) => task[h].op # w.op
    /\ \A d \in debits : /\ d \in 1 .. received
                         /\ \A h \in Handlers :
                              task[h].at \in {"status", "debit"} => task[h].op # d

\* What a handler is about to write of its debit is what the ledger did.
OutcomesHold ==
    \A h \in Handlers :
        task[h].at = "insert" =>
            (task[h].op \in debits <=> task[h].status = "payout_simulated")

\* The cleanup forgets only what no count looks at.
CleanupForgetsOld ==
    \A r \in resolved \ attempts : r.at < now - Retention

\* Handlers that were allowed and have not recorded their attempt yet.
Resolving(t) ==
    {h \in Handlers : /\ task[h].at = "attempt" /\ Allowed(task[h].seen)
                      /\ task[h].since \in t .. t + Window - 1}

\* Where the cleanup keeps what a window counts.
ResolveWindows ==
    Retention >= Window =>
        \A t \in Nat :
            Cardinality(ResolvedIn(t)) + Cardinality(Resolving(t)) <= ResolveLimit + Slack

\* Handlers whose transfer passed velocity_count and is not recorded yet.
Counted(t) ==
    {h \in Handlers : /\ task[h].at \in {"velocity_sum", "approve"}
                      /\ task[h].since \in t .. t + Window}

CountWindows ==
    "velocity_count" \in DOMAIN Thresholds =>
        \A t \in Nat : Cardinality(ApprovedIn(t)) + Cardinality(Counted(t))
                         <= Thresholds["velocity_count"] + Slack

\* A transfer past the first rule is no larger than it allows.
AmountsPassed ==
    "amount_threshold" \in DOMAIN Thresholds =>
        \A h \in Handlers :
            task[h].at \in {"velocity_count", "velocity_sum", "approve"} =>
                task[h].amount <= Thresholds["amount_threshold"]

\* Handlers whose transfer passed velocity_sum and is not recorded yet.
Summed(t) ==
    {h \in Handlers : task[h].at = "approve" /\ task[h].since \in t .. t + Window}

Largest == Thresholds["amount_threshold"]

SumBound == Thresholds["velocity_sum"] + Slack * Largest

\* The last handler that passed velocity_sum saw its own amount fit; every
\* other one that is still to record adds one largest transfer at most.
SumWindows ==
    {"velocity_sum", "amount_threshold"} \subseteq DOMAIN Thresholds =>
        \A t \in Nat :
            /\ TotalAmount(ApprovedIn(t)) <= SumBound
            /\ Summed(t) # {} =>
                 \E h \in Summed(t) :
                    TotalAmount(ApprovedIn(t)) + task[h].amount
                        + (Cardinality(Summed(t)) - 1) * Largest <= SumBound

OperationsInv ==
    /\ OperationsTypeOK
    /\ Numbered
    /\ OutcomesHold
    /\ DebitsAccounted
    /\ CleanupForgetsOld
    /\ ResolveWindows
    /\ CountWindows
    /\ AmountsPassed
    /\ SumWindows

\* The steps of one handler.
HandlerStep(h) ==
    \/ createTransferHandler(h) \/ createWithdrawalHandler(h)
    \/ countRecentAttempts(h) \/ recordResolveAttempt(h)
    \/ loadEnabledRules(h) \/ checkTransfer(h) \/ recordFraudCheck(h)
    \/ GetAccountByID(h) \/ createWithdrawal(h) \/ insertWithdrawal(h)
    \/ Abandon(h)

\* A step of h moves its own task only; the clock stands still.
LEMMA HandlerStepMoves ==
    ASSUME OperationsTypeOK, NEW h \in Handlers, HandlerStep(h)
    PROVE  /\ task' \in [Handlers -> OpTask]
           /\ \A g \in Handlers \ {h} : task'[g] = task[g]
           /\ now' = now
           /\ received' \in Nat /\ received' >= received
<1> USE DEF OperationsTypeOK
<1>0. task[h] \in OpTask
  OBVIOUS
<1>1. CASE createTransferHandler(h) \/ createWithdrawalHandler(h)
  <2>1. PICK step \in {"resolve", "status"}, a \in Nat : Receive(h, step, a)
    BY <1>1, OperationsAssumption DEF createTransferHandler, createWithdrawalHandler
  <2> QED  BY <2>1 DEF Receive, OpTask, OpSteps, Outcomes
<1>2. CASE countRecentAttempts(h)
  <2>1. Cardinality({a \in attempts : a.at > now - Window}) \in Nat
    <3>1. IsFiniteSet(attempts)  BY FS_Subset
    <3>2. IsFiniteSet({a \in attempts : a.at > now - Window})  BY <3>1, FS_Subset
    <3> QED  BY <3>2, FS_CardinalityType
  <2> DEFINE
         n == Cardinality({a \in attempts : a.at > now - Window})
         r == [task[h] EXCEPT !.at = "attempt", !.since = now, !.seen = n]
  <2>2. r \in OpTask
    <3> HIDE DEF n
    <3>1. n \in Nat  BY <2>1 DEF n
    <3> QED  BY <1>0, <3>1 DEF OpTask, OpSteps
  <2>3. task' = [task EXCEPT ![h] = r]
    <3> HIDE DEF n
    <3>1. task' = [task EXCEPT ![h].at = "attempt", ![h].since = now, ![h].seen = n]
      BY <1>2 DEF countRecentAttempts, n
    <3> QED  BY <3>1
  <2>4. now' = now /\ received' = received
    BY <1>2 DEF countRecentAttempts, bounds
  <2> HIDE DEF r
  <2> QED  BY <2>2, <2>3, <2>4
<1>3. CASE recordResolveAttempt(h)
  BY <1>3 DEF recordResolveAttempt, Goto, Done, NoTask, OpTask, OpSteps, Outcomes, bounds
<1>4. CASE loadEnabledRules(h)
  <2> DEFINE r == [task[h] EXCEPT !.at = "amount_threshold", !.since = now]
  <2>1. r \in OpTask
    BY <1>0 DEF OpTask, OpSteps
  <2>2. task' = [task EXCEPT ![h].at = "amount_threshold", ![h].since = now]
    BY <1>4 DEF loadEnabledRules, Begin, ruleEvaluationOrder
  <2>3. task' = [task EXCEPT ![h] = r]
    BY <2>2
  <2> HIDE DEF r
  <2> QED  BY <1>4, <2>1, <2>3 DEF loadEnabledRules, bounds
<1>5. CASE checkTransfer(h)
  <2>1. PICK step \in OpSteps : Goto(h, step)
    BY <1>5 DEF checkTransfer, ruleEvaluationOrder, OpSteps
  <2>2. [task[h] EXCEPT !.at = step] \in OpTask
    BY <1>0 DEF OpTask
  <2>3. now' = now /\ received' = received
    BY <1>5 DEF checkTransfer, bounds
  <2>4. task' = [task EXCEPT ![h] = [task[h] EXCEPT !.at = step]]
    BY <2>1 DEF Goto
  <2> QED  BY <2>2, <2>3, <2>4
<1>6. CASE recordFraudCheck(h)
  BY <1>6 DEF recordFraudCheck, Done, NoTask, OpTask, OpSteps, Outcomes, bounds
<1>7. CASE GetAccountByID(h)
  BY <1>7 DEF GetAccountByID, Goto, Done, NoTask, OpTask, OpSteps, Outcomes, bounds
<1>8. CASE createWithdrawal(h)
  BY <1>8 DEF createWithdrawal, Outcome, LedgerError, Mishap, Done, NoTask, OpTask, OpSteps,
              Outcomes, bounds
<1>9. CASE insertWithdrawal(h)
  BY <1>9 DEF insertWithdrawal, Done, NoTask, OpTask, OpSteps, Outcomes, bounds
<1>10. CASE Abandon(h)
  BY <1>10 DEF Abandon, Mishap, Done, NoTask, OpTask, OpSteps, Outcomes
<1> QED
  BY <1>1, <1>2, <1>3, <1>4, <1>5, <1>6, <1>7, <1>8, <1>9, <1>10 DEF HandlerStep

LEMMA OperationsTypesStep ==
    OperationsTypeOK /\ [OperationsNext]_operationsVars => OperationsTypeOK'
<1> SUFFICES ASSUME OperationsTypeOK, [OperationsNext]_operationsVars
             PROVE  OperationsTypeOK'
  OBVIOUS
<1> USE DEF OperationsTypeOK
<1>1. CASE UNCHANGED operationsVars
  BY <1>1 DEF operationsVars, limits, money, bounds
<1>2. CASE Tick
  BY <1>2 DEF Tick, limits, money, bounds
<1>3. CASE deleteStaleResolveAttempts
  BY <1>3 DEF deleteStaleResolveAttempts, money, bounds
<1>4. ASSUME NEW h \in Handlers, HandlerStep(h)
      PROVE  OperationsTypeOK'
  <2>1. task' \in [Handlers -> OpTask] /\ now' \in Nat /\ received' \in Nat
    BY <1>4, HandlerStepMoves
  <2>2. task[h] \in OpTask
    OBVIOUS
  <2>3. CASE recordResolveAttempt(h)
    <3>1. Attempt(h) \in ResolveRow
      BY <2>2 DEF Attempt, ResolveRow, OpTask
    <3>2. IsFiniteSet(resolved \cup {Attempt(h)})
      BY FS_AddElement
    <3> QED  BY <2>1, <2>3, <3>1, <3>2 DEF recordResolveAttempt, money, bounds
  <2>4. CASE recordFraudCheck(h)
    <3> DEFINE row == [op |-> task[h].op, at |-> task[h].since, amount |-> task[h].amount]
    <3>1. row \in CheckRow
      BY <2>2 DEF CheckRow, OpTask
    <3> HIDE DEF row
    <3>2. IsFiniteSet(checks \cup {row})
      BY FS_AddElement
    <3>3. checks' \in {checks, checks \cup {row}}
      BY <2>4 DEF recordFraudCheck, row
    <3>4. checks' \in SUBSET CheckRow /\ IsFiniteSet(checks')
      BY <3>1, <3>2, <3>3
    <3> QED  BY <2>1, <2>4, <3>4 DEF recordFraudCheck, money, bounds
  <2>5. CASE createWithdrawal(h)
    <3>1. task[h].op \in Nat  BY <2>2 DEF OpTask
    <3>2. debits' \in SUBSET Nat
      BY <2>5, <3>1 DEF createWithdrawal, ExecuteTransfer
    <3> QED  BY <2>1, <2>5, <3>2 DEF createWithdrawal, limits
  <2>6. CASE insertWithdrawal(h)
    <3>1. [op |-> task[h].op, status |-> task[h].status] \in [op : Nat, status : Outcomes]
      BY <2>2 DEF OpTask
    <3> QED  BY <2>1, <2>6, <3>1 DEF insertWithdrawal, limits, bounds
  <2>7. CASE \/ createTransferHandler(h) \/ createWithdrawalHandler(h)
             \/ countRecentAttempts(h) \/ loadEnabledRules(h) \/ checkTransfer(h)
             \/ GetAccountByID(h) \/ Abandon(h)
    <3>1. UNCHANGED <<limits, money>>
      BY <2>7 DEF createTransferHandler, createWithdrawalHandler, Receive, countRecentAttempts,
                  loadEnabledRules, checkTransfer, GetAccountByID, Abandon
    <3> QED  BY <2>1, <3>1 DEF limits, money
  <2> QED  BY <1>4, <2>3, <2>4, <2>5, <2>6, <2>7 DEF HandlerStep
<1> QED  BY <1>1, <1>2, <1>3, <1>4 DEF OperationsNext, HandlerStep

\* Request numbers: a handler keeps the one it has until it is done.
LEMMA HandlerStepKeepsNumber ==
    ASSUME OperationsTypeOK, NEW h \in Handlers, HandlerStep(h)
    PROVE  \/ /\ ~Live(h) /\ task'[h].op = received + 1 /\ received' = received + 1
              /\ task'[h].at \in {"resolve", "status"}
           \/ /\ received' = received
              /\ Live(h)' => Live(h) /\ task'[h].op = task[h].op
<1> USE DEF OperationsTypeOK
<1>0. task[h] \in OpTask
  OBVIOUS
<1>1. CASE createTransferHandler(h) \/ createWithdrawalHandler(h)
  BY <1>1 DEF createTransferHandler, createWithdrawalHandler, Receive, Live
<1>2. CASE countRecentAttempts(h)
  BY <1>2 DEF countRecentAttempts, bounds, Live, OpTask
<1>3. CASE recordResolveAttempt(h)
  BY <1>3 DEF recordResolveAttempt, Goto, Done, NoTask, bounds, Live, OpTask
<1>4. CASE loadEnabledRules(h)
  BY <1>4 DEF loadEnabledRules, Begin, ruleEvaluationOrder, bounds, Live, OpTask
<1>5. CASE checkTransfer(h)
  <2>1. /\ task[h].at \in {"amount_threshold", "velocity_count", "velocity_sum"}
        /\ \E step \in OpSteps : Goto(h, step)
    BY <1>5 DEF checkTransfer, ruleEvaluationOrder, OpSteps
  <2>2. Live(h) /\ task'[h].op = task[h].op
    BY <2>1 DEF Goto, Live, OpTask
  <2> QED  BY <1>5, <2>2 DEF checkTransfer, bounds
<1>6. CASE recordFraudCheck(h)
  BY <1>6 DEF recordFraudCheck, Done, NoTask, bounds, Live
<1>7. CASE GetAccountByID(h)
  BY <1>7 DEF GetAccountByID, Goto, Done, NoTask, bounds, Live, OpTask
<1>8. CASE createWithdrawal(h)
  BY <1>8 DEF createWithdrawal, Outcome, LedgerError, Mishap, Done, NoTask, bounds, Live, OpTask
<1>9. CASE insertWithdrawal(h)
  BY <1>9 DEF insertWithdrawal, Done, NoTask, bounds, Live
<1>10. CASE Abandon(h)
  BY <1>10 DEF Abandon, Mishap, Done, NoTask, Live
<1> QED
  BY <1>1, <1>2, <1>3, <1>4, <1>5, <1>6, <1>7, <1>8, <1>9, <1>10 DEF HandlerStep

\* Steps: where a handler that is at one of these stages was before.
LEMMA HandlerStepStages ==
    ASSUME OperationsTypeOK, NEW h \in Handlers, HandlerStep(h)
    PROVE  /\ task'[h].at = "resolve" => createTransferHandler(h)
           /\ task'[h].at = "attempt" => countRecentAttempts(h)
           /\ task'[h].at \in {"status", "debit"} =>
                createWithdrawalHandler(h) \/ task[h].at = "status"
           /\ task'[h].at = "insert" => createWithdrawal(h)
           /\ task'[h].at \in {"velocity_count", "velocity_sum", "approve"} => checkTransfer(h)
<1> USE DEF OperationsTypeOK
<1>0. task[h] \in OpTask
  OBVIOUS
<1>1. CASE createTransferHandler(h) \/ createWithdrawalHandler(h)
  BY <1>1 DEF createTransferHandler, createWithdrawalHandler, Receive
<1>2. CASE countRecentAttempts(h)
  BY <1>2 DEF countRecentAttempts, OpTask
<1>3. CASE recordResolveAttempt(h)
  BY <1>3 DEF recordResolveAttempt, Goto, Done, NoTask, OpTask
<1>4. CASE loadEnabledRules(h)
  BY <1>4 DEF loadEnabledRules, Begin, ruleEvaluationOrder, OpTask
<1>5. CASE checkTransfer(h)
  <2>1. PICK step \in {"reject", "approve", "velocity_count", "velocity_sum"} : Goto(h, step)
    BY <1>5 DEF checkTransfer, ruleEvaluationOrder
  <2> QED  BY <1>5, <2>1 DEF Goto, OpTask
<1>6. CASE recordFraudCheck(h)
  BY <1>6 DEF recordFraudCheck, Done, NoTask
<1>7. CASE GetAccountByID(h)
  BY <1>7 DEF GetAccountByID, Goto, Done, NoTask, OpTask
<1>8. CASE createWithdrawal(h)
  BY <1>8 DEF createWithdrawal, Outcome, LedgerError, Mishap, Done, NoTask, OpTask
<1>9. CASE insertWithdrawal(h)
  BY <1>9 DEF insertWithdrawal, Done, NoTask
<1>10. CASE Abandon(h)
  BY <1>10 DEF Abandon, Mishap, Done, NoTask
<1> QED
  BY <1>1, <1>2, <1>3, <1>4, <1>5, <1>6, <1>7, <1>8, <1>9, <1>10 DEF HandlerStep

\* What a handler's step writes.
LEMMA HandlerStepWrites ==
    ASSUME OperationsTypeOK, NEW h \in Handlers, HandlerStep(h)
    PROVE  /\ \/ UNCHANGED <<attempts, resolved>>
              \/ /\ recordResolveAttempt(h)
                 /\ task[h].at = "attempt" /\ task'[h].at \in {"check", "idle"}
           /\ \/ checks' = checks
              \/ recordFraudCheck(h) /\ task[h].at = "approve" /\ task'[h] = NoTask
           /\ \/ withdrawals' = withdrawals
              \/ insertWithdrawal(h) /\ task[h].at = "insert" /\ task'[h] = NoTask
           /\ \/ debits' = debits
              \/ /\ createWithdrawal(h) /\ task[h].at = "debit"
                 /\ task'[h].at \in {"insert", "idle"}
                 /\ debits' = debits \cup {task[h].op}
<1> USE DEF OperationsTypeOK
<1>0. task[h] \in OpTask
  OBVIOUS
<1>1. CASE recordResolveAttempt(h)
  BY <1>1 DEF recordResolveAttempt, Goto, Done, NoTask, OpTask, money
<1>2. CASE recordFraudCheck(h)
  BY <1>2 DEF recordFraudCheck, Done, money
<1>3. CASE createWithdrawal(h)
  BY <1>3 DEF createWithdrawal, ExecuteTransfer, Outcome, LedgerError, Done, NoTask, OpTask, limits
<1>4. CASE insertWithdrawal(h)
  BY <1>4 DEF insertWithdrawal, Done, limits
<1>5. CASE \/ createTransferHandler(h) \/ createWithdrawalHandler(h)
           \/ countRecentAttempts(h) \/ loadEnabledRules(h) \/ checkTransfer(h)
           \/ GetAccountByID(h) \/ Abandon(h)
  BY <1>5 DEF createTransferHandler, createWithdrawalHandler, Receive, countRecentAttempts,
              loadEnabledRules, checkTransfer, GetAccountByID, Abandon, limits, money
<1> QED  BY <1>1, <1>2, <1>3, <1>4, <1>5 DEF HandlerStep

LEMMA NumberedStep ==
    OperationsTypeOK /\ Numbered /\ [OperationsNext]_operationsVars => Numbered'
<1> SUFFICES ASSUME OperationsTypeOK, Numbered, [OperationsNext]_operationsVars
             PROVE  Numbered'
  OBVIOUS
<1>1. CASE UNCHANGED operationsVars
  BY <1>1 DEF operationsVars, limits, money, bounds, Numbered, Live
<1>2. CASE Tick
  BY <1>2 DEF Tick, limits, money, bounds, Numbered, Live
<1>3. CASE deleteStaleResolveAttempts
  BY <1>3 DEF deleteStaleResolveAttempts, money, bounds, Numbered, Live
<1>4. ASSUME NEW h \in Handlers, HandlerStep(h)
      PROVE  Numbered'
  <2> USE DEF OperationsTypeOK
  <2>1. /\ \A g \in Handlers \ {h} : task'[g] = task[g]
        /\ received' \in Nat /\ received' >= received /\ received \in Nat
    BY <1>4, HandlerStepMoves
  <2>2. \/ /\ ~Live(h) /\ task'[h].op = received + 1 /\ received' = received + 1
           /\ task'[h].at \in {"resolve", "status"}
        \/ /\ received' = received
           /\ Live(h)' => Live(h) /\ task'[h].op = task[h].op
    BY <1>4, HandlerStepKeepsNumber
  <2>3. /\ task'[h].at = "resolve" => createTransferHandler(h)
        /\ task'[h].at = "attempt" => countRecentAttempts(h)
        /\ task'[h].at \in {"status", "debit"} =>
             createWithdrawalHandler(h) \/ task[h].at = "status"
    BY <1>4, HandlerStepStages
  <2>4. /\ createTransferHandler(h) \/ createWithdrawalHandler(h) =>
             task'[h].op = received + 1 /\ ~Live(h)
        /\ countRecentAttempts(h) => task[h].at = "resolve" /\ task'[h].op = task[h].op
    <3>1. task[h] \in OpTask  OBVIOUS
    <3> QED
      BY <3>1 DEF createTransferHandler, createWithdrawalHandler, Receive, countRecentAttempts,
                  OpTask, Live
  <2>5. \A g \in Handlers : Live(g)' => task'[g].op \in 1 .. received'
    BY <2>1, <2>2 DEF Numbered, Live
  <2>6. \A f, g \in Handlers : Live(f)' /\ Live(g)' /\ f # g => task'[f].op # task'[g].op
    <3> SUFFICES ASSUME NEW f \in Handlers, NEW g \in Handlers, Live(f)', Live(g)', f # g
                 PROVE  task'[f].op # task'[g].op
      OBVIOUS
    <3>1. CASE f # h /\ g # h  BY <2>1, <3>1 DEF Numbered, Live
    <3>2. CASE f = h  BY <2>1, <2>2, <3>2 DEF Numbered, Live
    <3>3. CASE g = h  BY <2>1, <2>2, <3>3 DEF Numbered, Live
    <3> QED  BY <3>1, <3>2, <3>3
  <2>7. ASSUME NEW r \in resolved'
        PROVE  /\ r.op \in 1 .. received'
               /\ \A g \in Handlers : task'[g].at \in {"resolve", "attempt"} => task'[g].op # r.op
    <3>1. CASE r \in resolved
      <4>1. r.op \in 1 .. received  BY <3>1 DEF Numbered
      <4>2. ASSUME NEW g \in Handlers, task'[g].at \in {"resolve", "attempt"}
            PROVE  task'[g].op # r.op
        <5>1. CASE g # h  BY <2>1, <3>1, <4>2, <5>1 DEF Numbered
        <5>2. CASE g = h
          <6>1. task'[h].op = received + 1 \/ (task[h].at = "resolve" /\ task'[h].op = task[h].op)
            BY <2>3, <2>4, <4>2, <5>2
          <6> QED  BY <2>1, <3>1, <4>1, <5>2, <6>1 DEF Numbered
        <5> QED  BY <5>1, <5>2
      <4> QED  BY <2>1, <4>1, <4>2
    <3>2. CASE r \notin resolved
      <4>1. /\ recordResolveAttempt(h) /\ task[h].at = "attempt"
            /\ task'[h].at \in {"check", "idle"}
        BY <1>4, <3>2, HandlerStepWrites
      <4>2. r.op = task[h].op
        BY <3>2, <4>1 DEF recordResolveAttempt, Attempt
      <4>3. \A g \in Handlers \ {h} : task'[g].at \in {"resolve", "attempt"} => task[g].op # r.op
        BY <2>1, <4>1, <4>2 DEF Numbered, Live
      <4> QED  BY <2>1, <4>1, <4>2, <4>3 DEF Numbered, Live
    <3> QED  BY <3>1, <3>2
  <2>8. ASSUME NEW c \in checks'
        PROVE  c.op \in 1 .. received' /\ \A g \in Handlers : Live(g)' => task'[g].op # c.op
    <3>1. CASE c \in checks
      <4>1. c.op \in 1 .. received /\ \A g \in Handlers : Live(g) => task[g].op # c.op
        BY <3>1 DEF Numbered
      <4> QED  BY <2>1, <2>2, <4>1 DEF Live
    <3>2. CASE c \notin checks
      <4>1. recordFraudCheck(h) /\ task[h].at = "approve" /\ task'[h] = NoTask
        BY <1>4, <3>2, HandlerStepWrites
      <4>2. c.op = task[h].op
        BY <3>2, <4>1 DEF recordFraudCheck
      <4> QED  BY <2>1, <4>1, <4>2 DEF Numbered, Live, NoTask
    <3> QED  BY <3>1, <3>2
  <2>9. ASSUME NEW w \in withdrawals'
        PROVE  w.op \in 1 .. received' /\ \A g \in Handlers : Live(g)' => task'[g].op # w.op
    <3>1. CASE w \in withdrawals
      <4>1. w.op \in 1 .. received /\ \A g \in Handlers : Live(g) => task[g].op # w.op
        BY <3>1 DEF Numbered
      <4> QED  BY <2>1, <2>2, <4>1 DEF Live
    <3>2. CASE w \notin withdrawals
      <4>1. insertWithdrawal(h) /\ task[h].at = "insert" /\ task'[h] = NoTask
        BY <1>4, <3>2, HandlerStepWrites
      <4>2. w.op = task[h].op
        BY <3>2, <4>1 DEF insertWithdrawal
      <4> QED  BY <2>1, <4>1, <4>2 DEF Numbered, Live, NoTask
    <3> QED  BY <3>1, <3>2
  <2>10. ASSUME NEW d \in debits'
         PROVE  /\ d \in 1 .. received'
                /\ \A g \in Handlers : task'[g].at \in {"status", "debit"} => task'[g].op # d
    <3>1. CASE d \in debits
      <4>1. d \in 1 .. received  BY <3>1 DEF Numbered
      <4>2. ASSUME NEW g \in Handlers, task'[g].at \in {"status", "debit"}
            PROVE  task'[g].op # d
        <5>1. CASE g # h  BY <2>1, <3>1, <4>2, <5>1 DEF Numbered
        <5>2. CASE g = h
          <6>1. \/ task'[h].op = received + 1
                \/ task[h].at = "status" /\ task'[h].op = task[h].op
            BY <2>2, <2>3, <2>4, <4>2, <5>2 DEF Live
          <6> QED  BY <2>1, <3>1, <4>1, <5>2, <6>1 DEF Numbered
        <5> QED  BY <5>1, <5>2
      <4> QED  BY <2>1, <4>1, <4>2
    <3>2. CASE d \notin debits
      <4>1. /\ task[h].at = "debit" /\ task'[h].at \in {"insert", "idle"}
            /\ debits' = debits \cup {task[h].op}
        BY <1>4, <3>2, HandlerStepWrites
      <4>2. d = task[h].op
        BY <3>2, <4>1
      <4> QED  BY <2>1, <4>1, <4>2 DEF Numbered, Live
    <3> QED  BY <3>1, <3>2
  <2> QED  BY <2>5, <2>6, <2>7, <2>8, <2>9, <2>10 DEF Numbered
<1> QED  BY <1>1, <1>2, <1>3, <1>4 DEF OperationsNext, HandlerStep

LEMMA OutcomesStep ==
    /\ OperationsTypeOK /\ Numbered /\ OutcomesHold
    /\ [OperationsNext]_operationsVars
    => OutcomesHold'
<1> SUFFICES ASSUME OperationsTypeOK, Numbered, OutcomesHold, [OperationsNext]_operationsVars
             PROVE  OutcomesHold'
  OBVIOUS
<1>1. CASE UNCHANGED operationsVars \/ Tick \/ deleteStaleResolveAttempts
  BY <1>1 DEF operationsVars, Tick, deleteStaleResolveAttempts, money, OutcomesHold
<1>2. ASSUME NEW h \in Handlers, HandlerStep(h), NEW g \in Handlers, task'[g].at = "insert"
      PROVE  task'[g].op \in debits' <=> task'[g].status = "payout_simulated"
  <2>1. \A f \in Handlers \ {h} : task'[f] = task[f]
    BY <1>2, HandlerStepMoves
  <2>2. \/ debits' = debits
        \/ task[h].at = "debit" /\ debits' = debits \cup {task[h].op}
    BY <1>2, HandlerStepWrites
  <2>3. CASE g # h
    <3>1. task[g].op \in debits' <=> task[g].op \in debits
      BY <1>2, <2>1, <2>2, <2>3 DEF Numbered, Live
    <3> QED  BY <1>2, <2>1, <2>3, <3>1 DEF OutcomesHold
  <2>4. CASE g = h
    <3>1. createWithdrawal(h)
      BY <1>2, <2>4, HandlerStepStages
    <3>2. task[h] \in OpTask
      BY DEF OperationsTypeOK
    <3>3. \/ ExecuteTransfer(h) /\ Outcome(h, "payout_simulated")
          \/ debits' = debits /\ Outcome(h, "failed")
      BY <1>2, <2>4, <3>1 DEF createWithdrawal, LedgerError, Done, NoTask, OperationsTypeOK
    <3>4. task[h].op \notin debits
      BY <3>1 DEF createWithdrawal, Numbered
    <3> QED
      BY <2>4, <3>2, <3>3, <3>4 DEF ExecuteTransfer, Outcome, OperationsTypeOK, OpTask
  <2> QED  BY <2>3, <2>4
<1> QED  BY <1>1, <1>2 DEF OperationsNext, HandlerStep, OutcomesHold

LEMMA DebitsStep ==
    /\ OperationsTypeOK /\ Numbered /\ OutcomesHold /\ DebitsAccounted
    /\ [OperationsNext]_operationsVars
    => DebitsAccounted'
<1> SUFFICES ASSUME OperationsTypeOK, Numbered, OutcomesHold, DebitsAccounted,
                    [OperationsNext]_operationsVars
             PROVE  DebitsAccounted'
  OBVIOUS
<1> DEFINE Open == {task[h].op : h \in {g \in Handlers : task[g].at = "insert"}}
<1>0. /\ \A w \in withdrawals : w.op \in debits <=> w.status = "payout_simulated"
      /\ \A d \in debits : \/ \E w \in withdrawals : w.op = d
                           \/ \E h \in Handlers : task[h].at = "insert" /\ task[h].op = d
                           \/ d \in faulted
  BY DEF DebitsAccounted
<1> SUFFICES
      /\ \A w \in withdrawals' : w.op \in debits' <=> w.status = "payout_simulated"
      /\ \A d \in debits' : \/ \E w \in withdrawals' : w.op = d
                            \/ \E h \in Handlers : task'[h].at = "insert" /\ task'[h].op = d
                            \/ d \in faulted'
  BY DEF DebitsAccounted
<1>1. CASE UNCHANGED operationsVars \/ Tick \/ deleteStaleResolveAttempts
  BY <1>0, <1>1 DEF operationsVars, Tick, deleteStaleResolveAttempts, money, bounds
<1>2. ASSUME NEW h \in Handlers, HandlerStep(h)
      PROVE  /\ \A w \in withdrawals' : w.op \in debits' <=> w.status = "payout_simulated"
             /\ \A d \in debits' :
                   \/ \E w \in withdrawals' : w.op = d
                   \/ \E g \in Handlers : task'[g].at = "insert" /\ task'[g].op = d
                   \/ d \in faulted'
  <2>1. \A g \in Handlers \ {h} : task'[g] = task[g]
    BY <1>2, HandlerStepMoves
  <2>2. \/ debits' = debits
        \/ task[h].at = "debit" /\ debits' = debits \cup {task[h].op}
    BY <1>2, HandlerStepWrites
  <2>3. \/ withdrawals' = withdrawals
        \/ insertWithdrawal(h) /\ task[h].at = "insert"
    BY <1>2, HandlerStepWrites
  <2>4. ASSUME NEW w \in withdrawals'
        PROVE  w.op \in debits' <=> w.status = "payout_simulated"
    <3>1. CASE w \in withdrawals
      <4>1. w.op \in debits' <=> w.op \in debits
        BY <2>2, <3>1 DEF Numbered, Live
      <4> QED  BY <1>0, <3>1, <4>1
    <3>2. CASE w \notin withdrawals
      <4>1. insertWithdrawal(h) /\ task[h].at = "insert"
        BY <2>3, <3>2
      <4>2. w.op = task[h].op /\ w.status = task[h].status /\ debits' = debits
        BY <3>2, <4>1 DEF insertWithdrawal
      <4> QED  BY <4>1, <4>2 DEF OutcomesHold
    <3> QED  BY <3>1, <3>2
  <2>5. /\ faulted \subseteq faulted'
        /\ \/ task[h].at # "insert"
           \/ insertWithdrawal(h)
           \/ Abandon(h)
        /\ createWithdrawal(h) => \/ debits' = debits
                                  \/ task'[h].at = "insert" /\ task'[h].op = task[h].op
                                  \/ task[h].op \in faulted'
    <3>1. task[h] \in OpTask /\ task \in [Handlers -> OpTask]
      BY DEF OperationsTypeOK
    <3>2. CASE createTransferHandler(h) \/ createWithdrawalHandler(h)
      BY <3>2 DEF createTransferHandler, createWithdrawalHandler, Receive, createWithdrawal
    <3>3. CASE recordResolveAttempt(h) \/ countRecentAttempts(h) \/ loadEnabledRules(h)
      BY <3>3 DEF recordResolveAttempt, countRecentAttempts, loadEnabledRules, createWithdrawal,
                  bounds
    <3>4. CASE checkTransfer(h)
      BY <3>4 DEF checkTransfer, ruleEvaluationOrder, createWithdrawal, bounds
    <3>5. CASE recordFraudCheck(h) \/ GetAccountByID(h)
      BY <3>5 DEF recordFraudCheck, GetAccountByID, createWithdrawal, bounds
    <3>6. CASE createWithdrawal(h)
      BY <3>1, <3>6 DEF createWithdrawal, ExecuteTransfer, Outcome, LedgerError, Mishap, bounds,
                        OpTask
    <3>7. CASE insertWithdrawal(h)
      BY <3>7 DEF insertWithdrawal, createWithdrawal, bounds
    <3>8. CASE Abandon(h)
      BY <3>8 DEF Abandon, Mishap, createWithdrawal, money
    <3> QED  BY <1>2, <3>2, <3>3, <3>4, <3>5, <3>6, <3>7, <3>8 DEF HandlerStep
  <2>6. ASSUME NEW d \in debits'
        PROVE  \/ \E w \in withdrawals' : w.op = d
               \/ \E g \in Handlers : task'[g].at = "insert" /\ task'[g].op = d
               \/ d \in faulted'
    <3>1. CASE d \notin debits
      <4>1. createWithdrawal(h) /\ d = task[h].op
        BY <1>2, <3>1, HandlerStepWrites
      <4> QED  BY <2>5, <3>1, <4>1
    <3>2. CASE d \in faulted
      BY <2>5, <3>2
    <3>3. ASSUME NEW w \in withdrawals, w.op = d
          PROVE  \E v \in withdrawals' : v.op = d
      <4>1. withdrawals \subseteq withdrawals'
        BY <2>3 DEF insertWithdrawal
      <4> QED  BY <3>3, <4>1
    <3>4. ASSUME NEW g \in Handlers, task[g].at = "insert", task[g].op = d
          PROVE  \/ \E w \in withdrawals' : w.op = d
                 \/ \E f \in Handlers : task'[f].at = "insert" /\ task'[f].op = d
                 \/ d \in faulted'
      <4>1. CASE g # h  BY <2>1, <3>4, <4>1
      <4>2. CASE g = h /\ insertWithdrawal(h)
        <5>1. [op |-> task[h].op, status |-> task[h].status] \in withdrawals'
          BY <4>2 DEF insertWithdrawal
        <5> QED  BY <3>4, <4>2, <5>1
      <4>3. CASE g = h /\ Abandon(h)  BY <3>4, <4>3 DEF Abandon, Mishap
      <4> QED  BY <2>5, <3>4, <4>1, <4>2, <4>3
    <3> QED  BY <1>0, <3>1, <3>2, <3>3, <3>4
  <2> QED  BY <2>4, <2>6
<1> QED  BY <1>1, <1>2 DEF OperationsNext, HandlerStep

LEMMA CleanupStep ==
    /\ OperationsTypeOK /\ CleanupForgetsOld
    /\ [OperationsNext]_operationsVars
    => CleanupForgetsOld'
<1> SUFFICES ASSUME OperationsTypeOK, CleanupForgetsOld, [OperationsNext]_operationsVars
             PROVE  CleanupForgetsOld'
  OBVIOUS
<1> USE OperationsAssumption DEF OperationsTypeOK
<1>1. CASE UNCHANGED operationsVars
  BY <1>1 DEF operationsVars, limits, CleanupForgetsOld
<1>2. CASE Tick
  <2>1. ASSUME NEW r \in resolved \ attempts
        PROVE  r.at < now + 1 - Retention
    <3>1. r.at < now - Retention /\ r.at \in Nat
      BY DEF CleanupForgetsOld, ResolveRow
    <3> QED  BY <3>1
  <2> QED  BY <1>2, <2>1 DEF Tick, limits, CleanupForgetsOld
<1>3. CASE deleteStaleResolveAttempts
  <2>1. ASSUME NEW r \in resolved, r \notin attempts'
        PROVE  r.at < now - Retention
    <3>1. r.at \in Nat  BY DEF ResolveRow
    <3> QED  BY <1>3, <2>1, <3>1 DEF deleteStaleResolveAttempts, CleanupForgetsOld
  <2> QED  BY <1>3, <2>1 DEF deleteStaleResolveAttempts, CleanupForgetsOld
<1>4. ASSUME NEW h \in Handlers, HandlerStep(h)
      PROVE  CleanupForgetsOld'
  <2>1. resolved' \ attempts' \subseteq resolved \ attempts
    BY <1>4, HandlerStepWrites DEF recordResolveAttempt
  <2>2. now' = now
    BY <1>4, HandlerStepMoves
  <2> QED  BY <2>1, <2>2 DEF CleanupForgetsOld
<1> QED  BY <1>1, <1>2, <1>3, <1>4 DEF OperationsNext, HandlerStep

\* The sets the windows count are finite, and none has more handlers than there are.
LEMMA WindowsFinite ==
    ASSUME OperationsTypeOK, NEW t \in Nat
    PROVE  /\ IsFiniteSet(ResolvedIn(t)) /\ Cardinality(ResolvedIn(t)) \in Nat
           /\ IsFiniteSet(ApprovedIn(t)) /\ Cardinality(ApprovedIn(t)) \in Nat
           /\ Summands(ApprovedIn(t)) /\ TotalAmount(ApprovedIn(t)) \in Nat
           /\ Cardinality(Handlers) \in Nat /\ Slack \in Nat /\ Cardinality(Handlers) = Slack + 1
           /\ \A G \in SUBSET Handlers :
                 IsFiniteSet(G) /\ Cardinality(G) \in Nat /\ Cardinality(G) <= Slack + 1
<1> USE DEF OperationsTypeOK
<1>1. IsFiniteSet(ResolvedIn(t)) /\ IsFiniteSet(ApprovedIn(t))
  BY FS_Subset DEF ResolvedIn, ApprovedIn
<1>2. Cardinality(ResolvedIn(t)) \in Nat /\ Cardinality(ApprovedIn(t)) \in Nat
  BY <1>1, FS_CardinalityType
<1>3. Summands(ApprovedIn(t))
  BY <1>1 DEF Summands, ApprovedIn, CheckRow
<1>4. IsFiniteSet(Handlers) /\ Cardinality(Handlers) \in Nat /\ Cardinality(Handlers) # 0
  BY OperationsAssumption, FS_CardinalityType, FS_EmptySet
<1>5. Slack \in Nat /\ Cardinality(Handlers) = Slack + 1
  BY <1>4 DEF Slack
<1>6. ASSUME NEW G \in SUBSET Handlers
      PROVE  IsFiniteSet(G) /\ Cardinality(G) \in Nat /\ Cardinality(G) <= Slack + 1
  <2>1. IsFiniteSet(G) /\ Cardinality(G) <= Cardinality(Handlers)
    BY <1>4, FS_Subset
  <2>2. Cardinality(G) \in Nat
    BY <2>1, FS_CardinalityType
  <2> QED  BY <1>5, <2>1, <2>2
<1> QED  BY <1>1, <1>2, <1>3, TotalRemove, <1>4, <1>5, <1>6

LEMMA ResolveWindowsStep ==
    /\ OperationsTypeOK /\ OperationsTypeOK' /\ Numbered /\ CleanupForgetsOld /\ ResolveWindows
    /\ [OperationsNext]_operationsVars
    => ResolveWindows'
<1> SUFFICES ASSUME OperationsTypeOK, OperationsTypeOK', Numbered, CleanupForgetsOld,
                    ResolveWindows, [OperationsNext]_operationsVars,
                    Retention >= Window, NEW t \in Nat
             PROVE  Cardinality(ResolvedIn(t)') + Cardinality(Resolving(t)')
                        <= ResolveLimit + Slack
  BY DEF ResolveWindows
<1>a. /\ IsFiniteSet(ResolvedIn(t)) /\ Cardinality(ResolvedIn(t)) \in Nat
      /\ Slack \in Nat
      /\ \A G \in SUBSET Handlers :
            IsFiniteSet(G) /\ Cardinality(G) \in Nat /\ Cardinality(G) <= Slack + 1
  BY WindowsFinite
<1>b. Resolving(t) \in SUBSET Handlers /\ Resolving(t)' \in SUBSET Handlers
  BY DEF Resolving
<1>c. Cardinality(ResolvedIn(t)) + Cardinality(Resolving(t)) <= ResolveLimit + Slack
  BY DEF ResolveWindows
\* Most steps write no attempt and allow nobody.
<1>d. ASSUME resolved' = resolved, Resolving(t)' \subseteq Resolving(t)
      PROVE  Cardinality(ResolvedIn(t)') + Cardinality(Resolving(t)') <= ResolveLimit + Slack
  <2>1. ResolvedIn(t)' = ResolvedIn(t)
    BY <1>d DEF ResolvedIn
  <2>2. /\ Cardinality(Resolving(t)') <= Cardinality(Resolving(t))
        /\ Cardinality(Resolving(t)') \in Nat /\ Cardinality(Resolving(t)) \in Nat
    BY <1>a, <1>b, <1>d, FS_Subset
  <2> QED  BY <1>a, <1>c, <2>1, <2>2, OperationsAssumption
<1>1. CASE UNCHANGED operationsVars
  <2>1. resolved' = resolved /\ Resolving(t)' = Resolving(t)
    BY <1>1 DEF operationsVars, limits, Resolving
  <2> QED  BY <1>d, <2>1
<1>2. CASE Tick \/ deleteStaleResolveAttempts
  <2>1. resolved' = resolved /\ Resolving(t)' = Resolving(t)
    BY <1>2 DEF Tick, deleteStaleResolveAttempts, limits, Resolving
  <2> QED  BY <1>d, <2>1
<1>3. ASSUME NEW h \in Handlers, HandlerStep(h)
      PROVE  Cardinality(ResolvedIn(t)') + Cardinality(Resolving(t)') <= ResolveLimit + Slack
  <2>1. \A g \in Handlers \ {h} : task'[g] = task[g]
    BY <1>3, HandlerStepMoves
  <2>2. Resolving(t)' \ {h} = Resolving(t) \ {h}
    BY <2>1 DEF Resolving
  <2>3. CASE resolved' = resolved /\ h \notin Resolving(t)'
    BY <1>d, <2>2, <2>3
  <2>4. CASE h \in Resolving(t)'
    <3> DEFINE seenRows == {a \in attempts : a.at > now - Window}
    <3>1. countRecentAttempts(h)
      BY <1>3, <2>4, HandlerStepStages DEF Resolving
    <3>2. /\ task'[h].since = now /\ task'[h].seen = Cardinality(seenRows)
          /\ resolved' = resolved
      BY <3>1 DEF countRecentAttempts, limits, OperationsTypeOK, OpTask
    <3>3. now \in t .. t + Window - 1 /\ Cardinality(seenRows) < ResolveLimit
      BY <2>4, <3>2 DEF Resolving, Allowed
    <3>4. IsFiniteSet(seenRows)
      <4>1. IsFiniteSet(attempts)  BY FS_Subset DEF OperationsTypeOK
      <4> QED  BY <4>1, FS_Subset
    <3>5. ResolvedIn(t) \subseteq seenRows
      <4> SUFFICES ASSUME NEW r \in resolved, r.at \in t .. t + Window - 1
                   PROVE  r \in attempts /\ r.at > now - Window
        BY DEF ResolvedIn
      <4>1. r.at \in Nat /\ now \in Nat  BY DEF OperationsTypeOK, ResolveRow
      <4>2. r.at > now - Window  BY <3>3, <4>1, OperationsAssumption
      <4>3. ~ (r.at < now - Retention)  BY <4>1, <4>2, OperationsAssumption
      <4> QED  BY <4>2, <4>3 DEF CleanupForgetsOld
    <3>6. Cardinality(ResolvedIn(t)) <= Cardinality(seenRows) /\ Cardinality(seenRows) \in Nat
      BY <3>4, <3>5, FS_Subset, FS_CardinalityType
    <3>7. ResolvedIn(t)' = ResolvedIn(t)
      BY <3>2 DEF ResolvedIn
    <3>8. Cardinality(Resolving(t)') <= Slack + 1 /\ Cardinality(Resolving(t)') \in Nat
      BY <1>a, <1>b
    <3> HIDE DEF seenRows
    <3> QED  BY <1>a, <3>3, <3>6, <3>7, <3>8, OperationsAssumption
  <2>5. CASE resolved' # resolved
    <3>1. /\ recordResolveAttempt(h) /\ task[h].at = "attempt"
          /\ task'[h].at \in {"check", "idle"}
      BY <1>3, <2>5, HandlerStepWrites
    <3>2. Allowed(task[h].seen) /\ resolved' = resolved \cup {Attempt(h)}
      BY <2>5, <3>1 DEF recordResolveAttempt
    <3>3. h \notin Resolving(t)'
      BY <3>1 DEF Resolving
    <3>4. Attempt(h) \notin resolved /\ Attempt(h).at = task[h].since
      BY <3>1 DEF Numbered, Attempt
    <3>5. CASE task[h].since \in t .. t + Window - 1
      <4>1. h \in Resolving(t)
        BY <3>1, <3>2, <3>5 DEF Resolving
      <4>2. Resolving(t)' = Resolving(t) \ {h}
        BY <2>2, <3>3
      <4>3. Cardinality(Resolving(t)') = Cardinality(Resolving(t)) - 1
        BY <1>a, <1>b, <4>1, <4>2, FS_RemoveElement
      <4>4. ResolvedIn(t)' = ResolvedIn(t) \cup {Attempt(h)} /\ Attempt(h) \notin ResolvedIn(t)
        BY <3>2, <3>4, <3>5 DEF ResolvedIn
      <4>5. Cardinality(ResolvedIn(t)') = Cardinality(ResolvedIn(t)) + 1
        BY <1>a, <4>4, FS_AddElement
      <4>6. Cardinality(Resolving(t)) \in Nat
        BY <1>a, <1>b
      <4> QED  BY <1>a, <1>c, <4>3, <4>5, <4>6, OperationsAssumption
    <3>6. CASE task[h].since \notin t .. t + Window - 1
      <4>1. ResolvedIn(t)' = ResolvedIn(t)
        BY <3>2, <3>4, <3>6 DEF ResolvedIn
      <4>2. Resolving(t)' = Resolving(t)
        BY <2>2, <3>3, <3>6 DEF Resolving
      <4> QED  BY <1>c, <4>1, <4>2
    <3> QED  BY <3>5, <3>6
  <2> QED  BY <2>3, <2>4, <2>5
<1> QED  BY <1>1, <1>2, <1>3 DEF OperationsNext, HandlerStep

\* A rule that is enabled let the transfer through to the next stage.
LEMMA RulePassed ==
    ASSUME OperationsTypeOK, NEW h \in Handlers, checkTransfer(h)
    PROVE  /\ task'[h].since = task[h].since /\ task'[h].amount = task[h].amount
           /\ UNCHANGED <<attempts, resolved, checks>>
           /\ task'[h].at = "velocity_count" =>
                /\ task[h].at = "amount_threshold"
                /\ "amount_threshold" \in DOMAIN Thresholds =>
                     ~ (task[h].amount > Thresholds["amount_threshold"])
           /\ task'[h].at = "velocity_sum" =>
                /\ task[h].at = "velocity_count"
                /\ "velocity_count" \in DOMAIN Thresholds =>
                     ~ (Cardinality(Recent(task[h].since)) + 1 > Thresholds["velocity_count"])
           /\ task'[h].at = "approve" =>
                /\ task[h].at = "velocity_sum"
                /\ "velocity_sum" \in DOMAIN Thresholds =>
                     ~ (TotalAmount(Recent(task[h].since)) + task[h].amount
                          > Thresholds["velocity_sum"])
<1> USE DEF OperationsTypeOK
<1>0. task[h] \in OpTask
  OBVIOUS
<1>1. PICK i \in {1, 2, 3} :
        LET rule == ruleEvaluationOrder[i]
            trips == rule \in DOMAIN Thresholds /\ observed(rule, h) > Thresholds[rule]
        IN /\ task[h].at = rule
           /\ Goto(h, IF trips THEN "reject"
                      ELSE IF i = Len(ruleEvaluationOrder) THEN "approve"
                      ELSE ruleEvaluationOrder[i + 1])
           /\ UNCHANGED <<now, limits, money, bounds>>
  BY DEF checkTransfer, ruleEvaluationOrder
<1>2. UNCHANGED <<attempts, resolved, checks>>
  BY <1>1 DEF limits
<1>3. CASE i = 1
  <2> DEFINE trips == /\ "amount_threshold" \in DOMAIN Thresholds
                      /\ observed("amount_threshold", h) > Thresholds["amount_threshold"]
  <2>a. /\ task[h].at = "amount_threshold"
        /\ Goto(h, IF trips THEN "reject" ELSE "velocity_count")
    <3> HIDE DEF Goto, observed
    <3>1. /\ ruleEvaluationOrder[1] = "amount_threshold" /\ ruleEvaluationOrder[1 + 1] = "velocity_count"
          /\ 1 # Len(ruleEvaluationOrder)
      BY DEF ruleEvaluationOrder
    <3> QED  BY <1>1, <1>3, <3>1
  <2>1. /\ task[h].at = "amount_threshold"
        /\ \/ task' = [task EXCEPT ![h].at = "reject"]
           \/ task' = [task EXCEPT ![h].at = "velocity_count"] /\ ~trips
    <3> HIDE DEF trips
    <3> QED  BY <2>a DEF Goto
  <2>2. observed("amount_threshold", h) = task[h].amount
    BY DEF observed
  <2> QED  BY <1>0, <1>2, <2>1, <2>2 DEF OpTask
<1>4. CASE i = 2
  <2> DEFINE trips == /\ "velocity_count" \in DOMAIN Thresholds
                      /\ observed("velocity_count", h) > Thresholds["velocity_count"]
  <2>a. /\ task[h].at = "velocity_count"
        /\ Goto(h, IF trips THEN "reject" ELSE "velocity_sum")
    <3> HIDE DEF Goto, observed
    <3>1. /\ ruleEvaluationOrder[2] = "velocity_count" /\ ruleEvaluationOrder[2 + 1] = "velocity_sum"
          /\ 2 # Len(ruleEvaluationOrder)
      BY DEF ruleEvaluationOrder
    <3> QED  BY <1>1, <1>4, <3>1
  <2>1. /\ task[h].at = "velocity_count"
        /\ \/ task' = [task EXCEPT ![h].at = "reject"]
           \/ task' = [task EXCEPT ![h].at = "velocity_sum"] /\ ~trips
    <3> HIDE DEF trips
    <3> QED  BY <2>a DEF Goto
  <2>2. observed("velocity_count", h) = Cardinality(Recent(task[h].since)) + 1
    BY DEF observed, countRecentApprovedTransfers
  <2> QED  BY <1>0, <1>2, <2>1, <2>2 DEF OpTask
<1>5. CASE i = 3
  <2>1. /\ task[h].at = "velocity_sum"
        /\ \/ task' = [task EXCEPT ![h].at = "reject"]
           \/ /\ task' = [task EXCEPT ![h].at = "approve"]
              /\ "velocity_sum" \in DOMAIN Thresholds =>
                   ~ (observed("velocity_sum", h) > Thresholds["velocity_sum"])
    BY <1>1, <1>5 DEF ruleEvaluationOrder, Goto
  <2>2. observed("velocity_sum", h) = TotalAmount(Recent(task[h].since)) + task[h].amount
    BY DEF observed, sumRecentApprovedTransfers
  <2> QED  BY <1>0, <1>2, <2>1, <2>2 DEF OpTask
<1> QED  BY <1>1, <1>3, <1>4, <1>5

\* What the recording of a decision adds.
LEMMA RecordedCheck ==
    ASSUME OperationsTypeOK, Numbered, NEW h \in Handlers, HandlerStep(h), checks' # checks
    PROVE  /\ task[h].at = "approve" /\ task'[h].at = "idle"
           /\ \E c : /\ c \notin checks /\ checks' = checks \cup {c}
                     /\ c.at = task[h].since /\ c.amount = task[h].amount
<1>1. recordFraudCheck(h) /\ task[h].at = "approve" /\ task'[h] = NoTask
  BY HandlerStepWrites
<1> DEFINE c == [op |-> task[h].op, at |-> task[h].since, amount |-> task[h].amount]
<1>2. checks' = checks \cup {c}
  BY <1>1 DEF recordFraudCheck
<1>3. c \notin checks
  BY <1>1 DEF Numbered, Live
<1>4. c.at = task[h].since /\ c.amount = task[h].amount
  OBVIOUS
<1> HIDE DEF c
<1> QED  BY <1>1, <1>2, <1>3, <1>4 DEF NoTask

LEMMA RecentCoversWindow ==
    ASSUME OperationsTypeOK, NEW t \in Nat, NEW since \in t .. t + Window
    PROVE  /\ ApprovedIn(t) \subseteq Recent(since)
           /\ Summands(Recent(since))
           /\ Cardinality(Recent(since)) \in Nat /\ TotalAmount(Recent(since)) \in Nat
           /\ Cardinality(ApprovedIn(t)) <= Cardinality(Recent(since))
           /\ TotalAmount(ApprovedIn(t)) <= TotalAmount(Recent(since))
<1> USE DEF OperationsTypeOK
<1>1. IsFiniteSet(Recent(since))
  BY FS_Subset DEF Recent
<1>2. Summands(Recent(since))
  BY <1>1 DEF Summands, Recent, CheckRow
<1>3. ApprovedIn(t) \subseteq Recent(since)
  <2>1. ASSUME NEW c \in checks, c.at \in t .. t + Window
        PROVE  c.at >= since - Window
    BY <2>1, OperationsAssumption
  <2> QED  BY <2>1 DEF ApprovedIn, Recent
<1> QED  BY <1>1, <1>2, <1>3, FS_Subset, FS_CardinalityType, TotalRemove, TotalMonotone

LEMMA CountWindowsStep ==
    /\ OperationsTypeOK /\ OperationsTypeOK' /\ Numbered /\ CountWindows
    /\ [OperationsNext]_operationsVars
    => CountWindows'
<1> SUFFICES ASSUME OperationsTypeOK, OperationsTypeOK', Numbered, CountWindows,
                    [OperationsNext]_operationsVars,
                    "velocity_count" \in DOMAIN Thresholds, NEW t \in Nat
             PROVE  Cardinality(ApprovedIn(t)') + Cardinality(Counted(t)')
                        <= Thresholds["velocity_count"] + Slack
  BY DEF CountWindows
<1>a. /\ IsFiniteSet(ApprovedIn(t)) /\ Cardinality(ApprovedIn(t)) \in Nat
      /\ Slack \in Nat /\ Thresholds["velocity_count"] \in Nat
      /\ \A G \in SUBSET Handlers :
            IsFiniteSet(G) /\ Cardinality(G) \in Nat /\ Cardinality(G) <= Slack + 1
  BY WindowsFinite, OperationsAssumption
<1>b. Counted(t) \in SUBSET Handlers /\ Counted(t)' \in SUBSET Handlers
  BY DEF Counted
<1>c. Cardinality(ApprovedIn(t)) + Cardinality(Counted(t)) <= Thresholds["velocity_count"] + Slack
  BY DEF CountWindows
<1>d. ASSUME checks' = checks, Counted(t)' \subseteq Counted(t)
      PROVE  Cardinality(ApprovedIn(t)') + Cardinality(Counted(t)') <= Thresholds["velocity_count"] + Slack
  <2>1. ApprovedIn(t)' = ApprovedIn(t)
    BY <1>d DEF ApprovedIn
  <2>2. /\ Cardinality(Counted(t)') <= Cardinality(Counted(t))
        /\ Cardinality(Counted(t)') \in Nat /\ Cardinality(Counted(t)) \in Nat
    BY <1>a, <1>b, <1>d, FS_Subset
  <2> QED  BY <1>a, <1>c, <2>1, <2>2
<1>1. CASE UNCHANGED operationsVars \/ Tick \/ deleteStaleResolveAttempts
  <2>1. checks' = checks /\ Counted(t)' = Counted(t)
    BY <1>1 DEF operationsVars, Tick, deleteStaleResolveAttempts, limits, Counted
  <2> QED  BY <1>d, <2>1
<1>2. ASSUME NEW h \in Handlers, HandlerStep(h)
      PROVE  Cardinality(ApprovedIn(t)') + Cardinality(Counted(t)') <= Thresholds["velocity_count"] + Slack
  <2>1. \A g \in Handlers \ {h} : task'[g] = task[g]
    BY <1>2, HandlerStepMoves
  <2>2. Counted(t)' \ {h} = Counted(t) \ {h}
    BY <2>1 DEF Counted
  <2>3. CASE checks' = checks /\ (h \in Counted(t)' => h \in Counted(t))
    BY <1>d, <2>2, <2>3
  <2>4. CASE h \in Counted(t)' /\ h \notin Counted(t)
    <3>1. checkTransfer(h)
      BY <1>2, <2>4, HandlerStepStages DEF Counted
    <3>2. /\ task'[h].since = task[h].since /\ checks' = checks
          /\ task[h].since \in t .. t + Window
          /\ ~ (Cardinality(Recent(task[h].since)) + 1 > Thresholds["velocity_count"])
      BY <2>4, <3>1, RulePassed DEF Counted
    <3>3. /\ Cardinality(ApprovedIn(t)) <= Cardinality(Recent(task[h].since))
          /\ Cardinality(Recent(task[h].since)) \in Nat
      BY <3>2, RecentCoversWindow
    <3>4. ApprovedIn(t)' = ApprovedIn(t)
      BY <3>2 DEF ApprovedIn
    <3>5. Cardinality(Counted(t)') <= Slack + 1 /\ Cardinality(Counted(t)') \in Nat
      BY <1>a, <1>b
    <3> QED  BY <1>a, <3>2, <3>3, <3>4, <3>5
  <2>5. CASE checks' # checks
    <3>1. /\ task[h].at = "approve" /\ task'[h].at = "idle"
          /\ \E c : /\ c \notin checks /\ checks' = checks \cup {c}
                    /\ c.at = task[h].since /\ c.amount = task[h].amount
      BY <1>2, <2>5, RecordedCheck
    <3>2. PICK c : c \notin checks /\ checks' = checks \cup {c} /\ c.at = task[h].since
      BY <3>1
    <3>3. h \notin Counted(t)'
      BY <3>1 DEF Counted
    <3>4. CASE task[h].since \in t .. t + Window
      <4>1. h \in Counted(t)
        BY <3>1, <3>4 DEF Counted
      <4>2. Counted(t)' = Counted(t) \ {h}
        BY <2>2, <3>3
      <4>3. Cardinality(Counted(t)') = Cardinality(Counted(t)) - 1 /\ Cardinality(Counted(t)) \in Nat
        BY <1>a, <1>b, <4>1, <4>2, FS_RemoveElement
      <4>4. ApprovedIn(t)' = ApprovedIn(t) \cup {c} /\ c \notin ApprovedIn(t)
        BY <3>2, <3>4 DEF ApprovedIn
      <4>5. Cardinality(ApprovedIn(t)') = Cardinality(ApprovedIn(t)) + 1
        BY <1>a, <4>4, FS_AddElement
      <4> QED  BY <1>a, <1>c, <4>3, <4>5
    <3>5. CASE task[h].since \notin t .. t + Window
      <4>1. ApprovedIn(t)' = ApprovedIn(t)
        BY <3>2, <3>5 DEF ApprovedIn
      <4>2. Counted(t)' = Counted(t)
        BY <2>2, <3>3, <3>5 DEF Counted
      <4> QED  BY <1>c, <4>1, <4>2
    <3> QED  BY <3>4, <3>5
  <2> QED  BY <2>3, <2>4, <2>5
<1> QED  BY <1>1, <1>2 DEF OperationsNext, HandlerStep

LEMMA AmountsPassedStep ==
    /\ OperationsTypeOK /\ AmountsPassed
    /\ [OperationsNext]_operationsVars
    => AmountsPassed'
<1> SUFFICES ASSUME OperationsTypeOK, AmountsPassed, [OperationsNext]_operationsVars,
                    "amount_threshold" \in DOMAIN Thresholds, NEW g \in Handlers,
                    task'[g].at \in {"velocity_count", "velocity_sum", "approve"}
             PROVE  task'[g].amount <= Thresholds["amount_threshold"]
  BY DEF AmountsPassed
<1>1. CASE UNCHANGED operationsVars \/ Tick \/ deleteStaleResolveAttempts
  BY <1>1 DEF operationsVars, Tick, deleteStaleResolveAttempts, AmountsPassed
<1>2. ASSUME NEW h \in Handlers, HandlerStep(h)
      PROVE  task'[g].amount <= Thresholds["amount_threshold"]
  <2>1. CASE g # h
    <3>1. task'[g] = task[g]
      BY <1>2, <2>1, HandlerStepMoves
    <3> QED  BY <3>1 DEF AmountsPassed
  <2>2. CASE g = h
    <3>1. checkTransfer(h)
      BY <1>2, <2>2, HandlerStepStages
    <3>2. task[h].amount \in Nat /\ Thresholds["amount_threshold"] \in Nat
      BY OperationsAssumption DEF OperationsTypeOK, OpTask
    <3> QED  BY <2>2, <3>1, <3>2, RulePassed DEF AmountsPassed
  <2> QED  BY <2>1, <2>2
<1> QED  BY <1>1, <1>2 DEF OperationsNext, HandlerStep

LEMMA Multiples ==
    ASSUME NEW n \in Nat, NEW m \in Nat, m <= n, NEW a \in Nat
    PROVE  /\ n * a \in Nat /\ m * a \in Nat /\ m * a <= n * a
           /\ (n + 1) * a = n * a + a
<1>1. PICK k \in Nat : n = m + k
  <2>1. n - m \in Nat /\ n = m + (n - m)
    OBVIOUS
  <2> QED  BY <2>1
<1>2. n * a = m * a + k * a /\ k * a \in Nat /\ m * a \in Nat
  BY <1>1
<1> QED  BY <1>2

\* While handlers are still to record, the total, what they add at most and the
\* amount of the last one to pass fit the bound.
LEMMA SumWindowsStep ==
    /\ OperationsTypeOK /\ OperationsTypeOK' /\ Numbered /\ AmountsPassed /\ SumWindows
    /\ [OperationsNext]_operationsVars
    => SumWindows'
<1> DEFINE Rest(n) == (n - 1) * Largest
           Fits(total, amount, n) == total + amount + Rest(n) <= SumBound
           Holds(total, S, amountOf) ==
               /\ total <= SumBound
               /\ S # {} => \E g \in S : Fits(total, amountOf[g].amount, Cardinality(S))
<1> SUFFICES ASSUME OperationsTypeOK, OperationsTypeOK', Numbered, AmountsPassed, SumWindows,
                    [OperationsNext]_operationsVars,
                    {"velocity_sum", "amount_threshold"} \subseteq DOMAIN Thresholds,
                    NEW t \in Nat
             PROVE  Holds(TotalAmount(ApprovedIn(t)'), Summed(t)', task')
  BY DEF SumWindows, SumBound, Largest
<1>a. /\ Summands(ApprovedIn(t)) /\ TotalAmount(ApprovedIn(t)) \in Nat
      /\ Slack \in Nat /\ Largest \in Nat /\ Thresholds["velocity_sum"] \in Nat
      /\ \A G \in SUBSET Handlers :
            IsFiniteSet(G) /\ Cardinality(G) \in Nat /\ Cardinality(G) <= Slack + 1
  BY WindowsFinite, OperationsAssumption DEF Largest
<1>b. /\ Summed(t) \in SUBSET Handlers /\ Summed(t)' \in SUBSET Handlers
      /\ SumBound \in Nat
  <2>1. Slack * Largest \in Nat  BY <1>a, Multiples
  <2> QED  BY <1>a, <2>1 DEF Summed, SumBound
<1>c. Holds(TotalAmount(ApprovedIn(t)), Summed(t), task)
  BY DEF SumWindows
<1>e. /\ \A g \in Summed(t) : task[g].amount \in Nat /\ task[g].amount <= Largest
      /\ \A g \in Summed(t)' : task'[g].amount \in Nat
  BY DEF Summed, AmountsPassed, OperationsTypeOK, OpTask, Largest
<1>f. ASSUME NEW n \in Nat, n >= 1
      PROVE  /\ Rest(n) \in Nat
             /\ n >= 2 => Rest(n) = Rest(n - 1) + Largest
             /\ \A m \in Nat : m >= 1 /\ m <= n => Rest(m) <= Rest(n)
  <2>1. n - 1 \in Nat  BY <1>f
  <2>2. Rest(n) \in Nat  BY <1>a, <2>1, Multiples
  <2>3. ASSUME n >= 2
        PROVE  Rest(n) = Rest(n - 1) + Largest
    <3> DEFINE k == n - 2
    <3>1. k \in Nat  BY <2>3
    <3> HIDE DEF k
    <3>2. (k + 1) * Largest = k * Largest + Largest  BY <1>a, <3>1, Multiples
    <3>3. k + 1 = n - 1 /\ k = (n - 1) - 1  BY DEF k
    <3> QED  BY <3>2, <3>3
  <2>4. ASSUME NEW m \in Nat, m >= 1, m <= n
        PROVE  Rest(m) <= Rest(n)
    <3>1. m - 1 \in Nat /\ m - 1 <= n - 1  BY <2>4
    <3> QED  BY <1>a, <2>1, <3>1, Multiples
  <2> QED  BY <2>2, <2>3, <2>4
<1> DEFINE tot == TotalAmount(ApprovedIn(t))
           N == Cardinality(Summed(t))
<1>g. tot \in Nat /\ N \in Nat /\ (Summed(t) # {} => N >= 1)
  <2>1. IsFiniteSet(Summed(t)) /\ N \in Nat  BY <1>a, <1>b
  <2>2. Summed(t) # {} => N # 0  BY <2>1, FS_EmptySet
  <2> QED  BY <1>a, <2>1, <2>2
\* Most steps write no check and let nobody pass.
<1>h. ASSUME ApprovedIn(t)' = ApprovedIn(t), Summed(t)' \subseteq Summed(t),
             \A g \in Summed(t)' : task'[g].amount = task[g].amount
      PROVE  Holds(TotalAmount(ApprovedIn(t)'), Summed(t)', task')
  <2>1. CASE Summed(t)' = {}
    BY <1>c, <1>h, <2>1
  <2>2. ASSUME NEW f \in Summed(t)'
        PROVE  Holds(TotalAmount(ApprovedIn(t)'), Summed(t)', task')
    <3> DEFINE K == Cardinality(Summed(t)')
    <3>1. K \in Nat /\ K >= 1 /\ K <= N
      <4>1. IsFiniteSet(Summed(t)) /\ IsFiniteSet(Summed(t)') /\ K \in Nat  BY <1>a, <1>b
      <4>2. K <= N  BY <1>h, <4>1, FS_Subset
      <4>3. K # 0  BY <2>2, <4>1, FS_EmptySet
      <4> QED  BY <4>1, <4>2, <4>3
    <3>2. PICK g \in Summed(t) : Fits(tot, task[g].amount, N)
      BY <1>c, <1>h, <2>2
    <3>3. task[g].amount \in Nat /\ task[f].amount \in Nat /\ task[f].amount <= Largest
      BY <1>e, <1>h, <2>2
    <3>4. CASE g \in Summed(t)'
      <4>1. Rest(K) <= Rest(N) /\ Rest(K) \in Nat /\ Rest(N) \in Nat
        BY <1>f, <1>g, <3>1
      <4> HIDE DEF Rest, N, K
      <4>2. Fits(tot, task[g].amount, K)
        BY <1>b, <1>g, <3>2, <3>3, <4>1
      <4>3. task'[g].amount = task[g].amount  BY <1>h, <3>4
      <4> HIDE DEF Fits
      <4> QED  BY <1>c, <1>h, <3>4, <4>2, <4>3 DEF K
    <3>5. CASE g \notin Summed(t)'
      <4>1. K + 1 <= N
        <5>1. Summed(t)' \subseteq Summed(t) \ {g}  BY <1>h, <3>5
        <5>2. /\ IsFiniteSet(Summed(t)) /\ IsFiniteSet(Summed(t) \ {g})
              /\ Cardinality(Summed(t) \ {g}) = N - 1
          BY <1>a, <1>b, FS_RemoveElement
        <5>3. K <= N - 1  BY <5>1, <5>2, FS_Subset
        <5> QED  BY <1>g, <3>1, <5>3
      <4>2. /\ Rest(K + 1) = Rest(K) + Largest /\ Rest(K) \in Nat
            /\ Rest(K + 1) <= Rest(N) /\ Rest(N) \in Nat
        <5>1. K + 1 \in Nat /\ K + 1 >= 2 /\ K + 1 >= 1 /\ (K + 1) - 1 = K /\ N >= 1
          BY <3>1, <4>1, <1>g
        <5> HIDE DEF Rest, N, K
        <5>2. Rest(K + 1) = Rest((K + 1) - 1) + Largest  BY <1>f, <5>1
        <5>3. Rest(K + 1) <= Rest(N) /\ Rest(N) \in Nat  BY <1>f, <1>g, <4>1, <5>1
        <5>4. Rest(K) \in Nat  BY <1>f, <3>1
        <5> QED  BY <5>1, <5>2, <5>3, <5>4
      <4> HIDE DEF Rest, N, K
      <4>3. Fits(tot, task[f].amount, K)
        BY <1>a, <1>b, <1>g, <3>2, <3>3, <4>2
      <4>4. task'[f].amount = task[f].amount  BY <1>h, <2>2
      <4> HIDE DEF Fits
      <4> QED  BY <1>c, <1>h, <2>2, <4>3, <4>4 DEF K
    <3> QED  BY <3>4, <3>5
  <2> QED  BY <2>1, <2>2
<1>1. CASE UNCHANGED operationsVars \/ Tick \/ deleteStaleResolveAttempts
  <2>1. checks' = checks /\ task' = task
    BY <1>1 DEF operationsVars, Tick, deleteStaleResolveAttempts, limits
  <2> QED  BY <1>h, <2>1 DEF ApprovedIn, Summed
<1>2. ASSUME NEW h \in Handlers, HandlerStep(h)
      PROVE  Holds(TotalAmount(ApprovedIn(t)'), Summed(t)', task')
  <2>1. \A g \in Handlers \ {h} : task'[g] = task[g]
    BY <1>2, HandlerStepMoves
  <2>2. Summed(t)' \ {h} = Summed(t) \ {h}
    BY <2>1 DEF Summed
  <2>3. CASE checks' = checks /\ h \notin Summed(t)'
    <3>1. ApprovedIn(t)' = ApprovedIn(t) /\ Summed(t)' \subseteq Summed(t)
      BY <2>2, <2>3 DEF ApprovedIn
    <3>2. \A g \in Summed(t)' : task'[g].amount = task[g].amount
      BY <1>b, <2>1, <2>3
    <3> QED  BY <1>h, <3>1, <3>2
  <2>4. CASE h \in Summed(t)'
    <3>1. checkTransfer(h) /\ task'[h].at = "approve"
      BY <1>2, <2>4, HandlerStepStages DEF Summed
    <3>2. /\ task'[h].since = task[h].since /\ task'[h].amount = task[h].amount
          /\ checks' = checks
          /\ ~ (TotalAmount(Recent(task[h].since)) + task[h].amount > Thresholds["velocity_sum"])
      BY <3>1, RulePassed
    <3>3. task[h].since \in t .. t + Window
      BY <2>4, <3>2 DEF Summed
    <3>4. /\ tot <= TotalAmount(Recent(task[h].since))
          /\ TotalAmount(Recent(task[h].since)) \in Nat
      BY <3>3, RecentCoversWindow
    <3>5. ApprovedIn(t)' = ApprovedIn(t)
      BY <3>2 DEF ApprovedIn
    <3> DEFINE K == Cardinality(Summed(t)')
               recent == TotalAmount(Recent(task[h].since))
    <3>6. K \in Nat /\ K >= 1 /\ K <= Slack + 1
      <4>1. IsFiniteSet(Summed(t)') /\ K \in Nat /\ K <= Slack + 1  BY <1>a, <1>b
      <4>2. K # 0  BY <2>4, <4>1, FS_EmptySet
      <4> QED  BY <4>1, <4>2
    <3>7. Rest(K) <= Slack * Largest /\ Rest(K) \in Nat /\ Slack * Largest \in Nat
      <4>1. K - 1 \in Nat /\ K - 1 <= Slack  BY <1>a, <3>6
      <4> QED  BY <1>a, <4>1, Multiples
    <3>8. task[h].amount \in Nat
      BY DEF OperationsTypeOK, OpTask
    <3>9. Fits(tot, task'[h].amount, K)
      <4> DEFINE product == Slack * Largest
      <4>1. SumBound = Thresholds["velocity_sum"] + product  BY DEF SumBound
      <4>2. Rest(K) <= product /\ product \in Nat /\ Rest(K) \in Nat  BY <3>7
      <4>3. recent + task[h].amount <= Thresholds["velocity_sum"]
        BY <1>a, <3>2, <3>4, <3>8
      <4> HIDE DEF Rest, K, product
      <4> QED  BY <1>a, <1>g, <3>2, <3>4, <3>8, <4>1, <4>2, <4>3
    <3> HIDE DEF Fits
    <3> QED  BY <1>c, <2>4, <3>5, <3>9
  <2>5. CASE checks' # checks
    <3>1. /\ task[h].at = "approve" /\ task'[h].at = "idle"
          /\ \E c : /\ c \notin checks /\ checks' = checks \cup {c}
                    /\ c.at = task[h].since /\ c.amount = task[h].amount
      BY <1>2, <2>5, RecordedCheck
    <3>2. PICK c : /\ c \notin checks /\ checks' = checks \cup {c}
                   /\ c.at = task[h].since /\ c.amount = task[h].amount
      BY <3>1
    <3>3. h \notin Summed(t)'
      BY <3>1 DEF Summed
    <3>4. \A g \in Summed(t)' : task'[g].amount = task[g].amount
      BY <1>b, <2>1, <3>3
    <3>5. CASE task[h].since \notin t .. t + Window
      <4>1. ApprovedIn(t)' = ApprovedIn(t)
        BY <3>2, <3>5 DEF ApprovedIn
      <4> QED  BY <1>h, <2>2, <3>3, <3>4, <4>1
    <3>6. CASE task[h].since \in t .. t + Window
      <4>1. h \in Summed(t)
        BY <3>1, <3>6 DEF Summed
      <4>2. Summed(t)' = Summed(t) \ {h}
        BY <2>2, <3>3
      <4> DEFINE K == Cardinality(Summed(t)')
                 a == task[h].amount
      <4>3. K = N - 1 /\ N >= 1 /\ K \in Nat
        <5>1. K = N - 1  BY <1>a, <1>b, <4>1, <4>2, FS_RemoveElement
        <5> QED  BY <1>g, <4>1, <5>1
      <4>4. ApprovedIn(t)' = ApprovedIn(t) \cup {c} /\ c \notin ApprovedIn(t)
        BY <3>2, <3>6 DEF ApprovedIn
      <4>5. a \in Nat /\ a <= Largest
        BY <1>e, <4>1
      <4>6. TotalAmount(ApprovedIn(t)') = tot + a
        BY <1>a, <3>2, <4>4, <4>5, TotalAdd
      <4>7. PICK g \in Summed(t) : Fits(tot, task[g].amount, N)
        BY <1>c, <4>1
      <4>8. task[g].amount \in Nat
        BY <1>e
      <4>9. Rest(N) \in Nat
        BY <1>f, <1>g, <4>3
      <4>10. ASSUME NEW f \in Summed(t)'
             PROVE  /\ N >= 2 /\ K >= 1 /\ Rest(N) = Rest(K) + Largest /\ Rest(K) \in Nat
                    /\ task[f].amount \in Nat /\ task[f].amount <= Largest
        <5>1. K # 0  BY <1>a, <1>b, FS_EmptySet
        <5>2. K >= 1 /\ N >= 2  BY <1>g, <4>3, <5>1
        <5>3. Rest(K) \in Nat  BY <1>f, <4>3, <5>2
        <5>4. Rest(N) = Rest(K) + Largest  BY <1>f, <1>g, <4>3, <5>2
        <5> QED  BY <1>e, <4>2, <5>2, <5>3, <5>4
      <4> HIDE DEF Rest, N, K
      <4>11. tot + a <= SumBound
        <5>1. CASE g = h
          BY <1>b, <1>g, <4>5, <4>7, <4>9, <5>1
        <5>2. CASE g # h
          <6>1. g \in Summed(t)'  BY <4>2, <5>2
          <6>2. Rest(N) = Rest(K) + Largest /\ Rest(K) \in Nat  BY <4>10, <6>1
          <6> QED  BY <1>a, <1>b, <1>g, <4>5, <4>7, <4>8, <6>2
        <5> QED  BY <5>1, <5>2
      <4>12. ASSUME NEW f \in Summed(t)'
             PROVE  \E e \in Summed(t)' : Fits(tot + a, task'[e].amount, K)
        <5>1. CASE g = h
          <6>1. Fits(tot + a, task[f].amount, K)
            BY <1>a, <1>b, <1>g, <4>5, <4>7, <4>10, <5>1
          <6> HIDE DEF Fits
          <6> QED  BY <3>4, <6>1
        <5>2. CASE g # h
          <6>1. g \in Summed(t)'  BY <4>2, <5>2
          <6>2. Fits(tot + a, task[g].amount, K)
            BY <1>a, <1>b, <1>g, <4>5, <4>7, <4>8, <4>10
          <6> HIDE DEF Fits
          <6> QED  BY <3>4, <6>1, <6>2
        <5> QED  BY <5>1, <5>2
      <4> HIDE DEF Fits
      <4> QED  BY <4>6, <4>11, <4>12 DEF K
    <3> QED  BY <3>5, <3>6
  <2> QED  BY <2>3, <2>4, <2>5
<1> HIDE DEF Holds
<1> QED  BY <1>1, <1>2 DEF OperationsNext, HandlerStep

LEMMA OperationsInvInit == OperationsInit => OperationsInv
<1> SUFFICES ASSUME OperationsInit PROVE OperationsInv
  OBVIOUS
<1> USE DEF OperationsInit
<1>1. OperationsTypeOK
  <2>1. NoTask \in OpTask  BY DEF NoTask, OpTask, OpSteps, Outcomes
  <2> QED  BY <2>1, FS_EmptySet DEF OperationsTypeOK
<1>2. Numbered /\ OutcomesHold /\ DebitsAccounted /\ CleanupForgetsOld /\ AmountsPassed
  BY DEF Numbered, Live, OutcomesHold, DebitsAccounted, CleanupForgetsOld, AmountsPassed, NoTask
<1>3. ASSUME NEW t \in Nat
      PROVE  /\ Cardinality(ResolvedIn(t)) = 0 /\ Cardinality(Resolving(t)) = 0
             /\ Cardinality(ApprovedIn(t)) = 0 /\ Cardinality(Counted(t)) = 0
             /\ TotalAmount(ApprovedIn(t)) = 0 /\ Summed(t) = {}
             /\ Slack \in Nat
  <2>1. /\ ResolvedIn(t) = {} /\ Resolving(t) = {} /\ ApprovedIn(t) = {} /\ Counted(t) = {}
        /\ Summed(t) = {}
    BY DEF ResolvedIn, Resolving, ApprovedIn, Counted, Summed, NoTask
  <2>2. TotalAmount({}) = 0
    BY FS_EmptySet, TotalUnfolds
  <2> QED  BY <1>1, <2>1, <2>2, FS_EmptySet, WindowsFinite
<1>4. ResolveWindows
  BY <1>3, OperationsAssumption DEF ResolveWindows
<1>5. CountWindows
  BY <1>3, OperationsAssumption DEF CountWindows
<1>6. SumWindows
  <2> SUFFICES ASSUME {"velocity_sum", "amount_threshold"} \subseteq DOMAIN Thresholds,
                      NEW t \in Nat
               PROVE  TotalAmount(ApprovedIn(t)) <= SumBound /\ Summed(t) = {}
    BY DEF SumWindows
  <2>1. Largest \in Nat /\ Thresholds["velocity_sum"] \in Nat /\ Slack \in Nat
    BY <1>3, OperationsAssumption DEF Largest
  <2>2. Slack * Largest \in Nat
    BY <2>1, Multiples
  <2> QED  BY <1>3, <2>1, <2>2 DEF SumBound
<1> QED  BY <1>1, <1>2, <1>4, <1>5, <1>6 DEF OperationsInv

LEMMA OperationsInvStep ==
    OperationsInv /\ [OperationsNext]_operationsVars => OperationsInv'
<1> SUFFICES ASSUME OperationsInv, [OperationsNext]_operationsVars
             PROVE  OperationsInv'
  OBVIOUS
<1>1. /\ OperationsTypeOK /\ Numbered /\ OutcomesHold /\ DebitsAccounted
      /\ CleanupForgetsOld /\ ResolveWindows /\ CountWindows /\ AmountsPassed /\ SumWindows
  BY DEF OperationsInv
<1>2. OperationsTypeOK'
  BY <1>1, OperationsTypesStep
<1>3. Numbered' /\ OutcomesHold' /\ DebitsAccounted'
  BY <1>1, NumberedStep, OutcomesStep, DebitsStep
<1>4. CleanupForgetsOld' /\ ResolveWindows'
  BY <1>1, <1>2, CleanupStep, ResolveWindowsStep
<1>5. CountWindows' /\ AmountsPassed'
  BY <1>1, <1>2, CountWindowsStep, AmountsPassedStep
<1>6. SumWindows'
  BY <1>1, <1>2, SumWindowsStep
<1> QED  BY <1>2, <1>3, <1>4, <1>5, <1>6 DEF OperationsInv

\* The inductive invariant holds throughout.
THEOREM OperationsInvariant == OperationsSpec => []OperationsInv
<1> QED  BY OperationsInvInit, OperationsInvStep, PTL DEF OperationsSpec

\* However many of a customer's withdrawals run at once, fail or crash, a row
\* says of its debit what the ledger did, and no debit is without a row unless
\* its request is still running or met a fault (createWithdrawal).
THEOREM WithdrawalsMatchLedger == OperationsSpec => []DebitsAccounted
<1>1. OperationsInv => DebitsAccounted
  BY DEF OperationsInv
<1> QED  BY <1>1, OperationsInvariant, PTL

\* The resolve limit is exceeded by what runs at the same time only, whatever
\* the cleanup removes, if its retention outlives the window
\* (recordResolveAttempt, deleteStaleResolveAttempts).
THEOREM ResolveLimitHolds == OperationsSpec => []AttemptsBounded
<1>1. OperationsInv => AttemptsBounded
  <2> SUFFICES ASSUME OperationsInv, Retention >= Window, NEW t \in 0 .. MaxNow
               PROVE  Cardinality(ResolvedIn(t)) <= ResolveLimit + Slack
    BY DEF AttemptsBounded, LimitHolds
  <2>1. t \in Nat  BY OperationsAssumption
  <2>2. Resolving(t) \in SUBSET Handlers  BY DEF Resolving
  <2>3. /\ Cardinality(ResolvedIn(t)) \in Nat /\ Cardinality(Resolving(t)) \in Nat
        /\ Slack \in Nat /\ ResolveLimit \in Nat
    BY <2>1, <2>2, WindowsFinite, OperationsAssumption DEF OperationsInv
  <2>4. Cardinality(ResolvedIn(t)) + Cardinality(Resolving(t)) <= ResolveLimit + Slack
    BY <2>1 DEF OperationsInv, ResolveWindows
  <2> QED  BY <2>3, <2>4
<1> QED  BY <1>1, OperationsInvariant, PTL

\* So are the velocity rules, in number and in amount (checkTransfer,
\* recordFraudCheck), for any thresholds and any number of handlers.
THEOREM VelocityLimitsHold == OperationsSpec => []VelocityBounded
<1>1. OperationsInv => VelocityBounded
  <2> SUFFICES ASSUME OperationsInv, NEW t \in 0 .. MaxNow
               PROVE  /\ "velocity_count" \in DOMAIN Thresholds =>
                           Cardinality(ApprovedIn(t)) <= Thresholds["velocity_count"] + Slack
                      /\ {"velocity_sum", "amount_threshold"} \subseteq DOMAIN Thresholds =>
                           TotalAmount(ApprovedIn(t))
                             <= Thresholds["velocity_sum"] + Slack * Thresholds["amount_threshold"]
    BY DEF VelocityBounded
  <2>1. t \in Nat  BY OperationsAssumption
  <2>2. ASSUME "velocity_count" \in DOMAIN Thresholds
        PROVE  Cardinality(ApprovedIn(t)) <= Thresholds["velocity_count"] + Slack
    <3>1. Counted(t) \in SUBSET Handlers  BY DEF Counted
    <3>2. /\ Cardinality(ApprovedIn(t)) \in Nat /\ Cardinality(Counted(t)) \in Nat
          /\ Slack \in Nat /\ Thresholds["velocity_count"] \in Nat
      BY <2>1, <2>2, <3>1, WindowsFinite, OperationsAssumption DEF OperationsInv
    <3>3. Cardinality(ApprovedIn(t)) + Cardinality(Counted(t))
            <= Thresholds["velocity_count"] + Slack
      BY <2>1, <2>2 DEF OperationsInv, CountWindows
    <3> QED  BY <3>2, <3>3
  <2>3. ASSUME {"velocity_sum", "amount_threshold"} \subseteq DOMAIN Thresholds
        PROVE  TotalAmount(ApprovedIn(t)) <= SumBound
    BY <2>1, <2>3 DEF OperationsInv, SumWindows
  <2> QED  BY <2>2, <2>3 DEF SumBound, Largest
<1> QED  BY <1>1, OperationsInvariant, PTL

-----------------------------------------------------------------------------
(***************************************************************************)
(* History: the order of the rows, and what LIMIT keeps of them.           *)
(***************************************************************************)

\* Rows of one database: an id is given once.
Ordered(S) ==
    /\ IsFiniteSet(S)
    /\ \A r \in S : r.created \in Int /\ r.id \in Int
    /\ \A r, s \in S : r.id = s.id => r = s

NewerIn(S, r) == {s \in S : Newer(s, r)}

LEMMA NewerTotal ==
    ASSUME NEW S, Ordered(S), NEW r \in S, NEW s \in S
    PROVE  /\ ~ Newer(r, r)
           /\ r # s => Newer(r, s) \/ Newer(s, r)
           /\ Newer(r, s) => ~ Newer(s, r)
BY DEF Ordered, Newer

LEMMA NewerTransitive ==
    ASSUME NEW S, Ordered(S), NEW r \in S, NEW s \in S, NEW t \in S, Newer(r, s), Newer(s, t)
    PROVE  Newer(r, t)
BY DEF Ordered, Newer

LEMMA OrderedSubset ==
    ASSUME NEW S, Ordered(S), NEW T \in SUBSET S
    PROVE  Ordered(T)
BY FS_Subset DEF Ordered

LEMMA RankTyped ==
    ASSUME NEW S, Ordered(S), NEW r
    PROVE  IsFiniteSet(NewerIn(S, r)) /\ Cardinality(NewerIn(S, r)) \in Nat
<1>1. NewerIn(S, r) \in SUBSET S
  BY DEF NewerIn
<1> QED
  BY <1>1, FS_Subset, FS_CardinalityType DEF Ordered

LEMMA NewestRank ==
    ASSUME NEW S, NEW n
    PROVE  Newest(S, n) = {r \in S : Cardinality(NewerIn(S, r)) < n}
BY DEF Newest, NewerIn

\* The oldest of some rows.
LEMMA HasOldest ==
    ASSUME NEW S, Ordered(S), S # {}
    PROVE  \E o \in S : \A r \in S \ {o} : Newer(r, o)
<1> DEFINE Bad == {T \in SUBSET S : T # {} /\ ~ \E o \in T : \A r \in T \ {o} : Newer(r, o)}
<1> SUFFICES ASSUME Bad # {} PROVE FALSE
  BY DEF Ordered
<1>1. PICK T \in Bad : \A u \in SUBSET T : u # T => u \notin Bad
  <2>1. Bad \in SUBSET (SUBSET S)
    OBVIOUS
  <2> HIDE DEF Bad
  <2> QED
    BY <2>1, SmallestSubset DEF Ordered
<1>2. PICK x \in T : TRUE
  OBVIOUS
<1>3. T \ {x} # {}
  <2>1. ~ \A r \in T \ {x} : Newer(r, x)
    OBVIOUS
  <2> QED
    BY <2>1
<1>4. PICK o \in T \ {x} : \A r \in (T \ {x}) \ {o} : Newer(r, o)
  <2>1. T \ {x} \in SUBSET T /\ T \ {x} # T /\ T \ {x} \in SUBSET S
    BY <1>2
  <2>2. T \ {x} \notin Bad
    BY <1>1, <2>1
  <2> QED
    BY <1>3, <2>1, <2>2
<1>5. CASE Newer(x, o)
  BY <1>4, <1>5
<1>6. CASE Newer(o, x)
  <2>1. \A r \in T \ {x} : Newer(r, x)
    BY <1>2, <1>4, <1>6, NewerTransitive
  <2> QED
    BY <1>2, <2>1
<1> QED
  BY <1>2, <1>4, <1>5, <1>6, NewerTotal

\* A LIMIT below the number of rows is reached.
LEMMA NewestFull ==
    ASSUME NEW S, Ordered(S), NEW n \in Nat, Cardinality(S) >= n
    PROVE  Cardinality(Newest(S, n)) = n
<1> DEFINE Bad == {T \in SUBSET S : Cardinality(T) >= n /\ Cardinality(Newest(T, n)) # n}
<1> SUFFICES ASSUME Bad # {} PROVE FALSE
  OBVIOUS
<1>1. PICK T \in Bad : \A u \in SUBSET T : u # T => u \notin Bad
  <2>1. Bad \in SUBSET (SUBSET S)
    OBVIOUS
  <2> HIDE DEF Bad
  <2> QED
    BY <2>1, SmallestSubset DEF Ordered
<1>2. Ordered(T) /\ IsFiniteSet(T) /\ Cardinality(T) \in Nat
  BY <1>1, OrderedSubset, FS_CardinalityType DEF Ordered
<1>a. T \in SUBSET S /\ Cardinality(T) >= n /\ Cardinality(Newest(T, n)) # n
  OBVIOUS
<1>b. \A u \in SUBSET T : u # T /\ Cardinality(u) >= n => Cardinality(Newest(u, n)) = n
  BY <1>1
<1> HIDE DEF Bad
<1>3. CASE T = {}
  <2>1. Newest(T, n) = {} /\ Cardinality(T) = 0
    BY <1>3, FS_EmptySet DEF Newest
  <2>2. n = 0 /\ Cardinality(Newest(T, n)) = 0
    BY <1>a, <2>1, FS_EmptySet
  <2> QED
    BY <1>a, <2>2
<1>4. CASE T # {}
  <2>1. PICK o \in T : \A r \in T \ {o} : Newer(r, o)
    BY <1>2, <1>4, HasOldest
  <2> DEFINE u == T \ {o}
  <2>2. u \in SUBSET T /\ u # T /\ u \in SUBSET S /\ Cardinality(u) = Cardinality(T) - 1
    BY <1>a, <1>2, <2>1, FS_RemoveElement
  <2>3. NewerIn(T, o) = u
    BY <1>2, <2>1, NewerTotal DEF NewerIn
  <2>4. \A r \in u : NewerIn(T, r) = NewerIn(u, r)
    BY <1>2, <2>1, NewerTotal DEF NewerIn
  <2>5. CASE Cardinality(T) = n
    <3>1. Cardinality(NewerIn(T, o)) < n
      BY <1>2, <2>2, <2>3, <2>5
    <3>2. ASSUME NEW r \in u
          PROVE  Cardinality(NewerIn(T, r)) < n
      <4>1. NewerIn(u, r) \in SUBSET u
        BY DEF NewerIn
      <4>2. IsFiniteSet(u)
        BY <1>2, <2>2, FS_Subset
      <4>3. Cardinality(NewerIn(u, r)) <= Cardinality(u) /\ Cardinality(NewerIn(u, r)) \in Nat
        BY <4>1, <4>2, FS_Subset, FS_CardinalityType
      <4>4. NewerIn(T, r) = NewerIn(u, r)
        BY <2>4, <3>2
      <4> HIDE DEF u
      <4> QED
        BY <1>2, <2>2, <2>5, <4>3, <4>4
    <3>3. Newest(T, n) = T
      BY <3>1, <3>2, NewestRank
    <3> QED
      BY <1>a, <2>5, <3>3
  <2>6. CASE Cardinality(T) # n
    <3>1. Cardinality(u) >= n /\ Cardinality(u) \in Nat
      <4> HIDE DEF u
      <4> QED
        BY <1>a, <1>2, <2>2, <2>6
    <3>2. Cardinality(Newest(u, n)) = n
      BY <1>b, <2>2, <3>1
    <3>3. o \notin Newest(T, n)
      BY <2>3, <3>1, NewestRank
    <3>4. Newest(T, n) = Newest(u, n)
      <4>1. \A r \in u : r \in Newest(T, n) <=> r \in Newest(u, n)
        BY <2>4, NewestRank
      <4> QED
        BY <3>3, <4>1 DEF Newest
    <3> QED
      BY <1>a, <3>2, <3>4
  <2> QED
    BY <2>5, <2>6
<1> QED
  BY <1>3, <1>4

\* A row with n newer ones is older than all the n newest.
LEMMA Dominated ==
    ASSUME NEW S, Ordered(S), NEW T \in SUBSET S, NEW n \in Nat, NEW r \in S,
           Cardinality(NewerIn(T, r)) >= n
    PROVE  /\ \A p \in Newest(T, n) : Newer(p, r)
           /\ r \notin Newest(T, n)
           /\ Cardinality(Newest(T, n)) = n
<1>1. Ordered(T)
  BY OrderedSubset
<1>2. ASSUME NEW p \in Newest(T, n)
      PROVE  Newer(p, r)
  <2>1. p \in T /\ Cardinality(NewerIn(T, p)) < n
    BY <1>2, NewestRank
  <2>2. Cardinality(NewerIn(T, r)) \in Nat /\ Cardinality(NewerIn(T, p)) \in Nat
        /\ IsFiniteSet(NewerIn(T, p))
    BY <1>1, RankTyped
  <2>3. p # r
    BY <2>1, <2>2
  <2>4. ~ Newer(r, p)
    <3> SUFFICES ASSUME Newer(r, p) PROVE FALSE
      OBVIOUS
    <3>1. NewerIn(T, r) \in SUBSET NewerIn(T, p)
      BY <2>1, NewerTransitive DEF NewerIn
    <3>2. Cardinality(NewerIn(T, r)) <= Cardinality(NewerIn(T, p))
      BY <2>2, <3>1, FS_Subset
    <3> QED
      BY <2>1, <2>2, <3>2
  <2> QED
    BY <2>1, <2>3, <2>4, NewerTotal
<1>3. r \notin Newest(T, n)
  BY <1>2, NewerTotal
<1>4. Cardinality(Newest(T, n)) = n
  <2>1. NewerIn(T, r) \in SUBSET T
    BY DEF NewerIn
  <2>2. Cardinality(NewerIn(T, r)) <= Cardinality(T) /\ Cardinality(T) \in Nat
    BY <1>1, <2>1, FS_Subset, FS_CardinalityType DEF Ordered
  <2>3. Cardinality(NewerIn(T, r)) \in Nat
    BY <1>1, RankTyped
  <2> QED
    BY <1>1, <2>2, <2>3, NewestFull
<1> QED
  BY <1>2, <1>3, <1>4

\* Cutting rows that include the n newest of all to n gives just those.
LEMMA NewestWithin ==
    ASSUME NEW S, Ordered(S), NEW T \in SUBSET S, NEW n \in Nat, Newest(S, n) \subseteq T
    PROVE  Newest(T, n) = Newest(S, n)
<1>1. Ordered(T)
  BY OrderedSubset
<1>2. ASSUME NEW r \in Newest(S, n)
      PROVE  r \in Newest(T, n)
  <2>1. r \in T /\ Cardinality(NewerIn(S, r)) < n
    BY <1>2, NewestRank
  <2>2. NewerIn(T, r) \in SUBSET NewerIn(S, r)
    BY DEF NewerIn
  <2>3. Cardinality(NewerIn(T, r)) <= Cardinality(NewerIn(S, r))
        /\ Cardinality(NewerIn(T, r)) \in Nat /\ Cardinality(NewerIn(S, r)) \in Nat
    BY <1>1, <2>2, RankTyped, FS_Subset
  <2> QED
    BY <2>1, <2>3, NewestRank
<1>3. ASSUME NEW r \in Newest(T, n), r \notin Newest(S, n)
      PROVE  FALSE
  <2>1. r \in S /\ r \in T
    BY <1>3 DEF Newest
  <2>2. Cardinality(NewerIn(S, r)) >= n
    BY <1>3, <2>1, RankTyped, NewestRank
  <2>3. /\ \A p \in Newest(S, n) : Newer(p, r)
        /\ Cardinality(Newest(S, n)) = n
    BY <2>1, <2>2, Dominated
  <2>4. Newest(S, n) \in SUBSET NewerIn(T, r)
    BY <2>3 DEF NewerIn
  <2>5. Cardinality(NewerIn(T, r)) >= n
    BY <1>1, <2>3, <2>4, RankTyped, FS_Subset
  <2> QED
    BY <1>1, <1>3, <2>5, RankTyped, NewestRank
<1>4. Newest(T, n) \subseteq Newest(S, n)
  BY <1>3
<1> QED
  BY <1>2, <1>4

\* The newest of a union are the newest of the newest of both.
LEMMA NewestOfUnion ==
    ASSUME NEW A, NEW B, Ordered(A \cup B), NEW n \in Nat
    PROVE  Newest(Newest(A, n) \cup Newest(B, n), n) = Newest(A \cup B, n)
<1>1. ASSUME NEW C \in SUBSET (A \cup B), NEW r \in C, r \in Newest(A \cup B, n)
      PROVE  r \in Newest(C, n)
  <2>1. Cardinality(NewerIn(A \cup B, r)) < n
    BY <1>1, NewestRank
  <2>2. NewerIn(C, r) \in SUBSET NewerIn(A \cup B, r)
    BY DEF NewerIn
  <2>3. Ordered(C)
    BY OrderedSubset
  <2>4. Cardinality(NewerIn(C, r)) <= Cardinality(NewerIn(A \cup B, r))
        /\ Cardinality(NewerIn(C, r)) \in Nat /\ Cardinality(NewerIn(A \cup B, r)) \in Nat
    BY <2>2, <2>3, RankTyped, FS_Subset
  <2> QED
    BY <2>1, <2>4, NewestRank
<1> DEFINE U == Newest(A, n) \cup Newest(B, n)
<1>2. U \in SUBSET (A \cup B)
  BY DEF Newest
<1>3. Newest(A \cup B, n) \subseteq U
  <2> SUFFICES ASSUME NEW r \in Newest(A \cup B, n) PROVE r \in U
    OBVIOUS
  <2>1. r \in A \/ r \in B
    BY DEF Newest
  <2>2. A \in SUBSET (A \cup B) /\ B \in SUBSET (A \cup B)
    OBVIOUS
  <2> QED
    BY <2>1, <2>2, <1>1
<1> HIDE DEF U
<1> QED
  BY <1>2, <1>3, NewestWithin DEF U

\* What a page of n rows of the ones a query sees leaves out is older than the
\* page, and the row read beyond the page tells that there is more.
LEMMA PageCovers ==
    ASSUME NEW C, Ordered(C), NEW O \in SUBSET C, NEW n \in Nat, NEW r \in O,
           r \notin Newest(Newest(O, n + 1), n)
    PROVE  /\ Cardinality(Newest(O, n + 1)) > n
           /\ Cardinality(NewerIn(Newest(Newest(O, n + 1), n), r)) >= n
<1>1. Ordered(O)
  BY OrderedSubset
<1>2. Newest(Newest(O, n + 1), n) = Newest(O, n)
  <2>1. Newest(O, n) \subseteq Newest(O, n + 1)
    <3> SUFFICES ASSUME NEW p \in Newest(O, n) PROVE p \in Newest(O, n + 1)
      OBVIOUS
    <3>1. p \in O /\ Cardinality(NewerIn(O, p)) < n /\ Cardinality(NewerIn(O, p)) \in Nat
      BY <1>1, RankTyped, NewestRank
    <3> QED
      BY <3>1, NewestRank
  <2>2. Newest(O, n + 1) \in SUBSET O
    BY DEF Newest
  <2> QED
    BY <1>1, <2>1, <2>2, NewestWithin
<1>3. Cardinality(NewerIn(O, r)) >= n /\ IsFiniteSet(NewerIn(O, r))
      /\ Cardinality(NewerIn(O, r)) \in Nat
  BY <1>1, <1>2, RankTyped, NewestRank
<1>4. /\ \A p \in Newest(O, n) : Newer(p, r)
      /\ Cardinality(Newest(O, n)) = n
  BY <1>1, <1>3, Dominated
<1>5. NewerIn(Newest(O, n), r) = Newest(O, n)
  BY <1>4 DEF NewerIn
<1>6. Cardinality(O) >= n + 1
  <2>1. r \notin NewerIn(O, r) /\ NewerIn(O, r) \cup {r} \in SUBSET O
    BY <1>1, NewerTotal DEF NewerIn
  <2>2. Cardinality(NewerIn(O, r) \cup {r}) = Cardinality(NewerIn(O, r)) + 1
    BY <1>3, <2>1, FS_AddElement
  <2>3. Cardinality(NewerIn(O, r) \cup {r}) <= Cardinality(O) /\ Cardinality(O) \in Nat
    BY <1>1, <2>1, FS_Subset, FS_CardinalityType DEF Ordered
  <2> QED
    BY <1>3, <2>2, <2>3
<1>7. Cardinality(Newest(O, n + 1)) = n + 1
  <2>1. n + 1 \in Nat
    OBVIOUS
  <2> QED
    BY <1>1, <1>6, <2>1, NewestFull
<1> QED
  BY <1>2, <1>4, <1>5, <1>7

IsNewestFirst(s, S) ==
    /\ s \in [1 .. Cardinality(S) -> S]
    /\ \A i, j \in DOMAIN s : i < j => Newer(s[i], s[j])

\* Rows can be put in order.
LEMMA OrderExists ==
    ASSUME NEW S, Ordered(S)
    PROVE  \E s : IsNewestFirst(s, S)
<1> DEFINE Bad == {T \in SUBSET S : ~ \E s : IsNewestFirst(s, T)}
<1> SUFFICES ASSUME Bad # {} PROVE FALSE
  OBVIOUS
<1>1. PICK T \in Bad : \A u \in SUBSET T : u # T => u \notin Bad
  <2>1. Bad \in SUBSET (SUBSET S)
    OBVIOUS
  <2> HIDE DEF Bad
  <2> QED
    BY <2>1, SmallestSubset DEF Ordered
<1>2. T \in SUBSET S /\ ~ \E s : IsNewestFirst(s, T)
  OBVIOUS
<1>3. \A u \in SUBSET T : u # T => \E s : IsNewestFirst(s, u)
  BY <1>1, <1>2
<1> HIDE DEF Bad
<1>4. Ordered(T) /\ IsFiniteSet(T) /\ Cardinality(T) \in Nat
  BY <1>2, OrderedSubset, FS_CardinalityType DEF Ordered
<1>5. CASE T = {}
  <2>1. IsNewestFirst(<<>>, T)
    BY <1>5, FS_EmptySet DEF IsNewestFirst
  <2> QED
    BY <1>2, <2>1
<1>6. CASE T # {}
  <2>1. PICK o \in T : \A r \in T \ {o} : Newer(r, o)
    BY <1>4, <1>6, HasOldest
  <2> DEFINE u == T \ {o}
             k == Cardinality(T)
  <2>2. u \in SUBSET T /\ u # T /\ Cardinality(u) = k - 1 /\ k - 1 \in Nat
    <3>1. Cardinality(u) = k - 1 /\ IsFiniteSet(u)
      BY <1>4, <2>1, FS_RemoveElement
    <3> QED
      BY <3>1, <2>1, FS_CardinalityType
  <2>3. PICK s : IsNewestFirst(s, u)
    BY <1>3, <2>2
  <2> DEFINE t == [i \in 1 .. k |-> IF i = k THEN o ELSE s[i]]
  <2>4. k \in Nat /\ s \in [1 .. k - 1 -> u] /\ u \subseteq T
        /\ \A i, j \in 1 .. k - 1 : i < j => Newer(s[i], s[j])
    BY <1>4, <2>2, <2>3 DEF IsNewestFirst
  <2>5. \A r \in u : Newer(r, o)
    BY <2>1
  <2> HIDE DEF u, k
  <2>6. t \in [1 .. k -> T]
    BY <2>1, <2>4
  <2>7. \A i, j \in 1 .. k : i < j => Newer(t[i], t[j])
    <3> SUFFICES ASSUME NEW i \in 1 .. k, NEW j \in 1 .. k, i < j
                 PROVE  Newer(t[i], t[j])
      OBVIOUS
    <3>1. i \in 1 .. k - 1 /\ t[i] = s[i] /\ s[i] \in u
      BY <2>4
    <3>2. CASE j = k
      BY <2>5, <3>1, <3>2
    <3>3. CASE j # k
      <4>1. j \in 1 .. k - 1 /\ t[j] = s[j]
        BY <2>4, <3>3
      <4> QED
        BY <2>4, <3>1, <4>1
    <3> QED
      BY <3>2, <3>3
  <2>8. IsNewestFirst(t, T)
    BY <2>6, <2>7 DEF IsNewestFirst, k
  <2> QED
    BY <1>2, <2>8
<1> QED
  BY <1>5, <1>6

\* A page shows each of its rows once, newest first.
LEMMA NewestFirstOrders ==
    ASSUME NEW S, Ordered(S)
    PROVE  /\ NewestFirst(S) \in Seq(S)
           /\ Len(NewestFirst(S)) = Cardinality(S) /\ Cardinality(S) \in Nat
           /\ ToSet(NewestFirst(S)) = S
           /\ \A i, j \in DOMAIN NewestFirst(S) :
                 i < j => Newer(NewestFirst(S)[i], NewestFirst(S)[j])
<1> DEFINE s == NewestFirst(S)
           k == Cardinality(S)
<1>1. IsNewestFirst(s, S)
  BY OrderExists DEF NewestFirst, IsNewestFirst
<1>2. k \in Nat /\ IsFiniteSet(S)
  BY FS_CardinalityType DEF Ordered
<1>3. s \in [1 .. k -> S] /\ \A i, j \in 1 .. k : i < j => Newer(s[i], s[j])
  BY <1>1 DEF IsNewestFirst
<1>4. s \in Surjection(1 .. k, S)
  <2>1. \A i, j \in 1 .. k : s[i] = s[j] => i = j
    <3> SUFFICES ASSUME NEW i \in 1 .. k, NEW j \in 1 .. k, i < j PROVE s[i] # s[j]
      BY <1>2
    <3>1. Newer(s[i], s[j]) /\ s[i] \in S
      BY <1>3
    <3> QED
      BY <3>1, NewerTotal
  <2>2. s \in Injection(1 .. k, S)
    BY <1>3, <2>1 DEF Injection, IsInjective
  <2>3. Cardinality(1 .. k) = k
    BY <1>2, FS_Interval
  <2> QED
    BY <1>2, <2>2, <2>3, FS_Injection
<1> HIDE DEF s
<1>5. s \in Seq(S) /\ Len(s) = k /\ DOMAIN s = 1 .. k
  BY <1>2, <1>3
<1>6. ToSet(s) = S
  BY <1>3, <1>4, <1>5 DEF ToSet, Surjection
<1> QED
  BY <1>2, <1>3, <1>5, <1>6 DEF s

-----------------------------------------------------------------------------
(***************************************************************************)
(* History: the invariant.                                                 *)
(***************************************************************************)
Committed == Prefix(Len(commits))

\* What a walk owes: the rows every standby had when it began.
Owed == Prefix(start.applied)

Behind(r) == cursor = NoCursor \/ Newer(cursor, r)

\* The sources the page has read.
Asked ==
    CASE at = "deposit" -> {"transfer"}
      [] at = "withdrawal" -> {"transfer", "deposit"}
      [] at = "merge" -> {"transfer", "deposit", "withdrawal"}
      [] OTHER -> {}

HistoryTypes ==
    /\ commits \in Seq(Rows)
    /\ \A i, j \in DOMAIN commits : commits[i].id = commits[j].id => i = j
    /\ applied \in 0 .. Len(commits)
    /\ at \in {"closed", "transfer", "deposit", "withdrawal", "merge", "end"}
    /\ cursor \in Committed \cup {NoCursor}
    /\ fetched \in SUBSET Committed
    /\ more \in BOOLEAN
    /\ out \in Seq(Committed)
    /\ start.applied \in 0 .. applied

\* The cursor is the last row shown, and a page reads behind it.
CursorTrue ==
    /\ at = "closed" => cursor = NoCursor
    /\ at # "end" => /\ cursor = NoCursor => out = <<>>
                     /\ cursor # NoCursor => out # <<>> /\ cursor = Last(out)
                     /\ \A r \in fetched : Behind(r)

\* A row that is owed was shown or is behind the cursor.
NothingLost ==
    /\ at # "end" => \A r \in Owed : r \in ToSet(out) \/ Behind(r)
    /\ at = "end" => Owed \subseteq ToSet(out)

\* A source that was asked returned every owed row behind the cursor, or a full
\* page of newer ones and the word that there is more.
SourcesCovered ==
    \A r \in Owed : (r.source \in Asked /\ Behind(r)) =>
        \/ r \in fetched
        \/ more /\ Cardinality(NewerIn(fetched, r)) >= Limit

HistoryInv ==
    /\ HistoryTypes
    /\ CursorTrue
    /\ NothingLost
    /\ SourcesCovered
    /\ NoRowTwice

\* Committed rows can be told apart.
LEMMA CommittedOrdered ==
    ASSUME HistoryTypes
    PROVE  Ordered(Committed) /\ Committed \subseteq Rows
<1>1. /\ commits \in Seq(Rows) /\ Len(commits) \in Nat
      /\ \A i, j \in 1 .. Len(commits) : commits[i].id = commits[j].id => i = j
  BY DEF HistoryTypes
<1>2. Committed = {commits[i] : i \in 1 .. Len(commits)}
  BY DEF Committed, Prefix
<1>3. IsFiniteSet(Committed)
  <2>1. commits \in Surjection(1 .. Len(commits), Committed)
    BY <1>1, <1>2 DEF Surjection
  <2>2. IsFiniteSet(1 .. Len(commits))
    BY <1>1, FS_Interval
  <2> QED
    BY <2>1, <2>2, FS_Surjection
<1>4. Committed \subseteq Rows
  BY <1>1, <1>2
<1>5. \A r \in Committed : r.created \in Int /\ r.id \in Int
  BY <1>4 DEF Rows
<1>6. \A r, s \in Committed : r.id = s.id => r = s
  BY <1>1, <1>2
<1> QED
  BY <1>3, <1>4, <1>5, <1>6 DEF Ordered

\* A query of one source: the newest of its rows behind the cursor, one more
\* than the page holds, cut to the page.
LEMMA TakeStep ==
    ASSUME HistoryAssumption, HistoryInv,
           NEW source, NEW n \in Snapshots, NEW next \in {"deposit", "withdrawal", "merge"},
           NEW visible, visible = {r \in Prefix(n) : r.source = source},
           Take(Newest(Older(visible), Limit + 1), next),
           at \notin {"closed", "end"},
           Asked' = Asked \cup {source}
    PROVE  HistoryInv'
<1> DEFINE O == Older(visible)
           page == Newest(O, Limit + 1)
           cut == Newest(page, Limit)
<1> USE DEF HistoryInv
<1>1. Limit \in Nat /\ Limit > 0
  BY DEF HistoryAssumption
<1>2. Ordered(Committed)
  BY CommittedOrdered
<1>3. n \in 0 .. Len(commits) /\ start.applied \in 0 .. n
  BY DEF Snapshots, HistoryTypes, CursorTrue
<1>4. UNCHANGED <<commits, applied, cursor, out, errors, start>> /\ at' = next
      /\ fetched' = fetched \cup cut /\ more' = (more \/ Cardinality(page) > Limit)
  BY DEF Take, database
<1>5. O = {r \in visible : Behind(r)} /\ O \in SUBSET Committed /\ Owed \subseteq Prefix(n)
  <2>1. O = {r \in visible : Behind(r)}
    BY DEF Older, Behind
  <2>2. Prefix(n) \subseteq Committed /\ Owed \subseteq Prefix(n)
    BY <1>3 DEF Committed, Prefix, Owed, HistoryTypes
  <2> QED
    BY <2>1, <2>2
<1> HIDE DEF O
<1>6. cut \subseteq O
  BY DEF Newest
<1>7. HistoryTypes'
  <2>1. fetched' \in SUBSET Committed /\ more' \in BOOLEAN
    BY <1>4, <1>5, <1>6 DEF HistoryTypes
  <2>2. Committed' = Committed
    BY <1>4 DEF Committed, Prefix
  <2> HIDE DEF page, cut
  <2> QED
    BY <1>4, <2>1, <2>2 DEF HistoryTypes
<1>8. Owed' = Owed /\ \A r : Behind(r)' = Behind(r)
  BY <1>4 DEF Owed, Prefix, Behind
<1>9. CursorTrue'
  <2>1. \A r \in fetched' : Behind(r)'
    BY <1>4, <1>5, <1>6, <1>8 DEF CursorTrue
  <2> QED
    BY <1>4, <2>1 DEF CursorTrue
<1>10. NothingLost' /\ NoRowTwice'
  BY <1>4, <1>8 DEF NothingLost, NoRowTwice
<1>11. SourcesCovered'
  <2> SUFFICES ASSUME NEW r \in Owed, r.source \in Asked \cup {source}, Behind(r),
                      r \notin fetched'
               PROVE  more' /\ Cardinality(NewerIn(fetched', r)) >= Limit
    BY <1>8 DEF SourcesCovered
  <2>1. Ordered(fetched')
    BY <1>2, <1>4, <1>5, <1>6, OrderedSubset DEF HistoryTypes
  <2>2. ASSUME NEW old \in SUBSET fetched', Cardinality(NewerIn(old, r)) >= Limit
        PROVE  Cardinality(NewerIn(fetched', r)) >= Limit
    <3>1. NewerIn(old, r) \in SUBSET NewerIn(fetched', r)
      BY DEF NewerIn
    <3>2. Ordered(old)
      BY <2>1, OrderedSubset
    <3>3. IsFiniteSet(NewerIn(fetched', r)) /\ Cardinality(NewerIn(fetched', r)) \in Nat
          /\ Cardinality(NewerIn(old, r)) \in Nat
      BY <2>1, <3>2, RankTyped
    <3>4. Cardinality(NewerIn(old, r)) <= Cardinality(NewerIn(fetched', r))
      BY <3>1, <3>3, FS_Subset
    <3> QED
      BY <1>1, <2>2, <3>3, <3>4
  <2>3. CASE r.source \in Asked
    <3>1. r \notin fetched
      BY <1>4
    <3>2. more /\ Cardinality(NewerIn(fetched, r)) >= Limit
      BY <2>3, <3>1 DEF SourcesCovered
    <3> QED
      BY <1>4, <2>2, <3>2
  <2>4. CASE r.source = source
    <3>1. r \in O
      BY <1>5, <2>4
    <3>2. r \notin cut
      BY <1>4
    <3>3. Cardinality(page) > Limit /\ Cardinality(NewerIn(cut, r)) >= Limit
      BY <1>1, <1>2, <1>5, <3>1, <3>2, PageCovers
    <3>4. cut \in SUBSET fetched'
      BY <1>4
    <3> HIDE DEF cut, page
    <3> QED
      BY <1>4, <2>2, <3>3, <3>4
  <2> QED
    BY <2>3, <2>4
<1> QED
  BY <1>7, <1>9, <1>10, <1>11

\* Every row of the three tables is the customer's.
LEMMA RowsAreMine ==
    ASSUME NEW r \in Rows
    PROVE  /\ r.source = "transfer" => r.from = Me \/ r.to = Me
           /\ r.source \in {"deposit", "withdrawal"} => r.from = Me /\ r.to = Me
<1>1. <<r.from, r.to>> \in Parties(r.source)
  BY DEF Rows
<1>2. CASE r.source = "transfer"
  BY <1>1, <1>2 DEF Parties
<1>3. CASE r.source # "transfer"
  BY <1>1, <1>3 DEF Parties
<1> QED
  BY <1>2, <1>3

LEMMA QuerySteps ==
    ASSUME HistoryAssumption, HistoryInv, QueryTransfers \/ QueryDeposits \/ QueryWithdrawals
    PROVE  HistoryInv'
<1>1. ASSUME NEW source, NEW n \in Snapshots
      PROVE  {r \in Prefix(n) : r.source = source} \subseteq {r \in Rows : r.source = source}
  <2>1. n \in 0 .. Len(commits) /\ commits \in Seq(Rows)
    BY DEF Snapshots, HistoryInv, HistoryTypes
  <2> QED
    BY <2>1 DEF Prefix
<1>2. CASE QueryTransfers
  <2>1. PICK n \in Snapshots :
           Take(getTransferHistoryPage({r \in Prefix(n) : r.source = "transfer"}), "deposit")
    BY <1>2 DEF QueryTransfers, Visible
  <2> DEFINE visible == {r \in Prefix(n) : r.source = "transfer"}
             outgoing == Older({r \in visible : r.from = Me})
             incoming == Older({r \in visible : r.to = Me})
  <2>2. \A r \in visible : r.from = Me \/ r.to = Me
    BY <1>1, RowsAreMine
  <2>3. outgoing \cup incoming = Older(visible)
    BY <2>2 DEF Older
  <2>4. Ordered(outgoing \cup incoming)
    <3>1. Older(visible) \in SUBSET Committed
      BY DEF Older, Prefix, Committed, Snapshots, HistoryInv, HistoryTypes
    <3> QED
      BY <2>3, <3>1, CommittedOrdered, OrderedSubset DEF HistoryInv
  <2> HIDE DEF outgoing, incoming, visible
  <2>5. getTransferHistoryPage(visible) = Newest(Older(visible), Limit + 1)
    <3>1. Limit + 1 \in Nat
      BY DEF HistoryAssumption
    <3>2. getTransferHistoryPage(visible)
            = Newest(Newest(outgoing, Limit + 1) \cup Newest(incoming, Limit + 1), Limit + 1)
      BY DEF getTransferHistoryPage, outgoing, incoming
    <3> QED
      BY <2>3, <2>4, <3>1, <3>2, NewestOfUnion
  <2>6. at = "transfer" /\ at' = "deposit"
    BY <1>2, <2>1 DEF QueryTransfers, Take
  <2>7. Asked' = Asked \cup {"transfer"}
    BY <2>6 DEF Asked
  <2>8. Take(Newest(Older(visible), Limit + 1), "deposit")
    BY <2>1, <2>5 DEF visible
  <2> QED
    BY <2>6, <2>7, <2>8, TakeStep DEF visible
<1>3. CASE QueryDeposits
  <2>1. PICK n \in Snapshots :
           Take(getDepositHistoryPage({r \in Prefix(n) : r.source = "deposit"}), "withdrawal")
    BY <1>3 DEF QueryDeposits, Visible
  <2> DEFINE visible == {r \in Prefix(n) : r.source = "deposit"}
  <2>2. {r \in visible : r.to = Me} = visible
    BY <1>1, RowsAreMine
  <2>3. Take(Newest(Older(visible), Limit + 1), "withdrawal")
    <3> HIDE DEF visible
    <3>1. getDepositHistoryPage(visible) = Newest(Older(visible), Limit + 1)
      BY <2>2 DEF getDepositHistoryPage
    <3> QED
      BY <2>1, <3>1 DEF visible
  <2>4. at = "deposit" /\ at' = "withdrawal"
    BY <1>3, <2>1 DEF QueryDeposits, Take
  <2>5. Asked' = Asked \cup {"deposit"}
    BY <2>4 DEF Asked
  <2> QED
    BY <2>3, <2>4, <2>5, TakeStep
<1>4. CASE QueryWithdrawals
  <2>1. PICK n \in Snapshots :
           Take(getWithdrawalHistoryPage({r \in Prefix(n) : r.source = "withdrawal"}), "merge")
    BY <1>4 DEF QueryWithdrawals, Visible
  <2> DEFINE visible == {r \in Prefix(n) : r.source = "withdrawal"}
  <2>2. {r \in visible : r.from = Me} = visible
    BY <1>1, RowsAreMine
  <2>3. Take(Newest(Older(visible), Limit + 1), "merge")
    <3> HIDE DEF visible
    <3>1. getWithdrawalHistoryPage(visible) = Newest(Older(visible), Limit + 1)
      BY <2>2 DEF getWithdrawalHistoryPage
    <3> QED
      BY <2>1, <3>1 DEF visible
  <2>4. at = "withdrawal" /\ at' = "merge"
    BY <1>4, <2>1 DEF QueryWithdrawals, Take
  <2>5. Asked' = Asked \cup {"withdrawal"}
    BY <2>4 DEF Asked
  <2> QED
    BY <2>3, <2>4, <2>5, TakeStep
<1> QED
  BY <1>2, <1>3, <1>4

\* A row behind Limit fetched ones is behind the whole page, which is full.
LEMMA FullPage ==
    ASSUME Ordered(Committed), fetched \in SUBSET Committed, Limit \in Nat,
           NEW r \in Committed, Cardinality(NewerIn(fetched, r)) >= Limit
    PROVE  /\ \A p \in Newest(fetched, Limit) : Newer(p, r)
           /\ Cardinality(Newest(fetched, Limit)) = Limit
BY Dominated

LEMMA Concatenated ==
    ASSUME NEW S, NEW s \in Seq(S), NEW t \in Seq(S)
    PROVE  s \o t \in Seq(S) /\ ToSet(s \o t) = ToSet(s) \cup ToSet(t)
<1>1. /\ s \o t \in Seq(S) /\ Len(s \o t) = Len(s) + Len(t)
      /\ Len(s) \in Nat /\ Len(t) \in Nat
      /\ DOMAIN s = 1 .. Len(s) /\ DOMAIN t = 1 .. Len(t) /\ DOMAIN (s \o t) = 1 .. Len(s) + Len(t)
      /\ \A i \in 1 .. Len(s) + Len(t) :
            (s \o t)[i] = IF i <= Len(s) THEN s[i] ELSE t[i - Len(s)]
  OBVIOUS
<1>2. ASSUME NEW i \in DOMAIN (s \o t)
      PROVE  \/ i \in DOMAIN s /\ (s \o t)[i] = s[i]
             \/ i - Len(s) \in DOMAIN t /\ (s \o t)[i] = t[i - Len(s)]
  BY <1>1
<1>3. ASSUME NEW i \in DOMAIN s PROVE i \in DOMAIN (s \o t) /\ (s \o t)[i] = s[i]
  BY <1>1
<1>4. ASSUME NEW i \in DOMAIN t
      PROVE  Len(s) + i \in DOMAIN (s \o t) /\ (s \o t)[Len(s) + i] = t[i]
  BY <1>1
<1> DEFINE c == s \o t
<1> HIDE DEF c
<1>5. ToSet(c) \subseteq ToSet(s) \cup ToSet(t)
  BY <1>2 DEF c, ToSet
<1>6. ToSet(s) \subseteq ToSet(c) /\ ToSet(t) \subseteq ToSet(c)
  BY <1>3, <1>4 DEF c, ToSet
<1> QED
  BY <1>1, <1>5, <1>6 DEF c

\* The merge: what the page leaves out is behind its last row, and then there is
\* a next page.
LEMMA MergeStep ==
    ASSUME HistoryAssumption, HistoryInv, getOperationHistoryPage
    PROVE  HistoryInv'
<1> DEFINE kept == Newest(fetched, Limit)
           page == NewestFirst(kept)
           next == hasMore /\ page # <<>>
<1> USE DEF HistoryInv
<1>1. Limit \in Nat /\ Limit > 0
  BY DEF HistoryAssumption
<1>2. /\ at = "merge" /\ UNCHANGED <<commits, applied, start>>
      /\ out' = out \o page /\ fetched' = {} /\ more' = FALSE
      /\ at' = IF next THEN "transfer" ELSE "end"
      /\ cursor' = IF next THEN nextCursor(page) ELSE cursor
  BY DEF getOperationHistoryPage, database
<1>3. Ordered(Committed) /\ fetched \in SUBSET Committed /\ Ordered(fetched)
      /\ kept \in SUBSET fetched /\ Ordered(kept)
  <2>1. kept \in SUBSET fetched /\ fetched \in SUBSET Committed
    BY DEF Newest, HistoryTypes
  <2> QED
    BY <2>1, CommittedOrdered, OrderedSubset
<1>4. /\ page \in Seq(kept)
      /\ Len(page) = Cardinality(kept) /\ Cardinality(kept) \in Nat
      /\ ToSet(page) = kept
      /\ \A i, j \in DOMAIN page : i < j => Newer(page[i], page[j])
  <2> HIDE DEF kept
  <2> QED
    BY <1>3, NewestFirstOrders
<1>5. page = <<>> <=> kept = {}
  BY <1>3, <1>4, FS_EmptySet DEF Ordered
<1> HIDE DEF page
<1>6. ASSUME NEW r \in Committed, Cardinality(NewerIn(fetched, r)) >= Limit, hasMore
      PROVE  next /\ \A p \in kept : Newer(p, r)
  <2>1. (\A p \in kept : Newer(p, r)) /\ Cardinality(kept) = Limit
    BY <1>1, <1>3, <1>6, FullPage
  <2>2. kept # {}
    BY <1>1, <2>1, FS_EmptySet
  <2> QED
    BY <1>5, <1>6, <2>1, <2>2
<1>7. Owed \subseteq Committed /\ Owed' = Owed /\ Committed' = Committed
  BY <1>2 DEF Owed, Committed, Prefix, HistoryTypes
\* An owed row that is not on this page or an earlier one.
<1>8. ASSUME NEW r \in Owed, r \notin ToSet(out), r \notin kept
      PROVE  next /\ \A p \in kept : Newer(p, r)
  <2>1. r \in Committed /\ Behind(r) /\ r.source \in Asked
    <3>1. r \in Rows
      BY <1>7, CommittedOrdered
    <3> QED
      BY <1>2, <1>7, <1>8, <3>1 DEF NothingLost, Asked, Rows
  <2>2. CASE r \in fetched
    <3>1. Cardinality(NewerIn(fetched, r)) >= Limit
          /\ Cardinality(NewerIn(fetched, r)) \in Nat /\ IsFiniteSet(NewerIn(fetched, r))
      BY <1>1, <1>3, <1>8, <2>2, RankTyped, NewestRank
    <3>2. r \notin NewerIn(fetched, r) /\ NewerIn(fetched, r) \cup {r} \in SUBSET fetched
      BY <1>3, <2>2, NewerTotal DEF NewerIn
    <3>3. Cardinality(NewerIn(fetched, r) \cup {r}) = Cardinality(NewerIn(fetched, r)) + 1
      BY <3>1, <3>2, FS_AddElement
    <3>4. Cardinality(NewerIn(fetched, r) \cup {r}) <= Cardinality(fetched)
          /\ Cardinality(fetched) \in Nat
      BY <1>3, <3>2, FS_Subset, FS_CardinalityType DEF Ordered
    <3>5. hasMore
      BY <1>1, <3>1, <3>3, <3>4 DEF hasMore
    <3> QED
      BY <1>6, <2>1, <3>1, <3>5
  <2>3. CASE r \notin fetched
    <3>1. more /\ Cardinality(NewerIn(fetched, r)) >= Limit
      BY <2>1, <2>3 DEF SourcesCovered
    <3> QED
      BY <1>6, <2>1, <3>1 DEF hasMore
  <2> QED
    BY <2>2, <2>3
<1>9. out \in Seq(Committed) /\ page \in Seq(Committed) /\ out' \in Seq(Committed)
      /\ ToSet(out') = ToSet(out) \cup kept
  <2>1. out \in Seq(Committed) /\ page \in Seq(Committed)
    BY <1>3, <1>4 DEF HistoryTypes
  <2> QED
    BY <1>2, <1>4, <2>1, Concatenated
<1>10. next => /\ nextCursor(page) \in kept
               /\ out' # <<>> /\ Last(out') = nextCursor(page)
               /\ \A r : (\A p \in kept : Newer(p, r)) => Newer(nextCursor(page), r)
  <2> SUFFICES ASSUME next
               PROVE  /\ nextCursor(page) \in kept
                      /\ out' # <<>> /\ Last(out') = nextCursor(page)
    OBVIOUS
  <2>1. page # <<>> /\ nextCursor(page) = page[Len(page)]
    BY DEF nextCursor, Last
  <2>2. Len(page) \in DOMAIN page /\ page[Len(page)] \in kept
    BY <1>4, <2>1
  <2>3. Len(out') = Len(out) + Len(page) /\ Len(out') > 0
        /\ out'[Len(out')] = page[Len(page)]
    BY <1>2, <1>9, <2>2
  <2> QED
    BY <1>9, <2>1, <2>2, <2>3 DEF Last
<1>11. HistoryTypes'
  <2>1. cursor' \in Committed \cup {NoCursor}
    BY <1>2, <1>3, <1>10 DEF HistoryTypes
  <2> QED
    BY <1>2, <1>7, <1>9, <2>1 DEF HistoryTypes
<1>12. CursorTrue'
  <2> SUFFICES ASSUME next
               PROVE  /\ cursor' # NoCursor /\ out' # <<>> /\ cursor' = Last(out')
    BY <1>2 DEF CursorTrue
  <2>1. nextCursor(page) \in Rows
    BY <1>3, <1>10, CommittedOrdered
  <2> QED
    BY <1>2, <1>10, <2>1 DEF HistoryAssumption
<1>13. NothingLost'
  <2> SUFFICES ASSUME NEW r \in Owed, r \notin ToSet(out')
               PROVE  at' # "end" /\ Behind(r)'
    BY <1>7 DEF NothingLost
  <2>1. next /\ \A p \in kept : Newer(p, r)
    BY <1>8, <1>9
  <2> QED
    BY <1>2, <1>10, <2>1 DEF Behind
<1>14. SourcesCovered'
  BY <1>2 DEF SourcesCovered, Asked
<1>15. NoRowTwice'
  <2> SUFFICES ASSUME NEW i \in DOMAIN out', NEW j \in DOMAIN out', i < j
               PROVE  Newer(out'[i], out'[j])
    BY DEF NoRowTwice
  <2>1. \A k \in 1 .. Len(out') :
           out'[k] = IF k <= Len(out) THEN out[k] ELSE page[k - Len(out)]
    BY <1>2, <1>9
  <2>2. Len(out') = Len(out) + Len(page) /\ Len(out) \in Nat /\ Len(page) \in Nat
    BY <1>2, <1>9
  <2>3. CASE j <= Len(out)
    BY <1>9, <2>1, <2>2, <2>3 DEF NoRowTwice
  <2>4. CASE i > Len(out)
    <3>1. i - Len(out) \in DOMAIN page /\ j - Len(out) \in DOMAIN page
          /\ i - Len(out) < j - Len(out)
          /\ out'[i] = page[i - Len(out)] /\ out'[j] = page[j - Len(out)]
      BY <1>9, <2>1, <2>2, <2>4
    <3> QED
      BY <1>4, <3>1
  <2>5. CASE i <= Len(out) /\ j > Len(out)
    <3>1. i \in DOMAIN out /\ out'[i] = out[i] /\ out[i] \in Committed
      BY <1>9, <2>1, <2>2, <2>5
    <3>2. j - Len(out) \in DOMAIN page /\ out'[j] = page[j - Len(out)]
      BY <1>9, <2>1, <2>2, <2>5
    <3>3. out'[j] \in kept /\ out'[j] \in fetched /\ out'[j] \in Committed
      BY <1>3, <1>4, <3>2
    <3>4. cursor # NoCursor /\ cursor = Last(out) /\ cursor = out[Len(out)]
          /\ Newer(cursor, out'[j]) /\ Len(out) \in DOMAIN out
      BY <1>2, <1>9, <3>1, <3>3 DEF CursorTrue, Behind, Last
    <3>5. CASE i = Len(out)
      BY <3>1, <3>4, <3>5
    <3>6. CASE i # Len(out)
      <4>1. Newer(out[i], cursor) /\ cursor \in Committed
        BY <1>9, <2>2, <2>5, <3>1, <3>4, <3>6 DEF NoRowTwice
      <4> QED
        BY <1>3, <3>1, <3>3, <3>4, <4>1, NewerTransitive
    <3> QED
      BY <3>5, <3>6
  <2> QED
    BY <1>9, <2>2, <2>3, <2>4, <2>5
<1> QED
  BY <1>11, <1>12, <1>13, <1>14, <1>15

\* A new row, or a standby catching up, takes nothing from what the walk has.
LEMMA DatabaseSteps ==
    ASSUME HistoryAssumption, HistoryInv,
           (\E source \in {"transfer", "deposit", "withdrawal"} : CommitRow(source)) \/ Replay
    PROVE  HistoryInv'
<1> USE DEF HistoryInv
<1>1. /\ commits \in Seq(Rows) /\ Len(commits) \in Nat
      /\ applied \in 0 .. Len(commits) /\ start.applied \in 0 .. applied
  BY DEF HistoryTypes
<1>2. UNCHANGED <<at, cursor, fetched, more, out, start>>
  BY DEF CommitRow, Replay, walk
<1>3. ASSUME commits' \in Seq(Rows), Len(commits') \in Nat, Len(commits') >= Len(commits),
             \A i \in 1 .. Len(commits) : commits'[i] = commits[i],
             \A i, j \in DOMAIN commits' : commits'[i].id = commits'[j].id => i = j,
             applied' \in applied .. Len(commits')
      PROVE  HistoryInv'
  <2>1. Owed' = Owed
    <3>1. \A i \in 1 .. start.applied : commits'[i] = commits[i]
      BY <1>1, <1>3
    <3> QED
      BY <1>2, <3>1 DEF Owed, Prefix
  <2>2. Committed \subseteq Committed'
    BY <1>1, <1>3 DEF Committed, Prefix
  <2>3. out' \in Seq(Committed')
    <3>1. out \in Seq(Committed)
      BY DEF HistoryTypes
    <3> QED
      BY <1>2, <2>2, <3>1
  <2>4. HistoryTypes'
    BY <1>1, <1>2, <1>3, <2>2, <2>3 DEF HistoryTypes
  <2>5. CursorTrue' /\ NoRowTwice'
    BY <1>2 DEF CursorTrue, NoRowTwice, Behind
  <2>6. NothingLost' /\ SourcesCovered'
    BY <1>2, <2>1 DEF NothingLost, SourcesCovered, Behind, Asked
  <2> QED
    BY <2>4, <2>5, <2>6
<1>4. ASSUME NEW source \in {"transfer", "deposit", "withdrawal"}, CommitRow(source)
      PROVE  HistoryInv'
  <2>1. PICK id \in RowIds \ {commits[i].id : i \in DOMAIN commits}, t \in Times,
             p \in Parties(source) :
           commits' = Append(commits, [source |-> source, created |-> t, id |-> id,
                                       from |-> p[1], to |-> p[2]])
    BY <1>4 DEF CommitRow
  <2> DEFINE row == [source |-> source, created |-> t, id |-> id, from |-> p[1], to |-> p[2]]
  <2>2. row \in Rows
    <3>1. id \in Int /\ t \in Int
      BY DEF HistoryAssumption
    <3>2. p[1] \in {Me, Other} /\ p[2] \in {Me, Other} /\ <<p[1], p[2]>> = p
      BY DEF Parties
    <3> QED
      BY <3>1, <3>2 DEF Rows
  <2>3. row.id = id
    OBVIOUS
  <2> HIDE DEF row
  <2>4. /\ commits' \in Seq(Rows) /\ Len(commits') = Len(commits) + 1
        /\ \A i \in 1 .. Len(commits) : commits'[i] = commits[i]
        /\ commits'[Len(commits) + 1] = row
    BY <1>1, <2>1, <2>2 DEF row
  <2>5. \A i \in 1 .. Len(commits) : commits[i].id # id
    BY <1>1, <2>1
  <2>6. \A i, j \in 1 .. Len(commits) : commits[i].id = commits[j].id => i = j
    BY <1>1 DEF HistoryTypes
  <2>7. \A i, j \in DOMAIN commits' : commits'[i].id = commits'[j].id => i = j
    <3> HIDE DEF HistoryInv
    <3> SUFFICES ASSUME NEW i \in 1 .. Len(commits) + 1, NEW j \in 1 .. Len(commits) + 1,
                        commits'[i].id = commits'[j].id
                 PROVE  i = j
      BY <2>4
    <3>1. CASE i \in 1 .. Len(commits) /\ j \in 1 .. Len(commits)
      BY <2>4, <2>6, <3>1
    <3>2. CASE i \in 1 .. Len(commits) /\ j = Len(commits) + 1
      BY <2>3, <2>4, <2>5, <3>2
    <3>3. CASE i = Len(commits) + 1 /\ j \in 1 .. Len(commits)
      BY <2>3, <2>4, <2>5, <3>3
    <3> QED
      BY <1>1, <3>1, <3>2, <3>3
  <2>8. applied' = applied
    BY <1>4 DEF CommitRow
  <2> QED
    BY <1>1, <1>3, <2>4, <2>7, <2>8
<1>5. CASE Replay
  <2>1. commits' = commits /\ applied' \in applied .. Len(commits)
    BY <1>1, <1>5 DEF Replay
  <2>2. \A i, j \in DOMAIN commits : commits[i].id = commits[j].id => i = j
    BY DEF HistoryTypes
  <2> QED
    BY <1>1, <1>3, <2>1, <2>2
<1> QED
  BY <1>4, <1>5

\* A walk begins with nothing shown, and a failed page is read again whole.
LEMMA WalkSteps ==
    ASSUME HistoryInv, OpenHistory \/ PageFails
    PROVE  HistoryInv'
<1> USE DEF HistoryInv
<1>1. CASE OpenHistory
  <2>1. /\ at = "closed" /\ at' = "transfer" /\ start'.applied = applied
        /\ UNCHANGED <<commits, applied, cursor, fetched, more, out>>
    BY <1>1 DEF OpenHistory, database
  <2>2. cursor = NoCursor
    BY <1>1 DEF OpenHistory, NothingLost, CursorTrue
  <2>3. HistoryTypes'
    BY <2>1 DEF HistoryTypes, Committed, Prefix
  <2>4. CursorTrue' /\ NoRowTwice'
    BY <2>1 DEF CursorTrue, NoRowTwice, Behind
  <2>5. NothingLost' /\ SourcesCovered'
    BY <2>1, <2>2 DEF NothingLost, SourcesCovered, Behind, Asked
  <2> QED
    BY <2>3, <2>4, <2>5
<1>2. CASE PageFails
  <2>1. /\ at \notin {"closed", "end"} /\ at' = "transfer" /\ fetched' = {} /\ more' = FALSE
        /\ UNCHANGED <<commits, applied, cursor, out, start>>
    BY <1>2 DEF PageFails, database
  <2>2. HistoryTypes'
    BY <2>1 DEF HistoryTypes, Committed, Prefix
  <2>3. CursorTrue' /\ NoRowTwice'
    BY <2>1 DEF CursorTrue, NoRowTwice, Behind
  <2>4. NothingLost' /\ SourcesCovered'
    BY <2>1 DEF NothingLost, SourcesCovered, Behind, Asked, Owed, Prefix
  <2> QED
    BY <2>2, <2>3, <2>4
<1> QED
  BY <1>1, <1>2

-----------------------------------------------------------------------------
LEMMA HistoryInvInit ==
    ASSUME HistoryAssumption, HistoryInit
    PROVE  HistoryInv
<1> USE DEF HistoryInit
<1>1. HistoryTypes
  <2>1. commits \in Seq(Rows) /\ Len(commits) \in Nat
    BY DEF HistoryAssumption
  <2>2. out \in Seq(Committed) /\ fetched \in SUBSET Committed
    OBVIOUS
  <2>3. \A i, j \in DOMAIN commits : commits[i].id = commits[j].id => i = j
    BY DEF HistoryAssumption
  <2>4. applied \in 0 .. Len(commits) /\ start.applied \in 0 .. applied
    BY <2>1
  <2> QED
    BY <2>1, <2>2, <2>3, <2>4 DEF HistoryTypes
<1>2. CursorTrue /\ NothingLost /\ SourcesCovered /\ NoRowTwice
  BY DEF CursorTrue, NothingLost, SourcesCovered, NoRowTwice, Behind, Asked
<1> QED
  BY <1>1, <1>2 DEF HistoryInv

LEMMA HistoryInvStep ==
    ASSUME HistoryAssumption, HistoryInv, [HistoryNext]_historyVars
    PROVE  HistoryInv'
<1>1. CASE UNCHANGED historyVars
  BY <1>1 DEF HistoryInv, HistoryTypes, CursorTrue, NothingLost, SourcesCovered, NoRowTwice,
              Committed, Owed, Prefix, Behind, Asked, historyVars, database, walk
<1>2. CASE (\E source \in {"transfer", "deposit", "withdrawal"} : CommitRow(source)) \/ Replay
  BY <1>2, DatabaseSteps
<1>3. CASE OpenHistory \/ PageFails
  BY <1>3, WalkSteps
<1>4. CASE QueryTransfers \/ QueryDeposits \/ QueryWithdrawals
  BY <1>4, QuerySteps
<1>5. CASE getOperationHistoryPage
  BY <1>5, MergeStep
<1> QED
  BY <1>1, <1>2, <1>3, <1>4, <1>5 DEF HistoryNext

\* Between the queries of a page: what the cursor, the rows fetched so far and
\* the sources still to ask leave, together, is all that is owed.
THEOREM HistoryInvariant == HistorySpec => []HistoryInv
<1>1. HistoryInit => HistoryInv
  BY HistoryInvInit, HistoryAssumption
<1>2. HistoryInv /\ [HistoryNext]_historyVars => HistoryInv'
  BY HistoryInvStep, HistoryAssumption
<1> QED
  BY <1>1, <1>2, PTL DEF HistorySpec

\* Whatever the page size, whatever commits between two queries, whichever
\* standby answers them and however often a page fails: the pages of a walk show
\* no row twice, newest first, and every row all standbys had when it began.
THEOREM WalkShowsEveryRowOnce == HistorySpec => []EveryRowOnce
<1>1. HistoryInv => EveryRowOnce
  BY DEF HistoryInv, NothingLost, NothingSkipped, EveryRowOnce, Owed
<1> QED
  BY <1>1, HistoryInvariant, PTL

=============================================================================

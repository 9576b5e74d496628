----------------------------- MODULE Operations -----------------------------
(***************************************************************************)
(* What one customer's requests meet around the transfer saga: the limits  *)
(* a transfer passes before it reaches the ledger (accounts-svc's resolve  *)
(* limit, fraud-svc's rules), and simulated withdrawals, which debit the   *)
(* ledger before they write a row.                                         *)
(*                                                                         *)
(* A step is one statement or one RPC.  A statement sees what had          *)
(* committed when it began (READ COMMITTED), and now() is the time its     *)
(* transaction began.                                                      *)
(***************************************************************************)
EXTENDS Integers, Sequences, FiniteSets, FiniteSetsExt

CONSTANTS
    Handlers,        \* requests of the customer served at the same time
    TransferAmounts, \* amounts of transfers
    Thresholds,      \* threshold_value of every enabled rule of fraud_rules
    ResolveLimit,    \* resolveRateLimit
    Window,          \* the window of every limit
    Retention,       \* resolveAttemptsRetention
    Funds,           \* the customer's balance; a withdrawal takes 1
    MaxOperations,   \* bound: requests received
    MaxNow,          \* bound: the clock
    MaxMishaps       \* bound: crashes, failed statements, lost answers

ASSUME OperationsAssumption ==
    /\ IsFiniteSet(Handlers) /\ Handlers # {}
    /\ TransferAmounts \subseteq Nat
    /\ \A rule \in DOMAIN Thresholds : Thresholds[rule] \in Nat
    /\ ResolveLimit \in Nat
    /\ Window \in Nat \ {0} /\ Retention \in Nat
    /\ Funds \in Nat /\ MaxNow \in Nat

VARIABLES
    now,
    attempts,     \* rows of iban_resolve_attempts, by the request they count
    checks,       \* rows of fraud_checks with decision 'approve'
    debits,       \* withdrawals the ledger posted
    withdrawals,  \* withdrawals rows
    task,         \* what each handler does
    received, mishaps,
    faulted,      \* history: requests that met a fault
    resolved      \* history: every row iban_resolve_attempts ever had

limits == <<attempts, resolved, checks>>
money == <<debits, withdrawals>>
bounds == <<received, mishaps, faulted>>
operationsVars == <<now, limits, money, task, bounds>>

NoTask == [at |-> "idle", op |-> 0, amount |-> 0, since |-> 0, seen |-> 0, status |-> "none"]

OperationsInit ==
    /\ now = 0
    /\ attempts = {}
    /\ resolved = {}
    /\ checks = {}
    /\ debits = {}
    /\ withdrawals = {}
    /\ task = [h \in Handlers |-> NoTask]
    /\ received = 0
    /\ mishaps = 0
    /\ faulted = {}

Mishap(h) ==
    /\ mishaps < MaxMishaps
    /\ mishaps' = mishaps + 1
    /\ faulted' = faulted \cup {task[h].op}
    /\ UNCHANGED received

Tick ==
    /\ now < MaxNow
    /\ now' = now + 1
    /\ UNCHANGED <<limits, money, task, bounds>>

Goto(h, step) == task' = [task EXCEPT ![h].at = step]

\* The first statement of a transaction fixes its now().
Begin(h, step) == task' = [task EXCEPT ![h].at = step, ![h].since = now]

Done(h) == task' = [task EXCEPT ![h] = NoTask]

Receive(h, step, amount) ==
    /\ task[h].at = "idle" /\ received < MaxOperations
    /\ received' = received + 1
    /\ task' = [task EXCEPT ![h] = [at |-> step, op |-> received + 1, amount |-> amount,
                                    since |-> 0, seen |-> 0, status |-> "none"]]
    /\ UNCHANGED <<now, limits, money, mishaps, faulted>>

-----------------------------------------------------------------------------
(***************************************************************************)
(* The resolve limit: one statement that counts in its snapshot and        *)
(* inserts when that count is below the limit.                             *)
(***************************************************************************)
countRecentAttempts(h) ==
    /\ task[h].at = "resolve"
    /\ task' = [task EXCEPT ![h].at = "attempt", ![h].since = now,
                  ![h].seen = Cardinality({a \in attempts : a.at > now - Window})]
    /\ UNCHANGED <<now, limits, money, bounds>>

\* Faulty: the attempt that reaches the limit passes too.
AllowedOffByOne(seen) == seen <= ResolveLimit

Allowed(seen) == seen < ResolveLimit

Attempt(h) == [op |-> task[h].op, at |-> task[h].since]

\* Past the limit nothing is recorded.  A recipient that is found and accepted
\* leads to the pending row and its fraud check.
recordResolveAttempt(h) ==
    /\ task[h].at = "attempt"
    /\ \/ /\ Allowed(task[h].seen)
          /\ attempts' = attempts \cup {Attempt(h)}
          /\ resolved' = resolved \cup {Attempt(h)}
          /\ Goto(h, "check") \/ Done(h)
       \/ /\ ~Allowed(task[h].seen)
          /\ Done(h)
          /\ UNCHANGED <<attempts, resolved>>
    /\ UNCHANGED <<now, checks, money, bounds>>

deleteStaleResolveAttempts ==
    /\ \E a \in attempts : a.at < now - Retention
    /\ attempts' = {a \in attempts : a.at >= now - Retention}
    /\ UNCHANGED <<now, resolved, checks, money, task, bounds>>

-----------------------------------------------------------------------------
(***************************************************************************)
(* fraud-svc's CheckTransfer: one transaction, three rules in a fixed      *)
(* order, the decision recorded before it is answered.                     *)
(***************************************************************************)
ruleEvaluationOrder == <<"amount_threshold", "velocity_count", "velocity_sum">>

Recent(since) == {c \in checks : c.at >= since - Window}

countRecentApprovedTransfers(since) == Cardinality(Recent(since))

TotalAmount(rows) == MapThenSumSet(LAMBDA c : c.amount, rows)

sumRecentApprovedTransfers(since) == TotalAmount(Recent(since))

\* Faulty: the rules look at what was approved before this transfer.
observedBefore(rule, h) ==
    CASE rule = "amount_threshold" -> task[h].amount
      [] rule = "velocity_count" -> countRecentApprovedTransfers(task[h].since)
      [] rule = "velocity_sum" -> sumRecentApprovedTransfers(task[h].since)

\* What each rule compares: this transfer counts.
observed(rule, h) ==
    CASE rule = "amount_threshold" -> task[h].amount
      [] rule = "velocity_count" -> countRecentApprovedTransfers(task[h].since) + 1
      [] rule = "velocity_sum" -> sumRecentApprovedTransfers(task[h].since) + task[h].amount

loadEnabledRules(h) ==
    /\ task[h].at = "check"
    /\ Begin(h, ruleEvaluationOrder[1])
    /\ UNCHANGED <<now, limits, money, bounds>>

\* A disabled rule is passed over; the first that trips ends the evaluation.
checkTransfer(h) ==
    \E i \in DOMAIN ruleEvaluationOrder :
        LET rule == ruleEvaluationOrder[i]
            trips == rule \in DOMAIN Thresholds /\ observed(rule, h) > Thresholds[rule]
        IN /\ task[h].at = rule
           /\ Goto(h, IF trips THEN "reject"
                      ELSE IF i = Len(ruleEvaluationOrder) THEN "approve"
                      ELSE ruleEvaluationOrder[i + 1])
           /\ UNCHANGED <<now, limits, money, bounds>>

\* A rejected transfer ends here, an approved one goes on to settleTransfer.
recordFraudCheck(h) ==
    /\ task[h].at \in {"approve", "reject"}
    /\ checks' = IF task[h].at = "approve"
                   THEN checks \cup {[op |-> task[h].op, at |-> task[h].since,
                                      amount |-> task[h].amount]}
                   ELSE checks
    /\ Done(h)
    /\ UNCHANGED <<now, attempts, resolved, money, bounds>>

-----------------------------------------------------------------------------
(***************************************************************************)
(* createWithdrawal: the ledger first, without a reference, then the row.  *)
(***************************************************************************)
GetAccountByID(h) ==
    /\ task[h].at = "status"
    /\ Goto(h, "debit") \/ Done(h)          \* active, or not
    /\ UNCHANGED <<now, limits, money, bounds>>

\* ledger-svc's ExecuteTransfer to the genesis account.
ExecuteTransfer(h) ==
    /\ Cardinality(debits) < Funds
    /\ debits' = debits \cup {task[h].op}

Outcome(h, status) == task' = [task EXCEPT ![h].at = "insert", ![h].status = status]

\* Faulty: every error is taken for a lack of funds.
LedgerErrorFailed(h) == Outcome(h, "failed")

\* Any error but FailedPrecondition: the caller is told, nothing is written.
LedgerError(h) == Done(h)

createWithdrawal(h) ==
    /\ task[h].at = "debit"
    /\ \/ /\ ExecuteTransfer(h)
          /\ Outcome(h, "payout_simulated")
          /\ UNCHANGED bounds
       \/ /\ Cardinality(debits) >= Funds
          /\ Outcome(h, "failed")
          /\ UNCHANGED <<debits, bounds>>
       \/ /\ Mishap(h)
          /\ ExecuteTransfer(h) \/ UNCHANGED debits
          /\ LedgerError(h)
    /\ UNCHANGED <<now, limits, withdrawals>>

insertWithdrawal(h) ==
    /\ task[h].at = "insert"
    /\ withdrawals' = withdrawals \cup {[op |-> task[h].op, status |-> task[h].status]}
    /\ Done(h)
    /\ UNCHANGED <<now, limits, debits, bounds>>

\* A crash, a statement that fails or a caller that goes away: what has not
\* committed is rolled back, what has stays.
Abandon(h) ==
    /\ task[h].at # "idle"
    /\ Mishap(h)
    /\ Done(h)
    /\ UNCHANGED <<now, limits, money>>

-----------------------------------------------------------------------------
createTransferHandler(h) == \E a \in TransferAmounts : Receive(h, "resolve", a)

createWithdrawalHandler(h) == Receive(h, "status", 1)

OperationsNext ==
    \/ Tick
    \/ deleteStaleResolveAttempts
    \/ \E h \in Handlers :
         \/ createTransferHandler(h) \/ createWithdrawalHandler(h)
         \/ countRecentAttempts(h) \/ recordResolveAttempt(h)
         \/ loadEnabledRules(h) \/ checkTransfer(h) \/ recordFraudCheck(h)
         \/ GetAccountByID(h) \/ createWithdrawal(h) \/ insertWithdrawal(h)
         \/ Abandon(h)

OperationsSpec == OperationsInit /\ [][OperationsNext]_operationsVars

-----------------------------------------------------------------------------
(***************************************************************************)
(* Properties.  Checks that overlap each miss the other's insert; nothing  *)
(* else lets a customer past a limit.                                      *)
(***************************************************************************)
Slack == Cardinality(Handlers) - 1

ApprovedIn(t) == {c \in checks : c.at \in t .. t + Window}

\* In any window fraud-svc approves at most one transfer per concurrent
\* handler more than velocity_count, and their amounts exceed velocity_sum by
\* at most one largest transfer each.
VelocityBounded ==
    \A t \in 0 .. MaxNow :
        /\ "velocity_count" \in DOMAIN Thresholds =>
              Cardinality(ApprovedIn(t)) <= Thresholds["velocity_count"] + Slack
        /\ {"velocity_sum", "amount_threshold"} \subseteq DOMAIN Thresholds =>
              TotalAmount(ApprovedIn(t))
                <= Thresholds["velocity_sum"] + Slack * Thresholds["amount_threshold"]

ResolvedIn(t) == {a \in resolved : a.at \in t .. t + Window - 1}

\* In any window a user resolves at most one IBAN per concurrent handler more
\* than the limit.
LimitHolds ==
    \A t \in 0 .. MaxNow : Cardinality(ResolvedIn(t)) <= ResolveLimit + Slack

\* The limit holds whenever the cleanup runs, if what it keeps outlives the
\* window: the premise rate_limit.go:54-57 states and no code enforces.
AttemptsBounded == Retention >= Window => LimitHolds

\* A withdrawal's row agrees with the ledger, and a debit without a row is one
\* whose request crashed, failed to write or got no answer.
DebitsAccounted ==
    LET open == {task[h].op : h \in {g \in Handlers : task[g].at = "insert"}} IN
    /\ \A w \in withdrawals : w.op \in debits <=> w.status = "payout_simulated"
    /\ debits \subseteq {w.op : w \in withdrawals} \cup open \cup faulted
=============================================================================

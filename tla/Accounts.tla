------------------------------ MODULE Accounts ------------------------------
(***************************************************************************)
(* accounts-svc: the consumer that opens an account and a ledger account   *)
(* for every activated user, the IBANs, their backfill and their lookup,   *)
(* and status changes by operators.                                        *)
(*                                                                         *)
(* A step is one statement or one RPC.  An account is its user, an event   *)
(* is its offset in user.events.                                           *)
(***************************************************************************)
EXTENDS Iban, FiniteSets

CONSTANTS
    Users,
    Numbers,      \* the digits generateAccountNumber can draw
    Legacy,       \* accounts from before the iban column, with their numbers
    BankCode,
    MaxDraws,     \* maxAccountNumberAttempts
    MaxEvents,    \* bound: events of user.events
    MaxFaults,    \* bound: crashes, failed calls, lost commits
    MaxChanges,   \* bound: status changes
    None

Statuses == {"active", "frozen", "closed"}

VARIABLES
    log,         \* user.events
    committed,   \* the group's offset
    pos,         \* how far the reader has fetched
    task,        \* what the consumer does with its message
    accounts,    \* accounts rows
    created,     \* accounts_outbox: AccountCreated events
    ledger,      \* users with a ledger account (ledger-svc)
    processed,   \* processed_events
    proc,        \* the process: starting, up, down
    faults, changes,
    lapsed       \* history: events whose handler returned an error

kafka == <<log, committed, pos>>
tables == <<accounts, created, processed>>
vars == <<kafka, task, tables, ledger, proc, changes, faults, lapsed>>

NoTask == [at |-> "fetch", draws |-> 0]

Init ==
    /\ log = <<>>
    /\ committed = 0
    /\ pos = 0
    /\ task = NoTask
    /\ accounts = [u \in Users |->
         IF u \in DOMAIN Legacy
           THEN [number |-> Legacy[u], iban |-> <<>>, status |-> "active"]
           ELSE None]
    /\ created = <<>>
    /\ ledger = DOMAIN Legacy
    /\ processed = {}
    /\ proc = "starting"
    /\ faults = 0
    /\ changes = 0
    /\ lapsed = {}

Fault == faults < MaxFaults /\ faults' = faults + 1

Opened == {u \in Users : accounts[u] # None}

-----------------------------------------------------------------------------
(***************************************************************************)
(* Account numbers and IBANs.                                              *)
(***************************************************************************)

\* "0000" and the first two digits, then the other eight.
ibanPartsFromAccountNumber(number) ==
    <<<<0, 0, 0, 0>> \o SubSeq(number, 1, 2), SubSeq(number, 3, 10)>>

ibanOf(number) ==
    LET parts == ibanPartsFromAccountNumber(number)
    IN Generate(BankCode, parts[1], parts[2])

\* A row: the IBAN is missing only in accounts from before the column.
Row == LET numbers == Numbers \cup {Legacy[u] : u \in DOMAIN Legacy}
       IN [number : numbers, iban : {<<>>} \cup {ibanOf(n) : n \in numbers},
           status : Statuses]

\* generateAccountNumber draws ten digits; Generate refuses other bank codes, and
\* ResolveAccountByIban compares the one it was given, which is in upper case.
ASSUME NumbersAssumption ==
    /\ BankCode \in [1 .. 4 -> Letters]
    /\ Numbers \subseteq [1 .. 10 -> Digits]
    /\ \A u \in DOMAIN Legacy : Legacy[u] \in [1 .. 10 -> Digits]

\* account_number is UNIQUE.
ASSUME AccountsAssumption ==
    /\ DOMAIN Legacy \subseteq Users
    /\ \A u, v \in DOMAIN Legacy : Legacy[u] = Legacy[v] => u = v
    /\ None \notin Row

\* Start-up fills one missing IBAN after the other; the listeners and the
\* consumer wait for the last.
backfillIBANs ==
    /\ proc = "starting"
    /\ \E u \in Opened :
         /\ accounts[u].iban = <<>>
         /\ accounts' = [accounts EXCEPT ![u].iban = ibanOf(accounts[u].number)]
    /\ UNCHANGED <<kafka, task, created, processed, ledger, proc, changes, faults, lapsed>>

Backfilled == \A u \in Opened : accounts[u].iban # <<>>

Serve ==
    /\ proc = "starting"
    /\ Backfilled
    /\ proc' = "up"
    /\ pos' = committed
    /\ UNCHANGED <<log, committed, task, tables, ledger, changes, faults, lapsed>>

-----------------------------------------------------------------------------
(***************************************************************************)
(* The consumer.                                                           *)
(***************************************************************************)

\* auth-svc publishes one activation per user and then profile updates.
PublishEvent(u) ==
    /\ u \notin DOMAIN Legacy
    /\ Len(log) < MaxEvents
    /\ LET known == \E i \in DOMAIN log : log[i].user = u IN
         log' = Append(log, [user |-> u, type |-> IF known THEN "ProfileUpdated"
                                                            ELSE "UserActivated"])
    /\ UNCHANGED <<committed, pos, task, tables, ledger, proc, changes, faults, lapsed>>

\* The consumer never looks at event_type: a ProfileUpdated decodes as a
\* UserActivated with the same user and event id.
User == log[pos].user

Goto(step) == task' = [task EXCEPT !.at = step]

runUserActivatedConsumer ==
    /\ proc = "up"
    /\ task.at = "fetch"
    /\ pos < Len(log)
    /\ pos' = pos + 1
    /\ Goto("check")
    /\ UNCHANGED <<log, committed, tables, ledger, proc, changes, faults, lapsed>>

\* Faulty: the check asks for the account row, not for the event, so a crash
\* between the row and the ledger call is never made good.
isEventProcessedSkips ==
    /\ task.at = "check"
    /\ Goto(IF User \in Opened \/ pos \in processed THEN "commit" ELSE "create")
    /\ UNCHANGED <<kafka, tables, ledger, proc, changes, faults, lapsed>>

isEventProcessed ==
    /\ task.at = "check"
    /\ Goto(IF pos \in processed THEN "commit" ELSE "create")
    /\ UNCHANGED <<kafka, tables, ledger, proc, changes, faults, lapsed>>

\* Faulty: the event goes out whether or not the row is new.
AccountCreatedAlways(u) == Append(created, u)

\* In the transaction of the INSERT, and only if it inserted.
AccountCreated(u) == IF u \in Opened THEN created ELSE Append(created, u)

\* Faulty: ON CONFLICT (user_id) DO UPDATE.
tryCreateAccountUpsert(u, number) ==
    /\ accounts' = [accounts EXCEPT ![u] = [number |-> number, iban |-> ibanOf(number),
                                            status |-> "active"]]
    /\ created' = AccountCreated(u)

\* INSERT ... ON CONFLICT (user_id) DO NOTHING with a fresh number.
tryCreateAccount(u, number) ==
    /\ accounts' = IF u \in Opened THEN accounts
                   ELSE [accounts EXCEPT ![u] = [number |-> number, iban |-> ibanOf(number),
                                                 status |-> "active"]]
    /\ created' = AccountCreated(u)

\* A number that is taken is drawn again, a bounded number of times.
createAccountForUser ==
    /\ task.at = "create"
    /\ \E number \in Numbers :
         LET taken == User \notin Opened /\ \E v \in Opened : accounts[v].number = number IN
         \/ /\ ~taken
            /\ tryCreateAccount(User, number)
            /\ Goto("ledger")
         \/ /\ taken /\ task.draws + 1 < MaxDraws
            /\ task' = [task EXCEPT !.draws = @ + 1]
            /\ UNCHANGED <<accounts, created>>
    /\ UNCHANGED <<kafka, processed, ledger, proc, changes, faults, lapsed>>

\* CreateLedgerAccount is get-or-create.
createLedgerAccountForAccount ==
    /\ task.at = "ledger"
    /\ ledger' = ledger \cup {User}
    /\ Goto("mark")
    /\ UNCHANGED <<kafka, tables, proc, changes, faults, lapsed>>

markEventProcessed ==
    /\ task.at = "mark"
    /\ processed' = processed \cup {pos}
    /\ Goto("commit")
    /\ UNCHANGED <<kafka, accounts, created, ledger, proc, changes, faults, lapsed>>

\* handleUserActivated returns an error: a statement or the RPC failed (the
\* latter perhaps after it took effect).  The loop continues without a commit.
HandlerFails ==
    /\ task.at \in {"check", "create", "ledger", "mark"}
    /\ Fault
    /\ \/ UNCHANGED ledger
       \/ task.at = "ledger" /\ ledger' = ledger \cup {User}
    /\ task' = NoTask
    /\ lapsed' = lapsed \cup {pos}
    /\ UNCHANGED <<kafka, tables, proc, changes>>

\* The last draw is taken as well.
DrawsExhausted ==
    /\ task.at = "create" /\ task.draws + 1 = MaxDraws
    /\ User \notin Opened
    /\ \E v \in Opened : accounts[v].number \in Numbers
    /\ task' = NoTask
    /\ lapsed' = lapsed \cup {pos}
    /\ UNCHANGED <<kafka, tables, ledger, proc, changes, faults>>

CommitMessages ==
    /\ task.at = "commit"
    /\ \/ committed' = pos /\ UNCHANGED faults
       \/ Fault /\ UNCHANGED committed
    /\ task' = NoTask
    /\ UNCHANGED <<log, pos, tables, ledger, proc, changes, lapsed>>

Crash ==
    /\ proc # "down"
    /\ Fault
    /\ proc' = "down"
    /\ task' = NoTask
    /\ UNCHANGED <<kafka, tables, ledger, changes, lapsed>>

Restart ==
    /\ proc = "down"
    /\ proc' = "starting"
    /\ UNCHANGED <<kafka, task, tables, ledger, changes, faults, lapsed>>

-----------------------------------------------------------------------------
(***************************************************************************)
(* Requests: PATCH /{id}/status and ResolveAccountByIban.                  *)
(***************************************************************************)

\* One transaction that holds the row from its SELECT ... FOR UPDATE on.  A
\* closed account refuses every transition, an unknown one is a 404.
updateAccountStatus(u, s) ==
    /\ proc = "up" /\ changes < MaxChanges
    /\ u \in Opened
    /\ accounts[u].status # "closed"
    /\ accounts' = [accounts EXCEPT ![u].status = s]
    /\ changes' = changes + 1
    /\ UNCHANGED <<kafka, task, created, processed, ledger, proc, faults, lapsed>>

getAccountByIBAN(s) == {u \in Opened : accounts[u].iban = s}

\* The answer, once the rate limit let the call through: the layout is looked
\* at before the bank code is cut out of it.
ResolveAccountByIban(typed) ==
    LET n == Normalize(typed)
        ours == Len(n) = IELength /\ SubSeq(n, 1, 2) = CountryIE
                /\ SubSeq(n, 5, 8) = BankCode
    IN IF ~Validate(n) THEN "invalid"
       ELSE IF ~ours THEN "other_bank"
       ELSE IF getAccountByIBAN(n) = {} THEN "not_found"
       ELSE CHOOSE u \in Opened : accounts[u].iban = n

-----------------------------------------------------------------------------
Consume ==
    \/ runUserActivatedConsumer
    \/ isEventProcessed
    \/ createAccountForUser
    \/ createLedgerAccountForAccount
    \/ markEventProcessed
    \/ CommitMessages

Next ==
    \/ backfillIBANs \/ Serve
    \/ \E u \in Users : PublishEvent(u)
    \/ Consume
    \/ HandlerFails \/ DrawsExhausted
    \/ Crash \/ Restart
    \/ \E u \in Users, s \in Statuses : updateAccountStatus(u, s)

Spec == Init /\ [][Next]_vars

\* The process starts again, gets through its backfill and keeps consuming.
FairSpec ==
    /\ Spec
    /\ WF_vars(backfillIBANs) /\ WF_vars(Serve) /\ WF_vars(Restart)
    /\ WF_vars(Consume \/ DrawsExhausted)

-----------------------------------------------------------------------------
(***************************************************************************)
(* Properties.                                                             *)
(***************************************************************************)
Provisioned(u) == u \in Opened /\ u \in ledger

\* Crashes, redeliveries and two events of one user never open a second
\* account or announce one twice, and whatever the consumer has marked or
\* committed, other than what its handler failed on, has both its accounts.
ProvisionedOnce ==
    /\ \A u \in Users \ DOMAIN Legacy :
         Cardinality({i \in DOMAIN created : created[i] = u}) = IF u \in Opened THEN 1 ELSE 0
    /\ \A i \in DOMAIN log :
         i \in processed \/ (i <= committed /\ i \notin lapsed) => Provisioned(log[i].user)

\* While the service answers requests every account has an IBAN that passes
\* its own validation and resolves to it however it is typed, and no slip of a
\* typist turns it into another customer's.
IbansSound ==
    proc = "up" =>
        \A u \in Opened :
            /\ Validate(accounts[u].iban)
            /\ ResolveAccountByIban(Format(accounts[u].iban)) = u
            /\ \A v \in Opened \ {u} : ~OneSlip(accounts[u].iban, accounts[v].iban)

\* Operators' decisions survive the consumer: an event handled again, or a
\* second event of the user, never reopens a closed account or changes the
\* number under which money reaches it.
AccountsAreKept ==
    [][\A u \in Opened :
          /\ accounts[u].status = "closed" => accounts'[u].status = "closed"
          /\ accounts'[u].number = accounts[u].number]_vars

\* Every event leads to an account with a ledger account, or its handler
\* returned an error.
EventuallyProvisioned ==
    \A i \in 1 .. MaxEvents :
        Len(log) >= i ~> (i \in lapsed \/ (i <= Len(log) /\ Provisioned(log[i].user)))

\* What the handler's comments say of an error: the offset is not committed
\* and the message is delivered again, so the user gets the accounts anyway.
RedeliveredAfterError ==
    \A i \in 1 .. MaxEvents :
        Len(log) >= i ~> (i <= Len(log) /\ Provisioned(log[i].user))
=============================================================================

--------------------------- MODULE Notifications ---------------------------
(***************************************************************************)
(* notifications-svc: three Kafka consumers in one process.  Two build the *)
(* user_contacts projection from user.events and account.events; the third *)
(* mails the parties of transfer.events, with retries, a dead letter topic *)
(* and one barrier row per event.                                          *)
(*                                                                         *)
(* A step is one statement or one mail, because the process can die and    *)
(* Postgres or the mail server can go away between any two.  A reader's    *)
(* position only advances while the process lives; a restart resumes at    *)
(* the committed offset.  An event is its offset in its topic.             *)
(***************************************************************************)
EXTENDS Integers, Sequences, FiniteSets

CONSTANTS
    Users,        \* a user has one account
    Linked,       \* users the projection already knows at the start
    Transfers,    \* messages that may appear on transfer.events
    Published,    \* messages on transfer.events before the first start
    MaxAttempts,  \* transferMaxAttempts
    Budget,       \* transferUnavailableBudget, in transferUnavailableRetryDelays
    MaxLog,       \* bound: messages of a topic
    MaxFaults,    \* bound: crashes, outages, refused mails, lost commits
    None

Projections == {"user", "account"}
Topics == Projections \cup {"transfer"}

VARIABLES
    log,         \* the topics
    committed,   \* committed offset of the group, -1 before the first commit
    pos,         \* how far each reader has fetched
    hold,        \* what each projection consumer does with its message
    task,        \* what the transfer consumer does with its message
    contacts,    \* user_contacts
    barrier,     \* notifications_processed_events
    dlq,         \* the dead letter topic, with what led there
    proc,        \* the process
    up,          \* which of Postgres and the mail server answer
    faults,      \* bound
    base,        \* history: transfer events LastOffset jumped over
    mails,       \* history: mails per event and party
    redone,      \* history: attempts at an event that ended in an error or a crash
    lapsed       \* history: projection events whose handler gave up

kafka == <<log, committed, pos>>
consumers == <<hold, task>>
history == <<base, mails, redone, lapsed>>
vars == <<kafka, consumers, contacts, barrier, dlq, proc, up, faults, history>>

Offsets == 1 .. MaxLog["transfer"]

NoTask == [at |-> "fetch", k |-> 1, found |-> {}, sent |-> 0, attempt |-> 1,
           err |-> None, budget |-> Budget, own |-> 0]

Init ==
    /\ log = [t \in Topics |-> IF t = "transfer" THEN Published ELSE <<>>]
    /\ \E c \in {-1, Len(Published)} :     \* the first start, or a later one
         committed = [t \in Topics |-> IF t = "transfer" THEN c ELSE -1]
    /\ pos = [t \in Topics |-> Len(log[t])]
    /\ hold = [t \in Projections |-> "fetch"]
    /\ task = NoTask
    /\ contacts = [u \in Users |-> [email |-> u \in Linked, account |-> u \in Linked,
                                    name |-> 0]]
    /\ barrier = [t \in Topics |-> [i \in 1 .. MaxLog[t] |-> None]]
    /\ dlq = {}
    /\ proc = "up"
    /\ up = {"postgres", "smtp"}
    /\ faults = 0
    /\ base = Len(Published)
    /\ mails = [i \in Offsets |-> [u \in Users |-> 0]]
    /\ redone = [i \in Offsets |-> 0]
    /\ lapsed = {}

Fault == faults < MaxFaults /\ faults' = faults + 1

-----------------------------------------------------------------------------
(***************************************************************************)
(* What the other services publish.                                        *)
(***************************************************************************)
Activated(u) == \E i \in DOMAIN log["user"] :
    log["user"][i] = [type |-> "UserActivated", user |-> u]

\* Users activated before the log starts send no further profile updates.
UserEvents ==
    {[type |-> "UserActivated", user |-> u] : u \in {v \in Users \ Linked : ~Activated(v)}}
    \cup {[type |-> "ProfileUpdated", user |-> u] :
            u \in {v \in Users : Activated(v)}}

\* accounts-svc creates an account once it has consumed the activation.
AccountEvents ==
    {u \in Users : Activated(u) /\ \A i \in DOMAIN log["account"] : log["account"][i] # u}

PublishEvent(t) ==
    /\ Len(log[t]) < MaxLog[t]
    /\ \E m \in CASE t = "user" -> UserEvents
                  [] t = "account" -> AccountEvents
                  [] t = "transfer" -> Transfers :
         log' = [log EXCEPT ![t] = Append(@, m)]
    /\ UNCHANGED <<committed, pos, consumers, contacts, barrier, dlq, proc, up, faults,
                   history>>

-----------------------------------------------------------------------------
(***************************************************************************)
(* Readers.                                                                *)
(***************************************************************************)

\* Faulty: every reader starts at FirstOffset.
startOffsetFirst(t) == 0

\* Without a committed offset a projection reader starts at FirstOffset and a
\* notification reader at LastOffset.
startOffset(t) == IF t \in Projections THEN 0 ELSE Len(log[t])

newKafkaReader(t) == IF committed[t] = -1 THEN startOffset(t) ELSE committed[t]

\* FetchMessage returns the next message; a cancelled fetch context returns
\* nothing, so a draining process starts no new work.
Fetchable(t) == proc = "up" /\ pos[t] < Len(log[t])

\* commitMessage: a failure is logged and forgotten.
commitMessage(t) ==
    \/ committed' = [committed EXCEPT ![t] = pos[t]] /\ UNCHANGED faults
    \/ Fault /\ UNCHANGED committed

-----------------------------------------------------------------------------
(***************************************************************************)
(* The projection consumers: check the barrier, apply, mark, commit.       *)
(***************************************************************************)
Current(t) == log[t][pos[t]]

runProjectionConsumer(t) ==
    /\ hold[t] = "fetch"
    /\ Fetchable(t)
    /\ pos' = [pos EXCEPT ![t] = @ + 1]
    /\ hold' = [hold EXCEPT ![t] = "check"]
    /\ UNCHANGED <<log, committed, task, contacts, barrier, dlq, proc, up, faults, history>>

\* Faulty: the event is marked when it is checked, not after it was applied.
isEventProcessedMarks(t) ==
    /\ hold[t] = "check"
    /\ "postgres" \in up
    /\ hold' = [hold EXCEPT ![t] = IF barrier[t][pos[t]] = None THEN "apply" ELSE "commit"]
    /\ barrier' = [barrier EXCEPT ![t][pos[t]] = "skipped"]
    /\ UNCHANGED <<kafka, task, contacts, dlq, proc, up, faults, history>>

isEventProcessed(t) ==
    /\ hold[t] = "check"
    /\ "postgres" \in up
    /\ hold' = [hold EXCEPT ![t] = IF barrier[t][pos[t]] = None THEN "apply" ELSE "commit"]
    /\ UNCHANGED <<kafka, task, contacts, barrier, dlq, proc, up, faults, history>>

upsertUserContactEmail(u) == [contacts EXCEPT ![u].email = TRUE]

\* No row, no update, no error.
updateUserContactDisplayName(u, i) ==
    [contacts EXCEPT ![u].name = IF contacts[u].email THEN i ELSE @]

updateUserContactAccountLink(u) == [contacts EXCEPT ![u].account = TRUE]

handleUserActivated ==
    /\ Current("user").type = "UserActivated"
    /\ contacts' = upsertUserContactEmail(Current("user").user)

handleProfileUpdated ==
    /\ Current("user").type = "ProfileUpdated"
    /\ contacts' = updateUserContactDisplayName(Current("user").user, pos["user"])

\* Waits, within a bound, for the row that the other consumer makes.
handleAccountCreated ==
    /\ contacts[Current("account")].email
    /\ contacts' = updateUserContactAccountLink(Current("account"))

Apply(t) ==
    /\ hold[t] = "apply"
    /\ "postgres" \in up
    /\ IF t = "user" THEN handleUserActivated \/ handleProfileUpdated
                     ELSE handleAccountCreated
    /\ hold' = [hold EXCEPT ![t] = "mark"]
    /\ UNCHANGED <<kafka, task, barrier, dlq, proc, up, faults, history>>

markEventProcessed(t) ==
    /\ hold[t] = "mark"
    /\ "postgres" \in up
    /\ barrier' = [barrier EXCEPT ![t][pos[t]] = "skipped"]
    /\ hold' = [hold EXCEPT ![t] = "commit"]
    /\ UNCHANGED <<kafka, task, contacts, dlq, proc, up, faults, history>>

\* An error, or a contact that does not come: the loop goes on without a
\* commit, and the next commit of the topic covers this message too.
GiveUp(t) ==
    /\ \/ hold[t] \in {"check", "apply", "mark"} /\ "postgres" \notin up
       \/ t = "account" /\ hold[t] = "apply" /\ ~contacts[Current(t)].email
    /\ hold' = [hold EXCEPT ![t] = "fetch"]
    /\ lapsed' = lapsed \cup {<<t, pos[t]>>}
    /\ UNCHANGED <<kafka, task, contacts, barrier, dlq, proc, up, faults, base, mails, redone>>

CommitProjection(t) ==
    /\ hold[t] = "commit"
    /\ commitMessage(t)
    /\ hold' = [hold EXCEPT ![t] = "fetch"]
    /\ UNCHANGED <<log, pos, task, contacts, barrier, dlq, proc, up, history>>

-----------------------------------------------------------------------------
(***************************************************************************)
(* The transfer consumer.  Each handler claims the event, looks up the     *)
(* accounts it names, mails those it found, in order, and closes the row.  *)
(***************************************************************************)
handleTransferCompleted(m) == <<m.from, m.to>>
handleTransferFailed(m) == <<m.from>>
handleTransferRejected(m) == <<m.from>>
handleDepositCredited(m) == <<m.from>>

Known == {"TransferCompleted", "TransferFailed", "TransferRejected", "DepositCredited"}

\* Whom the handler of the message's event_type mails.
processTransferMessage(m) ==
    CASE m.type = "TransferCompleted" -> handleTransferCompleted(m)
      [] m.type = "TransferFailed"    -> handleTransferFailed(m)
      [] m.type = "TransferRejected"  -> handleTransferRejected(m)
      [] m.type = "DepositCredited"   -> handleDepositCredited(m)

\* Events name accounts of the bank; transfers-svc refuses a transfer from an
\* account to itself.
ASSUME NotificationsAssumption ==
    /\ Linked \subseteq Users
    /\ MaxLog \in [Topics -> Nat]
    /\ Published \in Seq({Published[i] : i \in DOMAIN Published})
    /\ Len(Published) <= MaxLog["transfer"]
    /\ \A m \in Transfers \cup {Published[i] : i \in DOMAIN Published} :
         m.type \in Known /\ ~m.corrupt =>
            /\ m.from \in Users
            /\ m.type = "TransferCompleted" => m.to \in Users \ {m.from}
    /\ MaxAttempts \in Nat /\ Budget \in Nat
    /\ None \notin {"processing", "sent", "skipped", "connect", "malformed", "refused"}

Msg == Current("transfer")
Id == pos["transfer"]
Party == processTransferMessage(Msg)[task.k]

runTransferEventsConsumer ==
    /\ task.at = "fetch"
    /\ Fetchable("transfer")
    /\ pos' = [pos EXCEPT !["transfer"] = @ + 1]
    /\ task' = [NoTask EXCEPT !.at = "process"]
    /\ UNCHANGED <<log, committed, hold, contacts, barrier, dlq, proc, up, faults, history>>

\* The attempt ends in an error.  own counts the failures that had another
\* cause than a server out of reach.
Failed(e) ==
    /\ task' = [task EXCEPT !.at = "judge", !.err = e,
                            !.own = @ + (IF e = "connect" THEN 0 ELSE 1)]
    /\ redone' = [redone EXCEPT ![Id] = @ + 1]

\* No header, an unknown type, an undecodable payload: no event id either.
RejectMessage ==
    /\ task.at = "process"
    /\ Msg.type \notin Known
    /\ Failed("malformed")
    /\ UNCHANGED <<kafka, hold, contacts, barrier, dlq, proc, up, faults, base, mails, lapsed>>

\* Postgres cannot be reached by the statement the attempt is at.
DatabaseError ==
    /\ \/ task.at \in {"find", "finish"}
       \/ task.at = "process" /\ Msg.type \in Known
    /\ "postgres" \notin up
    /\ Failed("connect")
    /\ UNCHANGED <<kafka, hold, contacts, barrier, dlq, proc, up, faults, base, mails, lapsed>>

\* Faulty: a closed event is claimed again.
claimEventAlways(s) == TRUE

\* A row left at 'processing' is claimed again; 'sent' and 'skipped' are final.
claimEvent(s) == s \in {None, "processing"}

Claim ==
    /\ task.at = "process"
    /\ Msg.type \in Known
    /\ "postgres" \in up
    /\ barrier' = [barrier EXCEPT !["transfer"][Id] = IF @ = None THEN "processing" ELSE @]
    /\ task' = [task EXCEPT !.at = IF claimEvent(barrier["transfer"][Id])
                                     THEN "find" ELSE "commit"]
    /\ UNCHANGED <<kafka, hold, contacts, dlq, proc, up, faults, history>>

\* waitForContactByAccountID: found, or not found within the wait, which is no
\* error; a malformed account id is one.
getContactByAccountID(u) == contacts[u].account

waitForContactByAccountID ==
    /\ task.at = "find"
    /\ "postgres" \in up
    /\ \/ /\ Msg.corrupt
          /\ Failed("malformed")
       \/ /\ ~Msg.corrupt
          /\ LET last == task.k = Len(processTransferMessage(Msg)) IN
             task' = [task EXCEPT
                        !.at = IF last THEN "mail" ELSE "find",
                        !.k = IF last THEN 1 ELSE @ + 1,
                        !.found = IF getContactByAccountID(Party) THEN @ \cup {task.k}
                                                                 ELSE @]
          /\ UNCHANGED redone
    /\ UNCHANGED <<kafka, hold, contacts, barrier, dlq, proc, up, faults, base, mails, lapsed>>

\* sendEmailWithRetry: delivered, no server, or refused for good.
sendEmailWithRetry ==
    /\ task.at = "mail"
    /\ LET last == task.k = Len(processTransferMessage(Msg))
           onward == [task EXCEPT !.at = IF last THEN "finish" ELSE "mail",
                                  !.k = IF last THEN 1 ELSE @ + 1]
       IN \/ /\ task.k \notin task.found
             /\ task' = onward
             /\ UNCHANGED <<mails, redone, faults>>
          \/ /\ task.k \in task.found /\ "smtp" \in up
             /\ mails' = [mails EXCEPT ![Id][Party] = @ + 1]
             /\ task' = [onward EXCEPT !.sent = @ + 1]
             /\ UNCHANGED <<redone, faults>>
          \/ /\ task.k \in task.found /\ "smtp" \notin up
             /\ Failed("connect")
             /\ UNCHANGED <<mails, faults>>
          \/ /\ task.k \in task.found /\ "smtp" \in up
             /\ Fault
             /\ Failed("refused")
             /\ UNCHANGED mails
    /\ UNCHANGED <<kafka, hold, contacts, barrier, dlq, proc, up, base, lapsed>>

finishTransferEvent ==
    /\ task.at = "finish"
    /\ "postgres" \in up
    /\ barrier' = [barrier EXCEPT !["transfer"][Id] =
                     IF task.sent = 0 THEN "skipped" ELSE "sent"]
    /\ task' = [task EXCEPT !.at = "commit"]
    /\ UNCHANGED <<kafka, hold, contacts, dlq, proc, up, faults, history>>

\* Faulty: no error counts as an outage.
IsUnavailableNever(e) == FALSE

\* Connection errors of any kind count, so a mail server that cannot be
\* reached does too: net/smtp's dial error is a net.Error.
IsUnavailable(e) == e = "connect"

Retry(spent, waited) ==
    [NoTask EXCEPT !.at = "process", !.attempt = task.attempt + spent,
                   !.budget = task.budget - waited, !.own = task.own]

\* Faulty: a failed message is left uncommitted and the loop goes on.
handleTransferMessageWithRetryNot ==
    /\ task.at = "judge"
    /\ task' = NoTask
    /\ UNCHANGED <<kafka, hold, contacts, barrier, dlq, proc, up, faults, history>>

\* After a failed attempt: an outage is waited out without spending an
\* attempt, any other error spends one, and both end in the dead letter topic.
handleTransferMessageWithRetry ==
    /\ task.at = "judge"
    /\ \/ /\ IsUnavailable(task.err) /\ task.budget > 0
          /\ task' = Retry(0, 1)
       \/ /\ IsUnavailable(task.err) /\ task.budget = 0
          /\ task' = [task EXCEPT !.at = "dlq"]
       \/ /\ ~IsUnavailable(task.err)
          /\ task' = IF task.attempt < MaxAttempts THEN Retry(1, 0)
                                                   ELSE [task EXCEPT !.at = "dlq"]
    /\ UNCHANGED <<kafka, hold, contacts, barrier, dlq, proc, up, faults, history>>

\* transferUnavailableBudget is a deadline: it may run out with retries left.
BudgetExpires ==
    /\ task.at = "judge" /\ task.budget > 0
    /\ task' = [task EXCEPT !.budget = 0]
    /\ UNCHANGED <<kafka, hold, contacts, barrier, dlq, proc, up, faults, history>>

Outlasted == task.budget = 0 /\ task.err = "connect"

\* A failed publication is only logged.
sendToDLQ ==
    /\ task.at = "dlq"
    /\ \/ dlq' = dlq \cup {[id |-> Id, own |-> task.own, outlasted |-> Outlasted,
                            stored |-> TRUE]}
          /\ UNCHANGED faults
       \/ dlq' = dlq \cup {[id |-> Id, own |-> task.own, outlasted |-> Outlasted,
                            stored |-> FALSE]}
          /\ Fault
    /\ task' = [task EXCEPT !.at = "close"]
    /\ UNCHANGED <<kafka, hold, contacts, barrier, proc, up, history>>

\* finishEvent after the dead letter: an UPDATE, so a row nobody claimed stays
\* absent, and its failure is only logged.
finishEvent ==
    /\ task.at = "close"
    /\ barrier' = [barrier EXCEPT !["transfer"][Id] =
                     IF Msg.type \in Known /\ "postgres" \in up /\ @ # None
                       THEN "skipped" ELSE @]
    /\ task' = [task EXCEPT !.at = "commit"]
    /\ UNCHANGED <<kafka, hold, contacts, dlq, proc, up, faults, history>>

CommitTransfer ==
    /\ task.at = "commit"
    /\ commitMessage("transfer")
    /\ task' = NoTask
    /\ UNCHANGED <<log, pos, hold, contacts, barrier, dlq, proc, up, history>>

-----------------------------------------------------------------------------
(***************************************************************************)
(* The process and what it depends on.                                     *)
(***************************************************************************)

\* SIGTERM: the messages in hand are finished, then the process ends.
Drain ==
    /\ proc = "up"
    /\ Fault
    /\ proc' = "draining"
    /\ UNCHANGED <<kafka, consumers, contacts, barrier, dlq, up, history>>

Exit ==
    /\ proc = "draining"
    /\ task.at = "fetch" /\ \A t \in Projections : hold[t] = "fetch"
    /\ proc' = "down"
    /\ UNCHANGED <<kafka, consumers, contacts, barrier, dlq, up, faults, history>>

Crash ==
    /\ proc # "down"
    /\ Fault
    /\ proc' = "down"
    /\ hold' = [t \in Projections |-> "fetch"]
    /\ task' = NoTask
    /\ redone' = IF task.at \in {"fetch", "commit"} THEN redone ELSE [redone EXCEPT ![Id] = @ + 1]
    /\ UNCHANGED <<kafka, contacts, barrier, dlq, up, base, mails, lapsed>>

Start ==
    /\ proc = "down"
    /\ proc' = "up"
    /\ pos' = [t \in Topics |-> newKafkaReader(t)]
    /\ base' = IF committed["transfer"] = -1 THEN Len(log["transfer"]) ELSE base
    /\ UNCHANGED <<log, committed, consumers, contacts, barrier, dlq, up, faults,
                   mails, redone, lapsed>>

Outage(s) ==
    /\ s \in up
    /\ Fault
    /\ up' = up \ {s}
    /\ UNCHANGED <<kafka, consumers, contacts, barrier, dlq, proc, history>>

Recover(s) ==
    /\ s \notin up
    /\ up' = up \cup {s}
    /\ UNCHANGED <<kafka, consumers, contacts, barrier, dlq, proc, faults, history>>

-----------------------------------------------------------------------------
Project(t) ==
    \/ runProjectionConsumer(t)
    \/ isEventProcessed(t)
    \/ Apply(t)
    \/ markEventProcessed(t)
    \/ GiveUp(t)
    \/ CommitProjection(t)

Notify ==
    \/ runTransferEventsConsumer
    \/ RejectMessage
    \/ DatabaseError
    \/ Claim
    \/ waitForContactByAccountID
    \/ sendEmailWithRetry
    \/ finishTransferEvent
    \/ handleTransferMessageWithRetry
    \/ sendToDLQ
    \/ finishEvent
    \/ CommitTransfer

Next ==
    \/ \E t \in Topics : PublishEvent(t)
    \/ \E t \in Projections : Project(t)
    \/ Notify
    \/ BudgetExpires
    \/ Drain \/ Exit \/ Crash \/ Start
    \/ \E s \in {"postgres", "smtp"} : Outage(s) \/ Recover(s)

Spec == Init /\ [][Next]_vars

\* A goroutine that can run does, and a process that ended is started again.
\* Nothing says that an outage ends.
FairSpec ==
    /\ Spec
    /\ \A t \in Projections : WF_vars(Project(t))
    /\ WF_vars(Notify)
    /\ WF_vars(Exit) /\ WF_vars(Start)

-----------------------------------------------------------------------------
(***************************************************************************)
(* Properties.                                                             *)
(***************************************************************************)
Outcome == [i \in Offsets |->
    IF barrier["transfer"][i] \in {"sent", "skipped"} THEN barrier["transfer"][i]
    ELSE IF i <= base \/ i <= committed["transfer"] THEN "passed"
    ELSE "open"]

Promise == INSTANCE AtLeastOnce WITH
    Parties <- Users,
    MaxEvents <- MaxLog["transfer"],
    published <- Len(log["transfer"]),
    mailed <- [i \in Offsets |-> {u \in Users : mails[i][u] > 0}],
    outcome <- Outcome

\* The consumer implements AtLeastOnce: no mail about an event that was closed
\* or left behind, whatever crashes, redeliveries and retries happen, and no
\* event recorded as sent without a mail.
ImplementsAtLeastOnce == Promise!AbstractSpec

\* finishEvent "moves a claimed row from 'processing' to its terminal status"
\* (contacts.go): the row of an event whose mails went out stays 'sent'.
SentIsFinal ==
    [][\A i \in Offsets :
         barrier["transfer"][i] = "sent" => barrier'["transfer"][i] = "sent"]_vars

\* A party is mailed twice about one event only after an attempt at it failed
\* or died on the way; a redelivery or a clean shutdown alone repeats nothing.
DuplicatesNeedFaults ==
    \A i \in Offsets, u \in Users : mails[i][u] <= 1 + redone[i]

\* A dead letter failed as often as the code allows for its own reasons, or
\* the outage outlasted its budget: a failover does not turn good messages
\* into poison.
DeadLettersAreEarned ==
    \A d \in dlq : d.own >= MaxAttempts \/ d.outlasted

Busy(t) == hold[t] # "fetch"

\* The projection follows its topic through crashes and redeliveries: of the
\* events fetched and done with, activations have a contact and the newest
\* profile event gives the name, unless a handler gave up on one.
ContactsFollowEvents ==
    proc = "up" /\ ~Busy("user") /\ pos["user"] = Len(log["user"])
        /\ (\A i \in DOMAIN log["user"] : <<"user", i>> \notin lapsed)
    => \A u \in Users :
         LET mine(type) == {i \in DOMAIN log["user"] :
                              log["user"][i] = [type |-> type, user |-> u]}
         IN /\ mine("UserActivated") # {} => contacts[u].email
            /\ \A i \in mine("ProfileUpdated") : contacts[u].name >= i

Settled(i) ==
    Outcome[i] # "open" \/ \E d \in dlq : d.id = i

\* Every transfer event is settled in the end: its row is closed, it is in the
\* dead letter topic, or the group moved past it.
EventuallySettled ==
    \A i \in Offsets : Len(log["transfer"]) >= i ~> Settled(i)
=============================================================================

------------------------ MODULE NotificationsProofs ------------------------
(***************************************************************************)
(* Proofs about Notifications for any users, messages, budgets and faults: *)
(* the transfer consumer implements AtLeastOnce, repeats a mail only after *)
(* a failure and dead-letters only what earned it, and the contacts follow *)
(* their topic.                                                            *)
(***************************************************************************)
EXTENDS Notifications, TLAPS

Wire == Transfers \cup {Published[i] : i \in DOMAIN Published}

Profile == [type : {"UserActivated", "ProfileUpdated"}, user : Users]

Messages == Wire \cup Profile \cup Users

Marks == {None, "processing", "sent", "skipped"}

Stages == {"fetch", "process", "find", "mail", "finish", "judge", "dlq", "close", "commit"}

Task == [at : Stages, k : Nat, found : SUBSET Nat, sent : Nat, attempt : Nat,
         err : {None, "connect", "malformed", "refused"}, budget : Nat, own : Nat]

Contact == [email : BOOLEAN, account : BOOLEAN, name : Nat]

Rows ==
    /\ barrier = [t \in Topics |-> barrier[t]]
    /\ \A t \in Topics : barrier[t] \in [1 .. MaxLog[t] -> Marks]

Types ==
    /\ log \in [Topics -> Seq(Messages)]
    /\ committed \in [Topics -> Nat \cup {-1}]
    /\ pos \in [Topics -> Nat]
    /\ hold \in [Projections -> {"fetch", "check", "apply", "mark", "commit"}]
    /\ task \in Task
    /\ contacts \in [Users -> Contact]
    /\ Rows
    /\ proc \in {"up", "draining", "down"}
    /\ base \in Nat
    /\ mails \in [Offsets -> [Users -> Nat]]
    /\ redone \in [Offsets -> Nat]

\* A topic holds what was published to it.
Logged ==
    /\ \A t \in Topics : Len(log[t]) <= MaxLog[t]
    /\ \A i \in 1 .. Len(log["transfer"]) : log["transfer"][i] \in Wire

\* A reader is between the committed offset and the end of its topic, and a
\* consumer that has a message in hand has it past both.
Placed ==
    /\ \A t \in Topics : pos[t] <= Len(log[t]) /\ committed[t] <= pos[t]
    /\ \A t \in Projections : hold[t] # "fetch" => pos[t] >= 1
    /\ base <= pos["transfer"]
    /\ committed["transfer"] = -1 \/ base <= committed["transfer"]
    /\ task.at # "fetch" => base < pos["transfer"] /\ committed["transfer"] < pos["transfer"]
    /\ proc = "down" => task.at = "fetch" /\ \A t \in Projections : hold[t] = "fetch"

\* How far the attempt at the current event got.
Working ==
    /\ task.at \in {"find", "mail", "finish"} =>
          Msg.type \in Known /\ barrier["transfer"][Id] = "processing"
    /\ task.at = "process" => task.k = 1
    /\ task.at \in {"find", "mail"} => task.k \in 1 .. Len(processTransferMessage(Msg))
    /\ task.at \in {"mail", "finish"} => ~Msg.corrupt
    /\ task.at # "fetch" /\ task.sent > 0 => \E u \in Users : mails[Id][u] > 0

Base == Types /\ Logged /\ Placed /\ Working

\* The attempts counted are the failures that had a cause of their own.
Counted ==
    /\ task.at \in {"process", "find", "mail", "finish"} => task.attempt = task.own + 1
    /\ task.at = "judge" => IF task.err = "connect" THEN task.attempt = task.own + 1
                                                    ELSE task.attempt = task.own
    /\ task.at = "dlq" => task.own >= MaxAttempts \/ Outlasted

\* Until an event is closed, every mail about it belongs to a failed attempt or
\* to the one that is running.
Closed(i) == barrier["transfer"][i] \in {"sent", "skipped"}

Mailing(i) == task.at \in {"mail", "finish"} /\ i = Id

Repeated ==
    /\ \A i \in Offsets, u \in Users : ~Closed(i) /\ ~Mailing(i) => mails[i][u] <= redone[i]
    /\ task.at = "mail" =>
         \A u \in Users : (\A j \in 1 .. task.k - 1 : processTransferMessage(Msg)[j] # u)
                            => mails[Id][u] <= redone[Id]

\* The projection.
Marked(i) == barrier["user"][i] # None

NoLapse == \A i \in DOMAIN log["user"] : <<"user", i>> \notin lapsed

Done(i) ==
    \A u \in Users :
        /\ log["user"][i] = [type |-> "UserActivated", user |-> u] => contacts[u].email
        /\ log["user"][i] = [type |-> "ProfileUpdated", user |-> u] => contacts[u].name >= i

Followed ==
    /\ \A i \in 1 .. Len(log["user"]), u \in Users :
         log["user"][i] = [type |-> "ProfileUpdated", user |-> u] =>
            \E j \in 1 .. i - 1 : log["user"][j] = [type |-> "UserActivated", user |-> u]
    /\ \A i \in 1 .. MaxLog["user"] : Marked(i) => i <= Len(log["user"])
    /\ hold["user"] \in {"apply", "mark"} => ~Marked(pos["user"])
    /\ hold["user"] = "commit" => Marked(pos["user"])
    /\ NoLapse =>
         /\ hold["user"] = "mark" => Done(pos["user"])
         /\ \A i \in 1 .. Len(log["user"]) : i <= committed["user"] => Marked(i)
         /\ proc # "down" => \A i \in 1 .. Len(log["user"]) :
              i < pos["user"] \/ (i = pos["user"] /\ hold["user"] = "fetch") => Marked(i)
         /\ \A i, j \in 1 .. Len(log["user"]) : i < j /\ Marked(j) => Marked(i)
         /\ \A i \in 1 .. Len(log["user"]) : Marked(i) => Done(i)
-----------------------------------------------------------------------------
(***************************************************************************)
(* What a step does to a topic, a barrier row and a message.               *)
(***************************************************************************)

\* A published message is appended, and the earlier ones stay.
LEMMA Appended ==
    ASSUME log \in [Topics -> Seq(Messages)], NEW t \in Topics, NEW m \in Messages,
           log' = [log EXCEPT ![t] = Append(@, m)]
    PROVE  /\ log' \in [Topics -> Seq(Messages)]
           /\ Len(log'[t]) = Len(log[t]) + 1
           /\ \A i \in 1 .. Len(log[t]) : log'[t][i] = log[t][i]
           /\ log'[t][Len(log[t]) + 1] = m
           /\ \A s \in Topics \ {t} : log'[s] = log[s]
<1>1. log[t] \in Seq(Messages) /\ log'[t] = Append(log[t], m)
  OBVIOUS
<1>2. Append(log[t], m) \in Seq(Messages)
  BY <1>1
<1> QED BY <1>1, <1>2

\* One row of one topic is written.
LEMMA RowWritten ==
    ASSUME Rows, NEW t \in Topics, NEW i \in 1 .. MaxLog[t], NEW m \in Marks,
           barrier' = [barrier EXCEPT ![t][i] = m]
    PROVE  /\ Rows'
           /\ barrier'[t][i] = m
           /\ \A j \in 1 .. MaxLog[t] : j # i => barrier'[t][j] = barrier[t][j]
           /\ \A s \in Topics : s # t => barrier'[s] = barrier[s]
<1>1. barrier' = [barrier EXCEPT ![t] = [barrier[t] EXCEPT ![i] = m]]
  OBVIOUS
<1>2. /\ barrier'[t] = [barrier[t] EXCEPT ![i] = m]
      /\ \A s \in Topics : s # t => barrier'[s] = barrier[s]
      /\ barrier' = [s \in Topics |-> barrier'[s]]
  BY <1>1 DEF Rows
<1>3. barrier'[t] \in [1 .. MaxLog[t] -> Marks]
  BY <1>2 DEF Rows
<1> QED BY <1>2, <1>3 DEF Rows

\* The same of the transfer topic.
LEMMA TransferRow ==
    ASSUME Rows, NEW i \in 1 .. MaxLog["transfer"], NEW m \in Marks,
           barrier' = [barrier EXCEPT !["transfer"][i] = m]
    PROVE  /\ Rows'
           /\ barrier'["transfer"][i] = m
           /\ \A j \in 1 .. MaxLog["transfer"] : j # i => barrier'["transfer"][j] = barrier["transfer"][j]
           /\ \A s \in Topics : s # "transfer" => barrier'[s] = barrier[s]
<1>1. /\ barrier' = [barrier EXCEPT !["transfer"] = [barrier["transfer"] EXCEPT ![i] = m]]
      /\ "transfer" \in Topics
  BY DEF Topics
<1>2. /\ barrier'["transfer"] = [barrier["transfer"] EXCEPT ![i] = m]
      /\ \A s \in Topics : s # "transfer" => barrier'[s] = barrier[s]
      /\ barrier' = [s \in Topics |-> barrier'[s]]
  BY <1>1 DEF Rows
<1>3. barrier'["transfer"] \in [1 .. MaxLog["transfer"] -> Marks]
  BY <1>1, <1>2 DEF Rows
<1> QED BY <1>1, <1>2, <1>3 DEF Rows

\* Whom a sound message is about.
LEMMA PartyFacts ==
    ASSUME NEW m \in Wire, m.type \in Known
    PROVE  /\ Len(processTransferMessage(m)) \in Nat \ {0}
           /\ ~m.corrupt =>
                \A k \in 1 .. Len(processTransferMessage(m)) :
                   /\ processTransferMessage(m)[k] \in Users
                   /\ \A j \in 1 .. k - 1 :
                        processTransferMessage(m)[j] # processTransferMessage(m)[k]
<1>1. CASE m.type = "TransferCompleted"
  <2>1. processTransferMessage(m) = <<m.from, m.to>>
    BY <1>1 DEF processTransferMessage, handleTransferCompleted
  <2>2. ~m.corrupt => m.from \in Users /\ m.to \in Users /\ m.to # m.from
    BY <1>1, NotificationsAssumption DEF Wire, Known
  <2> QED BY <2>1, <2>2
<1>2. CASE m.type # "TransferCompleted"
  <2>1. processTransferMessage(m) = <<m.from>>
    BY <1>2 DEF processTransferMessage, Known, handleTransferFailed, handleTransferRejected,
                handleDepositCredited
  <2>2. ~m.corrupt => m.from \in Users
    BY NotificationsAssumption DEF Wire, Known
  <2> QED BY <2>1, <2>2
<1> QED BY <1>1, <1>2

\* The transfer consumer's message.
LEMMA InHand ==
    ASSUME Base, task.at # "fetch"
    PROVE  /\ Id \in 1 .. Len(log["transfer"]) /\ Id \in Offsets /\ Msg \in Wire
           /\ Len(log["transfer"]) \in Nat
           /\ Len(log["transfer"]) <= MaxLog["transfer"] /\ MaxLog["transfer"] \in Nat
<1>1. /\ "transfer" \in Topics /\ base \in Nat /\ pos["transfer"] \in Nat
      /\ MaxLog["transfer"] \in Nat /\ log["transfer"] \in Seq(Messages)
  BY NotificationsAssumption DEF Base, Types, Topics
<1>2. /\ base < pos["transfer"] /\ pos["transfer"] <= Len(log["transfer"])
      /\ Len(log["transfer"]) <= MaxLog["transfer"]
  BY <1>1 DEF Base, Placed, Logged
<1>3. Id \in 1 .. Len(log["transfer"])
  BY <1>1, <1>2 DEF Id
<1>4. Id \in Offsets
  BY <1>1, <1>2, <1>3 DEF Offsets
<1>5. Msg \in Wire
  BY <1>3 DEF Base, Logged, Msg, Current, Id
<1> QED BY <1>1, <1>2, <1>3, <1>4, <1>5

\* What does not touch the transfer consumer leaves its attempt where it was.
LEMMA WorkingKept ==
    ASSUME Base, UNCHANGED task, pos'["transfer"] = pos["transfer"],
           \A i \in 1 .. Len(log["transfer"]) : log'["transfer"][i] = log["transfer"][i],
           barrier'["transfer"] = barrier["transfer"], UNCHANGED mails
    PROVE  Working'
<1>1. CASE task.at = "fetch"
  BY <1>1 DEF Working
<1>2. CASE task.at # "fetch"
  <2>1. Id \in 1 .. Len(log["transfer"]) /\ Id' = Id
    BY <1>2, InHand DEF Id
  <2>2. Msg' = Msg
    BY <2>1 DEF Msg, Current, Id
  <2> QED BY <2>1, <2>2 DEF Base, Working
<1> QED BY <1>1, <1>2

-----------------------------------------------------------------------------
(***************************************************************************)
(* Base: the types, and how offsets, rows and attempts fit together.       *)
(***************************************************************************)

\* Other services publish.
LEMMA PublishBase ==
    ASSUME Base, NEW t \in Topics, PublishEvent(t)
    PROVE  Base'
<1>1. PICK m \in CASE t = "user" -> UserEvents
                   [] t = "account" -> AccountEvents
                   [] t = "transfer" -> Transfers :
             log' = [log EXCEPT ![t] = Append(@, m)]
  BY DEF PublishEvent
<1>2. /\ Len(log[t]) < MaxLog[t]
      /\ UNCHANGED <<committed, pos, hold, task, contacts, barrier, proc, base, mails, redone>>
  BY DEF PublishEvent, consumers, history
<1>3. m \in Messages /\ (t = "transfer" => m \in Wire)
  <2>1. CASE t = "user"
    <3>1. m \in UserEvents
      BY <1>1, <2>1
    <3>2. m \in Profile
      BY <3>1 DEF UserEvents, Profile
    <3> QED BY <2>1, <3>2 DEF Messages
  <2>2. CASE t = "account"
    BY <1>1, <2>2 DEF AccountEvents, Messages
  <2>3. CASE t = "transfer"
    BY <1>1, <2>3 DEF Messages, Wire
  <2> QED BY <2>1, <2>2, <2>3 DEF Topics, Projections
<1>4. log \in [Topics -> Seq(Messages)]
  BY DEF Base, Types
<1>5. /\ log' \in [Topics -> Seq(Messages)]
      /\ Len(log'[t]) = Len(log[t]) + 1
      /\ \A i \in 1 .. Len(log[t]) : log'[t][i] = log[t][i]
      /\ log'[t][Len(log[t]) + 1] = m
      /\ \A s \in Topics \ {t} : log'[s] = log[s]
  BY <1>1, <1>3, <1>4, Appended
<1>6. \A s \in Topics : /\ Len(log[s]) \in Nat /\ MaxLog[s] \in Nat /\ pos[s] \in Nat
  BY <1>4, NotificationsAssumption DEF Base, Types
<1>7. Types'
  BY <1>2, <1>5 DEF Base, Types, Rows
<1>8. Logged'
  <2>1. \A s \in Topics : Len(log'[s]) <= MaxLog[s]
    BY <1>2, <1>5, <1>6 DEF Base, Logged
  <2>2. ASSUME NEW i \in 1 .. Len(log'["transfer"]) PROVE log'["transfer"][i] \in Wire
    <3>1. CASE t = "transfer"
      <4>1. CASE i \in 1 .. Len(log["transfer"])
        BY <1>5, <3>1, <4>1 DEF Base, Logged
      <4>2. CASE i = Len(log["transfer"]) + 1
        BY <1>3, <1>5, <3>1, <4>2
      <4> QED BY <1>5, <1>6, <3>1, <4>1, <4>2
    <3>2. CASE t # "transfer"
      BY <1>5, <3>2 DEF Base, Logged, Topics
    <3> QED BY <3>1, <3>2
  <2> QED BY <2>1, <2>2 DEF Logged
<1>9. Placed'
  <2>1. \A s \in Topics : pos[s] <= Len(log'[s])
    BY <1>5, <1>6 DEF Base, Placed
  <2> QED BY <1>2, <2>1 DEF Base, Placed
<1>10. Working'
  <2>1. \A i \in 1 .. Len(log["transfer"]) : log'["transfer"][i] = log["transfer"][i]
    BY <1>5 DEF Topics
  <2> QED BY <1>2, <2>1, WorkingKept
<1> QED BY <1>7, <1>8, <1>9, <1>10 DEF Base

\* A projection consumer takes a step.
LEMMA ProjectBase ==
    ASSUME Base, NEW t \in Projections, Project(t)
    PROVE  /\ Base'
           /\ UNCHANGED <<log, task, proc, base, mails, redone, dlq>>
           /\ pos'["transfer"] = pos["transfer"] /\ committed'["transfer"] = committed["transfer"]
           /\ barrier'["transfer"] = barrier["transfer"]
<1>1. t \in Topics /\ t # "transfer" /\ "transfer" \in Topics
  BY DEF Topics, Projections
<1>2. /\ log[t] \in Seq(Messages) /\ pos[t] \in Nat /\ MaxLog[t] \in Nat /\ committed[t] \in Nat \cup {-1}
      /\ Len(log[t]) \in Nat /\ Len(log[t]) <= MaxLog[t] /\ pos[t] <= Len(log[t])
      /\ committed[t] <= pos[t]
  BY <1>1, NotificationsAssumption DEF Base, Types, Logged, Placed
<1>3. UNCHANGED <<log, task, proc, base, mails, redone, dlq>>
  BY DEF Project, runProjectionConsumer, isEventProcessed, Apply, markEventProcessed, GiveUp,
         CommitProjection, kafka, history
<1>4. SUFFICES /\ committed' \in [Topics -> Nat \cup {-1}] /\ pos' \in [Topics -> Nat]
               /\ hold' \in [Projections -> {"fetch", "check", "apply", "mark", "commit"}]
               /\ contacts' \in [Users -> Contact] /\ Rows'
               /\ \A s \in Topics \ {t} : /\ pos'[s] = pos[s] /\ committed'[s] = committed[s]
                                          /\ barrier'[s] = barrier[s]
               /\ \A s \in Projections \ {t} : hold'[s] = hold[s]
               /\ pos'[t] <= Len(log[t]) /\ committed'[t] <= pos'[t]
               /\ hold'[t] # "fetch" => pos'[t] >= 1
               /\ proc # "down"
  <2>1. "transfer" \in Topics \ {t} /\ pos'["transfer"] = pos["transfer"]
        /\ committed'["transfer"] = committed["transfer"]
        /\ barrier'["transfer"] = barrier["transfer"]
    BY <1>1, <1>4
  <2>2. Types'
    BY <1>3, <1>4 DEF Base, Types
  <2>3. Logged'
    BY <1>3 DEF Base, Logged
  <2>4. Placed'
    <3>1. \A s \in Topics : pos'[s] <= Len(log'[s]) /\ committed'[s] <= pos'[s]
      BY <1>3, <1>4 DEF Base, Placed
    <3>2. \A s \in Projections : hold'[s] # "fetch" => pos'[s] >= 1
      BY <1>3, <1>4 DEF Base, Placed, Topics
    <3>3. /\ base' <= pos'["transfer"]
          /\ committed'["transfer"] = -1 \/ base' <= committed'["transfer"]
          /\ task'.at # "fetch" => base' < pos'["transfer"] /\ committed'["transfer"] < pos'["transfer"]
      BY <1>3, <2>1 DEF Base, Placed
    <3>4. proc' # "down"
      BY <1>3, <1>4
    <3> QED BY <3>1, <3>2, <3>3, <3>4 DEF Placed
  <2>5. Working'
    BY <1>3, <2>1, WorkingKept
  <2> QED BY <1>3, <2>1, <2>2, <2>3, <2>4, <2>5 DEF Base
<1>5. hold[t] # "fetch" => pos[t] >= 1 /\ proc # "down"
  BY DEF Base, Placed
<1>6. Types /\ Rows
  BY DEF Base, Types
<1>7. CASE runProjectionConsumer(t)
  <2>1. /\ pos' = [pos EXCEPT ![t] = @ + 1] /\ hold' = [hold EXCEPT ![t] = "check"]
        /\ UNCHANGED <<committed, contacts, barrier>> /\ proc = "up" /\ pos[t] < Len(log[t])
    BY <1>7 DEF runProjectionConsumer, Fetchable
  <2>2. pos'[t] = pos[t] + 1 /\ pos' \in [Topics -> Nat]
    BY <1>1, <1>2, <1>6, <2>1 DEF Types
  <2>3. Rows'
    BY <1>6, <2>1 DEF Rows
  <2> QED BY <1>1, <1>2, <1>6, <2>1, <2>2, <2>3 DEF Types
<1>8. CASE isEventProcessed(t) \/ GiveUp(t)
  <2>1. /\ \E h \in {"fetch", "apply", "commit"} : hold' = [hold EXCEPT ![t] = h]
        /\ UNCHANGED <<committed, pos, contacts, barrier>> /\ hold[t] # "fetch"
    BY <1>8 DEF isEventProcessed, GiveUp, kafka
  <2>2. Rows'
    BY <1>6, <2>1 DEF Rows
  <2> QED BY <1>1, <1>2, <1>5, <1>6, <2>1, <2>2 DEF Types
<1>9. CASE Apply(t)
  <2>1. /\ hold' = [hold EXCEPT ![t] = "mark"]
        /\ UNCHANGED <<committed, pos, barrier>> /\ hold[t] # "fetch"
    BY <1>9 DEF Apply, kafka
  <2>2. Rows'
    BY <1>6, <2>1 DEF Rows
  <2>3. contacts' \in [Users -> Contact]
    <3>1. ASSUME NEW u, contacts' = [contacts EXCEPT ![u].email = TRUE]
          PROVE  contacts' \in [Users -> Contact]
      BY <1>6, <3>1 DEF Types, Contact
    <3>2. ASSUME NEW u, contacts' = [contacts EXCEPT ![u].account = TRUE]
          PROVE  contacts' \in [Users -> Contact]
      BY <1>6, <3>2 DEF Types, Contact
    <3>3. ASSUME NEW u, NEW n \in Nat,
                 contacts' = [contacts EXCEPT ![u].name = IF contacts[u].email THEN n ELSE @]
          PROVE  contacts' \in [Users -> Contact]
      BY <1>6, <3>3, ZenonT(40) DEF Types, Contact
    <3>4. pos["user"] \in Nat
      BY <1>6 DEF Types, Topics, Projections
    <3> QED BY <1>9, <3>1, <3>2, <3>3, <3>4
            DEF Apply, handleUserActivated, handleProfileUpdated, handleAccountCreated,
                upsertUserContactEmail, updateUserContactDisplayName,
                updateUserContactAccountLink
  <2> QED BY <1>1, <1>2, <1>5, <1>6, <2>1, <2>2, <2>3 DEF Types
<1>10. CASE markEventProcessed(t)
  <2>1. /\ hold' = [hold EXCEPT ![t] = "commit"]
        /\ barrier' = [barrier EXCEPT ![t][pos[t]] = "skipped"]
        /\ UNCHANGED <<committed, pos, contacts>> /\ hold[t] # "fetch"
    BY <1>10 DEF markEventProcessed, kafka
  <2>2. Rows' /\ \A s \in Topics : s # t => barrier'[s] = barrier[s]
    <3>1. pos[t] \in 1 .. MaxLog[t] /\ "skipped" \in Marks
      BY <1>2, <1>5, <2>1 DEF Marks
    <3> QED BY <1>1, <1>6, <2>1, <3>1, RowWritten
  <2> QED BY <1>1, <1>2, <1>5, <1>6, <2>1, <2>2 DEF Types
<1>11. CASE CommitProjection(t)
  <2>1. /\ hold' = [hold EXCEPT ![t] = "fetch"]
        /\ committed' = [committed EXCEPT ![t] = pos[t]] \/ committed' = committed
        /\ UNCHANGED <<pos, contacts, barrier>> /\ hold[t] # "fetch"
    BY <1>11 DEF CommitProjection, commitMessage
  <2>2. Rows'
    BY <1>6, <2>1 DEF Rows
  <2>3. /\ committed' \in [Topics -> Nat \cup {-1}] /\ committed'[t] <= pos[t]
        /\ \A s \in Topics \ {t} : committed'[s] = committed[s]
    <3>1. CASE committed' = [committed EXCEPT ![t] = pos[t]]
      BY <1>1, <1>2, <1>6, <3>1 DEF Types
    <3>2. CASE committed' = committed
      BY <1>1, <1>2, <1>6, <3>2 DEF Types
    <3> QED BY <2>1, <3>1, <3>2
  <2> QED BY <1>1, <1>2, <1>5, <1>6, <2>1, <2>2, <2>3 DEF Types
<1> QED BY <1>7, <1>8, <1>9, <1>10, <1>11 DEF Project
\* The record of the next attempt.
LEMMA TaskAgain ==
    ASSUME NEW T \in Task, NEW spent \in {0, 1}, NEW waited \in {0, 1}, T.budget >= waited, NEW g,
           g = [NoTask EXCEPT !.at = "process", !.attempt = T.attempt + spent,
                              !.budget = T.budget - waited, !.own = T.own]
    PROVE  /\ g \in Task /\ g.at = "process" /\ g.sent = 0 /\ g.k = 1
           /\ g.attempt = T.attempt + spent /\ g.own = T.own
<1>1. T.own \in Nat /\ T.attempt \in Nat /\ T.budget \in Nat
  BY DEF Task
<1>2. T.attempt + spent \in Nat /\ T.budget - waited \in Nat
  BY <1>1
<1> QED BY <1>1, <1>2 DEF Task, Stages, NoTask

\* The record of an attempt that moves on to another statement.
LEMMA TaskMoved ==
    ASSUME NEW T \in Task, NEW at \in Stages, NEW g, g = [T EXCEPT !.at = at]
    PROVE  /\ g \in Task /\ g.at = at /\ g.k = T.k /\ g.sent = T.sent /\ g.attempt = T.attempt
           /\ g.own = T.own /\ g.err = T.err /\ g.budget = T.budget /\ g.found = T.found
  BY DEF Task

\* No message in hand.
LEMMA TaskFree ==
    /\ NoTask \in Task /\ NoTask.at = "fetch" /\ NoTask.sent = 0 /\ NoTask.k = 1
    /\ NoTask.attempt = 1 /\ NoTask.own = 0
  BY NotificationsAssumption DEF NoTask, Task, Stages

\* A step within the handling of one message.
LEMMA StayBase ==
    ASSUME Base, task.at # "fetch", task' \in Task,
           UNCHANGED <<log, committed, pos, hold, contacts, proc, base>>,
           Rows', mails' \in [Offsets -> [Users -> Nat]], redone' \in [Offsets -> Nat], Working'
    PROVE  Base'
<1>1. Types'
  BY DEF Base, Types
<1>2. Logged'
  BY DEF Base, Logged
<1>3. proc # "down"
  BY DEF Base, Placed
<1>4. Placed'
  BY <1>3 DEF Base, Placed
<1> QED BY <1>1, <1>2, <1>4 DEF Base

\* What a failed attempt counts.
LEMMA FailedFacts ==
    ASSUME Base, task.at # "fetch", NEW e \in {"connect", "malformed", "refused"}, Failed(e)
    PROVE  /\ task' \in Task /\ task'.at = "judge" /\ task'.err = e /\ task'.sent = task.sent
           /\ task'.attempt = task.attempt /\ task'.budget = task.budget
           /\ task'.own = IF e = "connect" THEN task.own ELSE task.own + 1
           /\ redone' \in [Offsets -> Nat] /\ redone'[Id] = redone[Id] + 1
           /\ \A i \in Offsets : i # Id => redone'[i] = redone[i]
<1>1. task \in Task /\ redone \in [Offsets -> Nat] /\ Id \in Offsets
  BY InHand DEF Base, Types
<1>2. /\ redone' \in [Offsets -> Nat] /\ redone'[Id] = redone[Id] + 1
      /\ \A i \in Offsets : i # Id => redone'[i] = redone[i]
  BY <1>1 DEF Failed
<1>3. task.own \in Nat /\ task.own + (IF e = "connect" THEN 0 ELSE 1) \in Nat
  BY <1>1 DEF Task
<1>4. task' = [task EXCEPT !.at = "judge", !.err = e,
                           !.own = task.own + (IF e = "connect" THEN 0 ELSE 1)]
  BY DEF Failed
<1>5. task' \in Task
  BY <1>1, <1>3, <1>4 DEF Task, Stages
<1>6. /\ task'.at = "judge" /\ task'.err = e /\ task'.sent = task.sent
      /\ task'.attempt = task.attempt /\ task'.budget = task.budget
  BY <1>1, <1>4 DEF Task
<1>7. task'.own = task.own + (IF e = "connect" THEN 0 ELSE 1)
  BY <1>1, <1>4 DEF Task
<1>8. task'.own = IF e = "connect" THEN task.own ELSE task.own + 1
  BY <1>3, <1>7
<1> QED BY <1>2, <1>5, <1>6, <1>8

\* A failed attempt, whatever it failed at.
LEMMA FailedBase ==
    ASSUME Base, task.at # "fetch", NEW e \in {"connect", "malformed", "refused"}, Failed(e),
           UNCHANGED <<log, committed, pos, hold, contacts, barrier, proc, base, mails>>
    PROVE  Base'
<1>1. /\ task' \in Task /\ task'.at = "judge" /\ task'.sent = task.sent
      /\ redone' \in [Offsets -> Nat]
  BY FailedFacts
<1>2. Working'
  BY <1>1 DEF Base, Working, Id
<1>3. Rows' /\ mails' \in [Offsets -> [Users -> Nat]]
  BY DEF Base, Types, Rows
<1> QED BY <1>1, <1>2, <1>3, StayBase

\* FetchMessage, and the commit that ends a message.
LEMMA FetchCommitBase ==
    ASSUME Base, runTransferEventsConsumer \/ CommitTransfer
    PROVE  Base'
<1>1. /\ UNCHANGED <<log, hold, contacts, barrier, proc, base, mails, redone>>
      /\ "transfer" \in Topics /\ Types
  BY DEF runTransferEventsConsumer, CommitTransfer, history, Topics, Base
<1>2. /\ pos["transfer"] \in Nat /\ Len(log["transfer"]) \in Nat /\ base \in Nat
      /\ committed["transfer"] \in Nat \cup {-1} /\ base <= pos["transfer"]
      /\ committed["transfer"] <= pos["transfer"] /\ pos["transfer"] <= Len(log["transfer"])
  BY <1>1 DEF Base, Types, Placed
<1>3. Logged' /\ Rows'
  BY <1>1 DEF Base, Logged, Types, Rows
<1>4. CASE runTransferEventsConsumer
  <2>1. /\ pos' = [pos EXCEPT !["transfer"] = @ + 1] /\ UNCHANGED committed
        /\ task' = [NoTask EXCEPT !.at = "process"]
        /\ proc = "up" /\ pos["transfer"] < Len(log["transfer"])
    BY <1>4 DEF runTransferEventsConsumer, Fetchable
  <2>2. task' \in Task /\ task'.at = "process" /\ task'.sent = 0 /\ task'.k = 1
    BY <2>1, NotificationsAssumption DEF NoTask, Task, Stages
  <2>3. /\ pos' \in [Topics -> Nat] /\ pos'["transfer"] = pos["transfer"] + 1
        /\ \A t \in Topics : t # "transfer" => pos'[t] = pos[t]
    BY <1>1, <1>2, <2>1 DEF Types
  <2>4. Types'
    BY <1>1, <1>3, <2>1, <2>2, <2>3 DEF Types
  <2>5. Working'
    BY <2>2 DEF Working
  <2>6. Placed'
    <3>1. \A t \in Topics : pos'[t] <= Len(log'[t]) /\ committed'[t] <= pos'[t]
      BY <1>1, <1>2, <2>1, <2>3 DEF Base, Placed
    <3>2. \A t \in Projections : pos'[t] = pos[t]
      BY <2>3 DEF Topics, Projections
    <3>3. /\ base' < pos'["transfer"] /\ committed'["transfer"] < pos'["transfer"]
          /\ base' <= pos'["transfer"]
      BY <1>1, <1>2, <2>1, <2>3
    <3> QED BY <1>1, <2>1, <3>1, <3>2, <3>3 DEF Base, Placed
  <2> QED BY <1>3, <2>4, <2>5, <2>6 DEF Base
<1>5. CASE CommitTransfer
  <2>1. /\ UNCHANGED pos /\ task' = NoTask /\ task.at = "commit"
        /\ committed' = [committed EXCEPT !["transfer"] = pos["transfer"]] \/ UNCHANGED committed
    BY <1>5 DEF CommitTransfer, commitMessage
  <2>2. task' \in Task /\ task'.at = "fetch"
    BY <2>1, TaskFree
  <2>3. /\ committed' \in [Topics -> Nat \cup {-1}]
        /\ \A t \in Topics : committed'[t] <= pos'[t]
        /\ committed'["transfer"] \in {pos["transfer"], committed["transfer"]}
    <3>1. CASE committed' = [committed EXCEPT !["transfer"] = pos["transfer"]]
      BY <1>1, <1>2, <2>1, <3>1 DEF Types, Base, Placed
    <3>2. CASE UNCHANGED committed
      BY <1>1, <2>1, <3>2 DEF Types, Base, Placed
    <3> QED BY <2>1, <3>1, <3>2
  <2>4. Types'
    BY <1>1, <1>3, <2>1, <2>2, <2>3 DEF Types
  <2>5. Working'
    BY <2>2 DEF Working
  <2>6. Placed'
    BY <1>1, <1>2, <2>1, <2>2, <2>3 DEF Base, Placed
  <2> QED BY <1>3, <2>4, <2>5, <2>6 DEF Base
<1> QED BY <1>4, <1>5

\* The statements of an attempt that does not fail, and what follows a failure.
LEMMA HandleBase ==
    ASSUME Base,
           \/ Claim \/ finishTransferEvent \/ handleTransferMessageWithRetry \/ BudgetExpires
           \/ sendToDLQ \/ finishEvent
    PROVE  Base'
<1>1. /\ UNCHANGED <<log, committed, pos, hold, contacts, proc, base, mails, redone>>
      /\ task.at # "fetch" /\ task \in Task
  BY DEF Claim, finishTransferEvent, handleTransferMessageWithRetry, BudgetExpires, sendToDLQ,
         finishEvent, kafka, history, Base, Types
<1>2. /\ Id \in Offsets /\ Msg \in Wire /\ UNCHANGED <<Id, Msg>>
  BY <1>1, InHand DEF Id, Msg, Current
<1>3. /\ mails' \in [Offsets -> [Users -> Nat]] /\ redone' \in [Offsets -> Nat]
      /\ Rows /\ "transfer" \in Topics /\ Id \in 1 .. MaxLog["transfer"]
      /\ barrier["transfer"][Id] \in Marks
  BY <1>1, <1>2 DEF Base, Types, Topics, Offsets, Rows
<1>4. task.sent > 0 => \E u \in Users : mails[Id][u] > 0
  BY <1>1 DEF Base, Working
<1>5. ASSUME NEW m \in Marks, barrier' = [barrier EXCEPT !["transfer"][Id] = m]
      PROVE  Rows' /\ barrier'["transfer"][Id] = m
  BY <1>3, <1>5, TransferRow
<1>6. CASE Claim
  <2> DEFINE m == IF barrier["transfer"][Id] = None THEN "processing" ELSE barrier["transfer"][Id]
             at == IF claimEvent(barrier["transfer"][Id]) THEN "find" ELSE "commit"
  <2>1. /\ barrier' = [barrier EXCEPT !["transfer"][Id] = m] /\ task' = [task EXCEPT !.at = at]
        /\ Msg.type \in Known /\ task.at = "process"
    BY <1>6 DEF Claim
  <2>2. m \in Marks /\ at \in {"find", "commit"} /\ (at = "find" => m = "processing")
    BY <1>3, NotificationsAssumption DEF Marks, claimEvent
  <2> HIDE DEF m, at
  <2>3. Rows' /\ barrier'["transfer"][Id] = m
    BY <1>5, <2>1, <2>2
  <2>4. /\ task' \in Task /\ task'.at = at /\ task'.k = task.k /\ task'.sent = task.sent
    BY <1>1, <2>1, <2>2, TaskMoved DEF Stages
  <2>5. Len(processTransferMessage(Msg)) \in Nat \ {0}
    BY <1>2, <2>1, PartyFacts
  <2>6. task.k = 1
    BY <2>1 DEF Base, Working
  <2>7. Working'
    BY <1>1, <1>2, <1>4, <2>1, <2>2, <2>3, <2>4, <2>5, <2>6 DEF Working
  <2> QED BY <1>1, <1>3, <2>3, <2>4, <2>7, StayBase
<1>7. CASE finishTransferEvent
  <2>1. PICK m \in {"skipped", "sent"} : barrier' = [barrier EXCEPT !["transfer"][Id] = m]
    BY <1>7 DEF finishTransferEvent
  <2>2. Rows'
    BY <1>5, <2>1 DEF Marks
  <2>3. task' = [task EXCEPT !.at = "commit"]
    BY <1>7 DEF finishTransferEvent
  <2>4. task' \in Task /\ task'.at = "commit" /\ task'.sent = task.sent
    BY <1>1, <2>3, TaskMoved DEF Stages
  <2>5. Working'
    BY <1>1, <1>2, <1>4, <2>4 DEF Working
  <2> QED BY <1>1, <1>3, <2>2, <2>4, <2>5, StayBase
<1>8. CASE finishEvent
  <2>1. PICK m \in Marks : barrier' = [barrier EXCEPT !["transfer"][Id] = m]
    <3>1. barrier' = [barrier EXCEPT !["transfer"][Id] =
                        IF Msg.type \in Known /\ "postgres" \in up /\ barrier["transfer"][Id] # None
                        THEN "skipped" ELSE barrier["transfer"][Id]]
      BY <1>8 DEF finishEvent
    <3> QED BY <1>3, <3>1 DEF Marks
  <2>2. Rows'
    BY <1>5, <2>1
  <2>3. task' = [task EXCEPT !.at = "commit"]
    BY <1>8 DEF finishEvent
  <2>4. task' \in Task /\ task'.at = "commit" /\ task'.sent = task.sent
    BY <1>1, <2>3, TaskMoved DEF Stages
  <2>5. Working'
    BY <1>1, <1>2, <1>4, <2>4 DEF Working
  <2> QED BY <1>1, <1>3, <2>2, <2>4, <2>5, StayBase
<1>9. CASE handleTransferMessageWithRetry \/ BudgetExpires \/ sendToDLQ
  <2>1. UNCHANGED barrier /\ Rows'
    BY <1>3, <1>9 DEF handleTransferMessageWithRetry, BudgetExpires, sendToDLQ, Rows
  <2>2. /\ task' \in Task /\ task'.at \in {"process", "dlq", "judge", "close"}
        /\ task'.sent \in {0, task.sent} /\ (task'.at = "process" => task'.k = 1)
    <3>1. ASSUME NEW at \in {"dlq", "close"}, task' = [task EXCEPT !.at = at]
          PROVE  task' \in Task /\ task'.at = at /\ task'.sent = task.sent
      BY <1>1, <3>1, TaskMoved DEF Stages
    <3>2. ASSUME task' = [task EXCEPT !.budget = 0], task.at = "judge"
          PROVE  task' \in Task /\ task'.at = "judge" /\ task'.sent = task.sent
      BY <1>1, <3>2 DEF Task
    <3>3. ASSUME NEW spent \in {0, 1}, NEW waited \in {0, 1}, task.budget >= waited,
                 task' = Retry(spent, waited)
          PROVE  task' \in Task /\ task'.at = "process" /\ task'.sent = 0 /\ task'.k = 1
      BY <1>1, <3>3, TaskAgain, ZenonT(40) DEF Retry
    <3>4. task.budget \in Nat
      BY <1>1 DEF Task
    <3>5. CASE handleTransferMessageWithRetry
      <4>1. \/ task.budget > 0 /\ task' = Retry(0, 1)
            \/ task' = [task EXCEPT !.at = "dlq"]
            \/ task' = Retry(1, 0)
        BY <3>5 DEF handleTransferMessageWithRetry
      <4> QED BY <3>1, <3>3, <3>4, <4>1
    <3>6. CASE BudgetExpires
      BY <3>2, <3>6 DEF BudgetExpires
    <3>7. CASE sendToDLQ
      BY <3>1, <3>7 DEF sendToDLQ
    <3> QED BY <1>9, <3>5, <3>6, <3>7
  <2>3. Working'
    BY <1>1, <1>2, <1>4, <2>1, <2>2 DEF Working
  <2> QED BY <1>1, <1>3, <2>1, <2>2, <2>3, StayBase
<1> QED BY <1>6, <1>7, <1>8, <1>9
\* A mail goes out.
LEMMA MailSent ==
    ASSUME mails \in [Offsets -> [Users -> Nat]], NEW i \in Offsets, NEW p \in Users,
           mails' = [mails EXCEPT ![i][p] = @ + 1]
    PROVE  /\ mails' \in [Offsets -> [Users -> Nat]] /\ mails'[i][p] = mails[i][p] + 1
           /\ \A j \in Offsets, u \in Users : j # i \/ u # p => mails'[j][u] = mails[j][u]
<1>1. mails' = [mails EXCEPT ![i] = [mails[i] EXCEPT ![p] = mails[i][p] + 1]]
  OBVIOUS
<1>2. mails[i] \in [Users -> Nat] /\ mails[i][p] + 1 \in Nat
  OBVIOUS
<1>3. /\ mails'[i] = [mails[i] EXCEPT ![p] = mails[i][p] + 1]
      /\ \A j \in Offsets : j # i => mails'[j] = mails[j]
  BY <1>1
<1>4. mails'[i] \in [Users -> Nat]
  BY <1>2, <1>3
<1>5. mails' \in [Offsets -> [Users -> Nat]]
  BY <1>1, <1>3, <1>4
<1> QED BY <1>2, <1>3, <1>5

\* What is left of the loop over the parties.
LEMMA OnwardFacts ==
    ASSUME Base, task.at # "fetch", Msg.type \in Known,
           task.k \in 1 .. Len(processTransferMessage(Msg))
    PROVE  /\ Len(processTransferMessage(Msg)) \in Nat \ {0}
           /\ task.k \in Nat
           /\ task.k # Len(processTransferMessage(Msg)) =>
                task.k + 1 \in 1 .. Len(processTransferMessage(Msg))
           /\ 1 \in 1 .. Len(processTransferMessage(Msg))
           /\ ~Msg.corrupt => Party \in Users
<1>1. Msg \in Wire
  BY InHand
<1>2. /\ Len(processTransferMessage(Msg)) \in Nat \ {0}
      /\ ~Msg.corrupt => \A k \in 1 .. Len(processTransferMessage(Msg)) :
                            processTransferMessage(Msg)[k] \in Users
  BY <1>1, PartyFacts
<1> QED BY <1>2 DEF Party

\* An account is looked up.
LEMMA FindBase ==
    ASSUME Base, waitForContactByAccountID
    PROVE  Base'
<1>1. /\ UNCHANGED <<log, committed, pos, hold, contacts, barrier, proc, base, mails>>
      /\ task.at = "find" /\ task \in Task
  BY DEF waitForContactByAccountID, kafka, Base, Types
<1>2. CASE Failed("malformed")
  BY <1>1, <1>2, FailedBase
<1>3. CASE /\ ~Msg.corrupt /\ UNCHANGED redone
           /\ LET last == task.k = Len(processTransferMessage(Msg)) IN
              task' = [task EXCEPT
                         !.at = IF last THEN "mail" ELSE "find",
                         !.k = IF last THEN 1 ELSE @ + 1,
                         !.found = IF getContactByAccountID(Party) THEN @ \cup {task.k}
                                                                  ELSE @]
  <2> DEFINE last == task.k = Len(processTransferMessage(Msg))
             at == IF last THEN "mail" ELSE "find"
             k == IF last THEN 1 ELSE task.k + 1
             found == IF getContactByAccountID(Party) THEN task.found \cup {task.k}
                                                      ELSE task.found
  <2>1. task' = [task EXCEPT !.at = at, !.k = k, !.found = found]
    BY <1>3
  <2>2. /\ Msg.type \in Known /\ barrier["transfer"][Id] = "processing"
        /\ task.k \in 1 .. Len(processTransferMessage(Msg))
        /\ (task.sent > 0 => \E u \in Users : mails[Id][u] > 0)
    BY <1>1 DEF Base, Working
  <2>3. /\ at \in {"find", "mail"} /\ k \in 1 .. Len(processTransferMessage(Msg)) /\ k \in Nat
        /\ found \in SUBSET Nat
    <3>1. task.found \in SUBSET Nat /\ task.k \in Nat
      BY <1>1 DEF Task
    <3>2. k \in 1 .. Len(processTransferMessage(Msg)) /\ k \in Nat
      BY <1>1, <2>2, OnwardFacts
    <3> QED BY <3>1, <3>2
  <2> HIDE DEF last, at, k, found
  <2>4. task' \in Task
    BY <1>1, <2>1, <2>3 DEF Task, Stages
  <2>5. task'.at = at /\ task'.k = k /\ task'.sent = task.sent
    BY <1>1, <2>1 DEF Task
  <2>6. UNCHANGED <<Id, Msg>>
    BY <1>1 DEF Id, Msg, Current
  <2>7. Working'
    BY <1>1, <1>3, <2>2, <2>3, <2>5, <2>6 DEF Working
  <2>8. Rows' /\ mails' \in [Offsets -> [Users -> Nat]] /\ redone' \in [Offsets -> Nat]
    BY <1>1, <1>3 DEF Base, Types, Rows
  <2> QED BY <1>1, <2>4, <2>7, <2>8, StayBase
<1> QED BY <1>2, <1>3 DEF waitForContactByAccountID

\* What one party's turn does to the attempt.
LEMMA MailTurn ==
    ASSUME Base, sendEmailWithRetry
    PROVE  /\ UNCHANGED <<log, committed, pos, hold, contacts, barrier, proc, base, dlq, lapsed>>
           /\ task.at = "mail" /\ Msg.type \in Known /\ ~Msg.corrupt
           /\ task.k \in 1 .. Len(processTransferMessage(Msg)) /\ Party \in Users
           /\ \/ /\ Failed("connect") \/ Failed("refused")
                 /\ UNCHANGED mails
              \/ /\ task' \in Task /\ task'.at \in {"mail", "finish"}
                 /\ task'.at = "mail" => /\ task'.k = task.k + 1
                                         /\ task'.k \in 1 .. Len(processTransferMessage(Msg))
                 /\ task'.attempt = task.attempt /\ task'.own = task.own
                 /\ UNCHANGED redone
                 /\ \/ UNCHANGED mails /\ task'.sent = task.sent
                    \/ mails' = [mails EXCEPT ![Id][Party] = @ + 1]
<1> DEFINE last == task.k = Len(processTransferMessage(Msg))
           at == IF last THEN "finish" ELSE "mail"
           k == IF last THEN 1 ELSE task.k + 1
<1>1. /\ UNCHANGED <<log, committed, pos, hold, contacts, barrier, proc, base, dlq, lapsed>>
      /\ task.at = "mail" /\ task \in Task
  BY DEF sendEmailWithRetry, kafka, Base, Types
<1>2. /\ Msg.type \in Known /\ ~Msg.corrupt /\ task.k \in 1 .. Len(processTransferMessage(Msg))
  BY <1>1 DEF Base, Working
<1>3. /\ Party \in Users /\ at \in {"mail", "finish"} /\ k \in Nat
      /\ at = "mail" => k = task.k + 1 /\ k \in 1 .. Len(processTransferMessage(Msg))
  BY <1>1, <1>2, OnwardFacts
<1>4. \/ /\ Failed("connect") \/ Failed("refused")
         /\ UNCHANGED mails
      \/ /\ task' = [task EXCEPT !.at = at, !.k = k] /\ UNCHANGED <<mails, redone>>
      \/ /\ task' = [[task EXCEPT !.at = at, !.k = k] EXCEPT !.sent = @ + 1]
         /\ mails' = [mails EXCEPT ![Id][Party] = @ + 1] /\ UNCHANGED redone
  BY DEF sendEmailWithRetry
<1> HIDE DEF last, at, k
<1>5. CASE task' = [task EXCEPT !.at = at, !.k = k] /\ UNCHANGED <<mails, redone>>
  <2>1. task' \in Task
    BY <1>1, <1>3, <1>5 DEF Task, Stages
  <2>2. /\ task'.at = at /\ task'.k = k /\ task'.sent = task.sent
        /\ task'.attempt = task.attempt /\ task'.own = task.own
    BY <1>1, <1>5 DEF Task
  <2> QED BY <1>1, <1>2, <1>3, <1>5, <2>1, <2>2
<1>6. CASE /\ task' = [[task EXCEPT !.at = at, !.k = k] EXCEPT !.sent = @ + 1]
           /\ mails' = [mails EXCEPT ![Id][Party] = @ + 1] /\ UNCHANGED redone
  <2>1. task' = [task EXCEPT !.at = at, !.k = k, !.sent = task.sent + 1]
    BY <1>1, <1>6 DEF Task
  <2>2. task.sent + 1 \in Nat
    BY <1>1 DEF Task
  <2>3. task' \in Task
    BY <1>1, <1>3, <2>1, <2>2 DEF Task, Stages
  <2>4. /\ task'.at = at /\ task'.k = k
        /\ task'.attempt = task.attempt /\ task'.own = task.own
    BY <1>1, <2>1 DEF Task
  <2> QED BY <1>1, <1>2, <1>3, <1>6, <2>3, <2>4
<1> QED BY <1>1, <1>2, <1>3, <1>4, <1>5, <1>6

\* A party is mailed, left out, or the mail fails.
LEMMA MailBase ==
    ASSUME Base, sendEmailWithRetry
    PROVE  Base'
<1>1. /\ UNCHANGED <<log, committed, pos, hold, contacts, barrier, proc, base>>
      /\ task.at = "mail" /\ Msg.type \in Known /\ ~Msg.corrupt /\ Party \in Users
  BY MailTurn
<1>2. CASE (Failed("connect") \/ Failed("refused")) /\ UNCHANGED mails
  BY <1>1, <1>2, FailedBase
<1>3. CASE /\ task' \in Task /\ task'.at \in {"mail", "finish"}
           /\ task'.at = "mail" => task'.k \in 1 .. Len(processTransferMessage(Msg))
           /\ UNCHANGED redone
           /\ \/ UNCHANGED mails /\ task'.sent = task.sent
              \/ mails' = [mails EXCEPT ![Id][Party] = @ + 1]
  <2>1. /\ UNCHANGED <<Id, Msg>> /\ Id \in Offsets /\ mails \in [Offsets -> [Users -> Nat]]
        /\ barrier["transfer"][Id] = "processing"
    BY <1>1, InHand DEF Id, Msg, Current, Base, Types, Working
  <2>2. /\ mails' \in [Offsets -> [Users -> Nat]]
        /\ task'.sent > 0 => \E u \in Users : mails'[Id][u] > 0
    <3>1. CASE UNCHANGED mails /\ task'.sent = task.sent
      BY <1>1, <2>1, <3>1 DEF Base, Working
    <3>2. CASE mails' = [mails EXCEPT ![Id][Party] = @ + 1]
      <4>1. mails' \in [Offsets -> [Users -> Nat]] /\ mails'[Id][Party] = mails[Id][Party] + 1
        BY <1>1, <2>1, <3>2, MailSent
      <4>2. mails[Id][Party] \in Nat
        BY <1>1, <2>1
      <4> QED BY <1>1, <4>1, <4>2
    <3> QED BY <1>3, <3>1, <3>2
  <2>3. Working'
    BY <1>1, <1>3, <2>1, <2>2 DEF Working
  <2>4. Rows' /\ redone' \in [Offsets -> Nat]
    BY <1>1, <1>3 DEF Base, Types, Rows
  <2> QED BY <1>1, <1>3, <2>2, <2>3, <2>4, StayBase
<1> QED BY <1>2, <1>3, MailTurn

\* The process ends and starts; what it depends on comes and goes.
LEMMA ProcessBase ==
    ASSUME Base,
           \/ Drain \/ Exit \/ Crash \/ Start \/ UNCHANGED vars
           \/ \E s \in {"postgres", "smtp"} : Outage(s) \/ Recover(s)
    PROVE  Base'
<1>1. UNCHANGED <<log, committed, contacts, barrier, mails>>
  BY DEF Drain, Exit, Crash, Start, Outage, Recover, vars, kafka, consumers, history
<1>2. Logged' /\ Rows'
  BY <1>1 DEF Base, Logged, Types, Rows
<1>3. CASE \/ Drain \/ Exit \/ UNCHANGED vars
           \/ \E s \in {"postgres", "smtp"} : Outage(s) \/ Recover(s)
  <2>1. /\ UNCHANGED <<pos, hold, task, base, redone>>
        /\ proc' \in {"up", "draining", "down"}
        /\ proc' = "down" => proc = "down" \/ (task.at = "fetch" /\ \A t \in Projections : hold[t] = "fetch")
    BY <1>3 DEF Drain, Exit, Outage, Recover, vars, kafka, consumers, history, Base, Types
  <2>2. Types'
    BY <1>1, <1>2, <2>1 DEF Base, Types
  <2>3. Placed'
    BY <1>1, <2>1 DEF Base, Placed
  <2>4. Working'
    BY <1>1, <2>1, WorkingKept
  <2> QED BY <1>2, <2>2, <2>3, <2>4 DEF Base
<1>4. CASE Crash
  <2>1. /\ UNCHANGED <<pos, base>> /\ proc' = "down" /\ task' = NoTask
        /\ hold' = [t \in Projections |-> "fetch"]
        /\ redone' = IF task.at \in {"fetch", "commit"} THEN redone
                     ELSE [redone EXCEPT ![Id] = @ + 1]
    BY <1>4 DEF Crash, kafka
  <2>2. task' \in Task /\ task'.at = "fetch"
    BY <2>1, TaskFree
  <2>3. redone' \in [Offsets -> Nat]
    <3>1. CASE task.at \in {"fetch", "commit"}
      BY <2>1, <3>1 DEF Base, Types
    <3>2. CASE task.at \notin {"fetch", "commit"}
      <4>1. Id \in Offsets /\ redone' = [redone EXCEPT ![Id] = @ + 1] /\ redone \in [Offsets -> Nat]
        BY <2>1, <3>2, InHand DEF Base, Types
      <4> QED BY <4>1
    <3> QED BY <3>1, <3>2
  <2>4. Types'
    BY <1>1, <1>2, <2>1, <2>2, <2>3 DEF Base, Types
  <2>5. Placed'
    BY <1>1, <2>1, <2>2 DEF Base, Placed
  <2>6. Working'
    BY <2>2 DEF Working
  <2> QED BY <1>2, <2>4, <2>5, <2>6 DEF Base
<1>5. CASE Start
  <2>1. /\ UNCHANGED <<hold, task, redone>> /\ proc' = "up" /\ proc = "down"
        /\ pos' = [t \in Topics |-> newKafkaReader(t)]
        /\ base' = IF committed["transfer"] = -1 THEN Len(log["transfer"]) ELSE base
    BY <1>5 DEF Start, consumers
  <2>2. task.at = "fetch" /\ \A t \in Projections : hold[t] = "fetch"
    BY <2>1 DEF Base, Placed
  <2>3. ASSUME NEW t \in Topics
        PROVE  /\ pos'[t] \in Nat /\ pos'[t] <= Len(log[t]) /\ committed[t] <= pos'[t]
    <3>1. /\ pos[t] \in Nat /\ Len(log[t]) \in Nat /\ committed[t] \in Nat \cup {-1}
          /\ committed[t] <= pos[t] /\ pos[t] <= Len(log[t])
      BY DEF Base, Types, Placed
    <3> QED BY <2>1, <3>1 DEF newKafkaReader, startOffset
  <2>4. /\ base' \in Nat /\ base' <= pos'["transfer"]
        /\ committed["transfer"] = -1 \/ base' <= committed["transfer"]
    <3>1. /\ "transfer" \in Topics /\ "transfer" \notin Projections
          /\ log["transfer"] \in Seq(Messages) /\ base \in Nat
      BY DEF Topics, Projections, Base, Types
    <3>2. committed["transfer"] = -1 \/ base <= committed["transfer"]
      BY DEF Base, Placed
    <3> QED BY <2>1, <3>1, <3>2 DEF newKafkaReader, startOffset
  <2>5. Types'
    BY <1>1, <1>2, <2>1, <2>3, <2>4 DEF Base, Types
  <2>6. Placed'
    BY <1>1, <2>1, <2>2, <2>3, <2>4 DEF Placed
  <2>7. Working'
    BY <2>1, <2>2 DEF Working
  <2> QED BY <1>2, <2>5, <2>6, <2>7 DEF Base
<1> QED BY <1>3, <1>4, <1>5

\* The first start, or a later one.
LEMMA InitBase ==
    ASSUME Init
    PROVE  Base
<1>1. /\ Len(Published) \in Nat /\ "transfer" \in Topics /\ Len(Published) <= MaxLog["transfer"]
      /\ Published \in Seq({Published[i] : i \in DOMAIN Published}) /\ MaxLog \in [Topics -> Nat]
  BY NotificationsAssumption DEF Topics
<1>2. Published \in Seq(Messages) /\ \A i \in 1 .. Len(Published) : Published[i] \in Wire
  BY <1>1 DEF Messages, Wire
<1>3. log \in [Topics -> Seq(Messages)] /\ log["transfer"] = Published
  <2>1. <<>> \in Seq(Messages)
    OBVIOUS
  <2> QED BY <1>1, <1>2, <2>1 DEF Init
<1>4. /\ pos \in [Topics -> Nat] /\ \A t \in Topics : pos[t] = Len(log[t]) /\ Len(log[t]) <= MaxLog[t]
  BY <1>1, <1>3 DEF Init
<1>5. /\ committed \in [Topics -> Nat \cup {-1}] /\ \A t \in Topics : committed[t] <= pos[t]
      /\ committed["transfer"] \in {-1, Len(Published)}
  BY <1>1, <1>3, <1>4 DEF Init
<1>6. contacts \in [Users -> Contact]
  BY DEF Init, Contact
<1>7. Rows
  BY DEF Init, Rows, Marks
<1>8. mails \in [Offsets -> [Users -> Nat]] /\ redone \in [Offsets -> Nat]
  BY DEF Init
<1>9. task = NoTask /\ task \in Task /\ task.at = "fetch"
  BY TaskFree DEF Init
<1>10. Types
  BY <1>1, <1>3, <1>4, <1>5, <1>6, <1>7, <1>8, <1>9 DEF Init, Types
<1>11. Logged
  BY <1>2, <1>3, <1>4 DEF Logged
<1>12. Placed
  BY <1>1, <1>3, <1>4, <1>5, <1>9 DEF Init, Placed
<1>13. Working
  BY <1>9 DEF Working
<1> QED BY <1>10, <1>11, <1>12, <1>13 DEF Base

\* Every step keeps the base invariant.
LEMMA NextBase ==
    ASSUME Base, [Next]_vars
    PROVE  Base'
<1>1. CASE RejectMessage
  <2>1. /\ Failed("malformed") /\ task.at # "fetch"
        /\ UNCHANGED <<log, committed, pos, hold, contacts, barrier, proc, base, mails>>
    BY <1>1 DEF RejectMessage, kafka
  <2> QED BY <2>1, FailedBase
<1>2. CASE DatabaseError
  <2>1. /\ Failed("connect") /\ task.at # "fetch"
        /\ UNCHANGED <<log, committed, pos, hold, contacts, barrier, proc, base, mails>>
    BY <1>2 DEF DatabaseError, kafka
  <2> QED BY <2>1, FailedBase
<1>3. CASE Notify
  BY <1>1, <1>2, <1>3, FetchCommitBase, HandleBase, FindBase, MailBase DEF Notify
<1> QED BY <1>3, PublishBase, ProjectBase, HandleBase, ProcessBase DEF Next

\* The types, and how offsets, rows and attempts fit together, throughout.
THEOREM SpecBase == Spec => []Base
<1>1. Init => Base
  BY InitBase
<1>2. Base /\ [Next]_vars => Base'
  BY NextBase
<1> QED BY <1>1, <1>2, PTL DEF Spec
-----------------------------------------------------------------------------
(***************************************************************************)
(* The transfer consumer implements AtLeastOnce.                           *)
(***************************************************************************)

Mailed == [i \in Offsets |-> {u \in Users : mails[i][u] > 0}]

\* A step that changes neither outcomes nor mails is invisible.
LEMMA QuietPromise ==
    ASSUME UNCHANGED <<base, mails>>,
           Len(log'["transfer"]) = Len(log["transfer"]),
           committed'["transfer"] = committed["transfer"],
           barrier'["transfer"] = barrier["transfer"]
    PROVE  UNCHANGED Promise!abstract
  BY DEF Promise!abstract, Outcome

\* The outcome of the current event is open until its row is closed.
LEMMA OpenInHand ==
    ASSUME Base, task.at # "fetch"
    PROVE  /\ Id \in 1 .. MaxLog["transfer"] /\ Id <= Len(log["transfer"])
           /\ ~Closed(Id) => Outcome[Id] = "open"
           /\ Closed(Id) => Outcome[Id] = barrier["transfer"][Id]
<1>1. /\ Id \in Offsets /\ Id <= Len(log["transfer"])
  BY InHand
<1>2. ~(Id <= base) /\ ~(Id <= committed["transfer"])
  <2>1. base \in Nat /\ pos["transfer"] \in Nat /\ committed["transfer"] \in Nat \cup {-1}
    BY DEF Base, Types, Topics
  <2>2. base < pos["transfer"] /\ committed["transfer"] < pos["transfer"]
    BY DEF Base, Placed
  <2> QED BY <2>1, <2>2 DEF Id
<1> QED BY <1>1, <1>2 DEF Outcome, Closed, Offsets

\* A row is closed: the outcome of that event alone changes.
LEMMA ClosePromise ==
    ASSUME Base, task.at # "fetch", NEW m \in {"sent", "skipped"},
           barrier' = [barrier EXCEPT !["transfer"][Id] = m],
           UNCHANGED <<log, committed, base, mails>>,
           m = "sent" => (~Closed(Id) /\ \E u \in Users : mails[Id][u] > 0)
    PROVE  Promise!AbstractNext \/ UNCHANGED Promise!abstract
<1>1. /\ Id \in Offsets /\ Id \in 1 .. MaxLog["transfer"] /\ Rows /\ m \in Marks
  BY InHand DEF Base, Types, Offsets, Marks
<1>2. /\ barrier'["transfer"][Id] = m
      /\ \A j \in Offsets : j # Id => barrier'["transfer"][j] = barrier["transfer"][j]
  BY <1>1, TransferRow DEF Offsets
<1>3. Outcome' = [Outcome EXCEPT ![Id] = m]
  BY <1>1, <1>2 DEF Outcome
<1>4. UNCHANGED <<Len(log["transfer"]), Mailed>>
  BY DEF Mailed
<1>5. Id <= Len(log["transfer"])
  BY InHand
<1>6. CASE ~Closed(Id)
  <2>1. Outcome[Id] = "open"
    BY <1>6, OpenInHand
  <2>2. m = "sent" => Mailed[Id] # {}
    BY <1>1 DEF Mailed
  <2>3. Promise!Close(Id, m)
    BY <1>3, <1>4, <1>5, <2>1, <2>2 DEF Promise!Close, Mailed
  <2> QED BY <1>1, <2>3 DEF Promise!AbstractNext, Offsets
<1>7. CASE Closed(Id) /\ barrier["transfer"][Id] = "sent"
  <2>1. Outcome[Id] = "sent" /\ m = "skipped"
    BY <1>7, OpenInHand
  <2>2. Promise!Bury(Id)
    BY <1>3, <1>4, <1>5, <2>1 DEF Promise!Bury, Mailed
  <2> QED BY <1>1, <2>2 DEF Promise!AbstractNext, Offsets
<1>8. CASE Closed(Id) /\ barrier["transfer"][Id] = "skipped"
  <2>1. Outcome[Id] = "skipped" /\ m = "skipped"
    BY <1>8, OpenInHand
  <2>2. Outcome' = Outcome
    BY <1>1, <1>3, <2>1 DEF Outcome
  <2> QED BY <1>4, <2>2 DEF Promise!abstract, Mailed
<1> QED BY <1>6, <1>7, <1>8 DEF Closed

\* The group's position moves: everything open up to it is passed.
LEMMA PassPromise ==
    ASSUME Base, NEW n \in Nat, n <= Len(log["transfer"]),
           UNCHANGED <<log, mails>>, barrier'["transfer"] = barrier["transfer"],
           \A i \in Offsets : (i <= base' \/ i <= committed'["transfer"])
                               <=> (i <= base \/ i <= committed["transfer"] \/ i <= n)
    PROVE  Promise!AbstractNext \/ UNCHANGED Promise!abstract
<1>1. /\ MaxLog["transfer"] \in Nat /\ Len(log["transfer"]) \in Nat
      /\ Len(log["transfer"]) <= MaxLog["transfer"]
  BY NotificationsAssumption DEF Base, Types, Logged, Topics
<1>2. \A i \in Offsets : Outcome'[i] = IF i <= n /\ Outcome[i] = "open" THEN "passed" ELSE Outcome[i]
  BY DEF Outcome
<1>3. Outcome' = [i \in Offsets |-> Outcome'[i]]
  BY DEF Outcome
<1>4. UNCHANGED <<Len(log["transfer"]), Mailed>>
  BY DEF Mailed
<1>5. CASE n = 0
  <2>1. Outcome' = Outcome
    BY <1>2, <1>3, <1>5 DEF Outcome, Offsets
  <2> QED BY <1>4, <2>1 DEF Promise!abstract, Mailed
<1>6. CASE n # 0
  <2>1. n \in Offsets
    BY <1>1, <1>6 DEF Offsets
  <2>2. Promise!Pass(n)
    BY <1>2, <1>3, <1>4 DEF Promise!Pass, Mailed, Offsets
  <2> QED BY <2>1, <2>2 DEF Promise!AbstractNext, Offsets
<1> QED BY <1>5, <1>6

\* A mail about an open event.
LEMMA MailPromise ==
    ASSUME Base, task.at = "mail", Party \in Users, mails' = [mails EXCEPT ![Id][Party] = @ + 1],
           UNCHANGED <<log, committed, barrier, base>>
    PROVE  Promise!AbstractNext
<1>1. /\ Id \in Offsets /\ Id <= Len(log["transfer"]) /\ mails \in [Offsets -> [Users -> Nat]]
  BY InHand DEF Base, Types
<1>2. Outcome[Id] = "open" /\ Outcome' = Outcome
  <2>1. ~Closed(Id)
    BY DEF Base, Working, Closed
  <2> QED BY <2>1, OpenInHand DEF Outcome
<1>3. /\ mails' \in [Offsets -> [Users -> Nat]] /\ mails'[Id][Party] = mails[Id][Party] + 1
      /\ \A j \in Offsets, u \in Users : j # Id \/ u # Party => mails'[j][u] = mails[j][u]
  BY <1>1, MailSent
<1>4. Mailed' = [Mailed EXCEPT ![Id] = @ \cup {Party}]
  <2>1. ASSUME NEW j \in Offsets, j # Id PROVE Mailed'[j] = Mailed[j]
    BY <1>3, <2>1 DEF Mailed
  <2>2. Mailed'[Id] = Mailed[Id] \cup {Party}
    <3>1. mails[Id][Party] \in Nat
      BY <1>1
    <3>2. \A u \in Users : mails'[Id][u] > 0 <=> mails[Id][u] > 0 \/ u = Party
      BY <1>1, <1>3, <3>1
    <3>3. Mailed[Id] = {u \in Users : mails[Id][u] > 0} /\ Mailed'[Id] = {u \in Users : mails'[Id][u] > 0}
      BY <1>1 DEF Mailed
    <3> QED BY <3>2, <3>3
  <2>3. Mailed' = [j \in Offsets |-> Mailed'[j]] /\ Mailed = [j \in Offsets |-> Mailed[j]]
    BY DEF Mailed
  <2> QED BY <1>1, <2>1, <2>2, <2>3
<1>5. ASSUME NEW i, i = Id, NEW p, p = Party PROVE Promise!AbstractNext
  <2>1. Promise!Mail(i, p)
    BY <1>1, <1>2, <1>4, <1>5 DEF Promise!Mail, Mailed
  <2>2. i \in 1 .. MaxLog["transfer"] /\ p \in Users
    BY <1>1, <1>5 DEF Offsets
  <2> QED BY <2>1, <2>2, Zenon DEF Promise!AbstractNext
<1> QED BY <1>5

\* Every step is a step of the promise, or invisible to it.
LEMMA NextPromise ==
    ASSUME Base, [Next]_vars
    PROVE  Promise!AbstractNext \/ UNCHANGED Promise!abstract
<1>1. ASSUME NEW t \in Topics, PublishEvent(t)
      PROVE  Promise!AbstractNext \/ UNCHANGED Promise!abstract
  <2>1. PICK m : log' = [log EXCEPT ![t] = Append(@, m)]
    BY <1>1 DEF PublishEvent
  <2>2. /\ Len(log[t]) < MaxLog[t] /\ UNCHANGED <<committed, barrier, base, mails>>
        /\ log \in [Topics -> Seq(Messages)] /\ "transfer" \in Topics
    BY <1>1 DEF PublishEvent, history, Base, Types, Topics
  <2>3. CASE t = "transfer"
    <3>1. log'["transfer"] = Append(log["transfer"], m) /\ log["transfer"] \in Seq(Messages)
      BY <2>1, <2>2, <2>3
    <3>2. Len(log'["transfer"]) = Len(log["transfer"]) + 1
      BY <3>1
    <3>3. Promise!Publish
      BY <2>2, <2>3, <3>2 DEF Promise!Publish, Outcome
    <3> QED BY <3>3 DEF Promise!AbstractNext
  <2>4. CASE t # "transfer"
    <3>1. log'["transfer"] = log["transfer"]
      BY <2>1, <2>2, <2>4
    <3> QED BY <2>2, <3>1, QuietPromise
  <2> QED BY <2>3, <2>4
<1>2. ASSUME NEW t \in Projections, Project(t) PROVE UNCHANGED Promise!abstract
  BY <1>2, ProjectBase, QuietPromise
<1>3. CASE \/ runTransferEventsConsumer \/ RejectMessage \/ DatabaseError
           \/ waitForContactByAccountID \/ handleTransferMessageWithRetry \/ BudgetExpires
           \/ sendToDLQ \/ Drain \/ Exit \/ Crash \/ UNCHANGED vars
           \/ \E s \in {"postgres", "smtp"} : Outage(s) \/ Recover(s)
  <2>1. UNCHANGED <<log, committed, barrier, base, mails>>
    BY <1>3 DEF runTransferEventsConsumer, RejectMessage, DatabaseError,
         waitForContactByAccountID, handleTransferMessageWithRetry, BudgetExpires, sendToDLQ,
         Drain, Exit, Crash, Outage, Recover, vars, kafka, consumers, history
  <2> QED BY <2>1, QuietPromise
<1>4. CASE Claim
  <2>1. /\ UNCHANGED <<log, committed, base, mails>> /\ task.at = "process"
        /\ barrier' = [barrier EXCEPT !["transfer"][Id] =
                         IF barrier["transfer"][Id] = None THEN "processing"
                         ELSE barrier["transfer"][Id]]
    BY <1>4 DEF Claim, kafka, history
  <2>2. Id \in Offsets /\ Id \in 1 .. MaxLog["transfer"] /\ Rows /\ barrier["transfer"][Id] \in Marks
    BY <2>1, InHand DEF Base, Types, Rows, Offsets, Topics
  <2>3. PICK m \in Marks : /\ barrier' = [barrier EXCEPT !["transfer"][Id] = m]
                           /\ m = IF barrier["transfer"][Id] = None THEN "processing"
                                  ELSE barrier["transfer"][Id]
    BY <2>1, <2>2 DEF Marks
  <2>4. /\ barrier'["transfer"][Id] = m
        /\ \A j \in Offsets : j # Id => barrier'["transfer"][j] = barrier["transfer"][j]
    BY <2>2, <2>3, TransferRow DEF Offsets
  <2>5. Outcome' = Outcome
    BY <2>1, <2>2, <2>3, <2>4, NotificationsAssumption DEF Outcome
  <2> QED BY <2>1, <2>5 DEF Promise!abstract
<1>5. CASE sendEmailWithRetry
  <2>1. CASE UNCHANGED mails
    BY <2>1, <1>5, MailTurn, QuietPromise
  <2>2. CASE mails' = [mails EXCEPT ![Id][Party] = @ + 1]
    BY <1>5, <2>2, MailTurn, MailPromise
  <2> QED BY <1>5, <2>1, <2>2, MailTurn
<1>6. CASE finishTransferEvent
  <2>1. /\ UNCHANGED <<log, committed, base, mails>> /\ task.at = "finish" /\ task \in Task
        /\ barrier' = [barrier EXCEPT !["transfer"][Id] = IF task.sent = 0 THEN "skipped" ELSE "sent"]
    BY <1>6 DEF finishTransferEvent, kafka, history, Base, Types
  <2>2. /\ ~Closed(Id) /\ (task.sent > 0 => \E u \in Users : mails[Id][u] > 0)
    BY <2>1 DEF Base, Working, Closed
  <2>3. task.sent \in Nat
    BY <2>1 DEF Task
  <2>4. CASE task.sent = 0
    <3>1. barrier' = [barrier EXCEPT !["transfer"][Id] = "skipped"]
      BY <2>1, <2>4
    <3> QED BY <2>1, <3>1, ClosePromise
  <2>5. CASE task.sent # 0
    <3>1. barrier' = [barrier EXCEPT !["transfer"][Id] = "sent"] /\ task.sent > 0
      BY <2>1, <2>3, <2>5
    <3> QED BY <2>1, <2>2, <3>1, ClosePromise
  <2> QED BY <2>4, <2>5
<1>7. CASE finishEvent
  <2>1. /\ UNCHANGED <<log, committed, base, mails>> /\ task.at = "close"
        /\ barrier' = [barrier EXCEPT !["transfer"][Id] =
                         IF Msg.type \in Known /\ "postgres" \in up /\ barrier["transfer"][Id] # None
                         THEN "skipped" ELSE barrier["transfer"][Id]]
    BY <1>7 DEF finishEvent, kafka, history
  <2>2. CASE Msg.type \in Known /\ "postgres" \in up /\ barrier["transfer"][Id] # None
    <3>1. barrier' = [barrier EXCEPT !["transfer"][Id] = "skipped"]
      BY <2>1, <2>2
    <3> QED BY <2>1, <3>1, ClosePromise
  <2>3. CASE ~(Msg.type \in Known /\ "postgres" \in up /\ barrier["transfer"][Id] # None)
    <3>1. Id \in 1 .. MaxLog["transfer"] /\ Rows /\ barrier["transfer"][Id] \in Marks
          /\ barrier["transfer"] \in [1 .. MaxLog["transfer"] -> Marks]
      BY <2>1, InHand DEF Base, Types, Rows, Offsets, Topics
    <3>2. barrier' = [barrier EXCEPT !["transfer"][Id] = barrier["transfer"][Id]]
      BY <2>1, <2>3
    <3>3. /\ \A j \in 1 .. MaxLog["transfer"] : barrier'["transfer"][j] = barrier["transfer"][j]
      BY <3>1, <3>2, TransferRow
    <3>4. Outcome' = Outcome
      BY <2>1, <3>3 DEF Outcome, Offsets
    <3> QED BY <2>1, <3>4 DEF Promise!abstract
  <2> QED BY <2>2, <2>3
<1>8. CASE CommitTransfer
  <2>1. /\ UNCHANGED <<log, barrier, base, mails>> /\ task.at = "commit"
        /\ committed' = [committed EXCEPT !["transfer"] = pos["transfer"]] \/ UNCHANGED committed
    BY <1>8 DEF CommitTransfer, commitMessage, history
  <2>2. CASE UNCHANGED committed
    BY <2>1, <2>2, QuietPromise
  <2>3. CASE committed' = [committed EXCEPT !["transfer"] = pos["transfer"]]
    <3>1. /\ committed'["transfer"] = pos["transfer"] /\ pos["transfer"] \in Nat /\ base \in Nat
          /\ committed["transfer"] \in Nat \cup {-1} /\ committed["transfer"] <= pos["transfer"]
          /\ pos["transfer"] <= Len(log["transfer"])
      BY <2>3 DEF Base, Types, Placed, Topics
    <3>2. \A i \in Offsets : (i <= base' \/ i <= committed'["transfer"])
                              <=> (i <= base \/ i <= committed["transfer"] \/ i <= pos["transfer"])
      BY <2>1, <3>1 DEF Offsets
    <3>3. ASSUME NEW n, n = pos["transfer"] PROVE Promise!AbstractNext \/ UNCHANGED Promise!abstract
      BY <2>1, <3>1, <3>2, <3>3, PassPromise
    <3> QED BY <3>3
  <2> QED BY <2>1, <2>2, <2>3
<1>9. CASE Start
  <2>1. /\ UNCHANGED <<log, committed, barrier, mails>>
        /\ base' = IF committed["transfer"] = -1 THEN Len(log["transfer"]) ELSE base
    BY <1>9 DEF Start
  <2>2. CASE committed["transfer"] # -1
    BY <2>1, <2>2, QuietPromise
  <2>3. CASE committed["transfer"] = -1
    <3>1. /\ base' = Len(log["transfer"]) /\ Len(log["transfer"]) \in Nat /\ base \in Nat
          /\ base <= Len(log["transfer"])
      <4>1. /\ pos["transfer"] \in Nat /\ Len(log["transfer"]) \in Nat /\ base \in Nat
            /\ base <= pos["transfer"] /\ pos["transfer"] <= Len(log["transfer"])
        BY DEF Base, Types, Placed, Topics
      <4> QED BY <2>1, <2>3, <4>1
    <3>2. \A i \in Offsets : (i <= base' \/ i <= committed'["transfer"])
                              <=> (i <= base \/ i <= committed["transfer"] \/ i <= Len(log["transfer"]))
      BY <2>1, <3>1 DEF Offsets
    <3>3. ASSUME NEW n, n = Len(log["transfer"]) PROVE Promise!AbstractNext \/ UNCHANGED Promise!abstract
      BY <2>1, <3>1, <3>2, <3>3, PassPromise
    <3> QED BY <3>3
  <2> QED BY <2>2, <2>3
<1> QED BY <1>1, <1>2, <1>3, <1>4, <1>5, <1>6, <1>7, <1>8, <1>9 DEF Next, Notify

\* The events before the first start are passed.
LEMMA InitPromise ==
    ASSUME Init
    PROVE  Promise!AbstractInit
<1>1. /\ log["transfer"] = Published /\ base = Len(Published)
      /\ committed["transfer"] \in {-1, Len(Published)}
      /\ barrier["transfer"] = [i \in 1 .. MaxLog["transfer"] |-> None]
      /\ mails = [i \in Offsets |-> [u \in Users |-> 0]]
  BY DEF Init, Topics
<1>2. Len(Published) \in Nat /\ Len(Published) <= MaxLog["transfer"] /\ MaxLog["transfer"] \in Nat
  BY NotificationsAssumption DEF Topics
<1>3. Len(log["transfer"]) \in 0 .. MaxLog["transfer"]
  BY <1>1, <1>2
<1>4. [i \in Offsets |-> {u \in Users : mails[i][u] > 0}] = [i \in 1 .. MaxLog["transfer"] |-> {}]
  BY <1>1 DEF Offsets
<1>5. Outcome = [i \in 1 .. MaxLog["transfer"] |-> IF i <= Len(log["transfer"]) THEN "passed" ELSE "open"]
  BY <1>1, <1>2, NotificationsAssumption DEF Outcome, Offsets
<1> QED BY <1>3, <1>4, <1>5 DEF Promise!AbstractInit

\* notifications-svc keeps AtLeastOnce's promise for any number of messages,
\* users, crashes, redeliveries and outages: nobody is mailed about an event that
\* is closed or left behind, and 'sent' is never written without a mail.
THEOREM ConsumerIsAtLeastOnce == Spec => ImplementsAtLeastOnce
<1>1. Init => Promise!AbstractInit
  BY InitPromise
<1>2. Base /\ [Next]_vars => [Promise!AbstractNext]_(Promise!abstract)
  BY NextPromise
<1> QED BY <1>1, <1>2, SpecBase, PTL DEF Spec, ImplementsAtLeastOnce, Promise!AbstractSpec
-----------------------------------------------------------------------------
(***************************************************************************)
(* Dead letters.                                                           *)
(***************************************************************************)

\* The attempts are counted right, and what is in the topic was.
LEMMA NextEarned ==
    ASSUME Base, Counted, DeadLettersAreEarned, [Next]_vars
    PROVE  Counted' /\ DeadLettersAreEarned'
<1>1. task \in Task /\ task.own \in Nat /\ task.attempt \in Nat /\ task.budget \in Nat
  BY DEF Base, Types, Task
<1>2. ASSUME UNCHANGED <<task, dlq>> PROVE Counted' /\ DeadLettersAreEarned'
  BY <1>2 DEF Counted, DeadLettersAreEarned, Outlasted
<1>3. ASSUME UNCHANGED dlq, task'.at \in {"fetch", "commit", "close"}
      PROVE  Counted' /\ DeadLettersAreEarned'
  BY <1>3 DEF Counted, DeadLettersAreEarned
<1>4. ASSUME UNCHANGED dlq, task.at \in {"process", "find", "mail", "finish"},
             task'.at \in {"find", "mail", "finish"},
             task'.attempt = task.attempt, task'.own = task.own
      PROVE  Counted' /\ DeadLettersAreEarned'
  BY <1>4 DEF Counted, DeadLettersAreEarned
<1>5. ASSUME NEW e \in {"connect", "malformed", "refused"}, Failed(e), UNCHANGED dlq,
             task.at \in {"process", "find", "mail", "finish"}
      PROVE  Counted' /\ DeadLettersAreEarned'
  <2>1. /\ task'.at = "judge" /\ task'.err = e /\ task'.attempt = task.attempt
        /\ task'.own = IF e = "connect" THEN task.own ELSE task.own + 1
    BY <1>5, FailedFacts
  <2>2. task.attempt = task.own + 1
    BY <1>5 DEF Counted
  <2> QED BY <1>1, <1>5, <2>1, <2>2 DEF Counted, DeadLettersAreEarned
<1>6. CASE runTransferEventsConsumer
  <2>1. task' = [NoTask EXCEPT !.at = "process"] /\ UNCHANGED dlq
    BY <1>6 DEF runTransferEventsConsumer
  <2>2. task'.at = "process" /\ task'.attempt = 1 /\ task'.own = 0
    BY <2>1 DEF NoTask
  <2> QED BY <2>1, <2>2 DEF Counted, DeadLettersAreEarned
<1>7. CASE RejectMessage
  BY <1>5, <1>7 DEF RejectMessage
<1>8. CASE DatabaseError
  BY <1>5, <1>8 DEF DatabaseError
<1>9. CASE Claim
  <2>1. PICK at \in {"find", "commit"} : task' = [task EXCEPT !.at = at]
    BY <1>9 DEF Claim
  <2>2. /\ task'.at = at /\ task'.attempt = task.attempt /\ task'.own = task.own
        /\ UNCHANGED dlq /\ task.at = "process"
    BY <1>1, <1>9, <2>1, TaskMoved DEF Claim, Stages
  <2> QED BY <1>3, <1>4, <2>2
<1>10. CASE waitForContactByAccountID
  <2>1. UNCHANGED dlq /\ task.at = "find"
    BY <1>10 DEF waitForContactByAccountID
  <2>2. CASE Failed("malformed")
    BY <1>5, <2>1, <2>2
  <2>3. CASE ~Failed("malformed")
    <3>1. PICK at \in {"find", "mail"} : \E k, found :
            task' = [task EXCEPT !.at = at, !.k = k, !.found = found]
      BY <1>10, <2>3 DEF waitForContactByAccountID
    <3>2. task'.at = at /\ task'.attempt = task.attempt /\ task'.own = task.own
      BY <1>1, <3>1 DEF Task
    <3> QED BY <1>4, <2>1, <3>2
  <2> QED BY <2>2, <2>3
<1>11. CASE sendEmailWithRetry
  <2>1. UNCHANGED dlq /\ task.at = "mail"
    BY <1>11, MailTurn
  <2>2. \/ Failed("connect") \/ Failed("refused")
        \/ /\ task'.at \in {"mail", "finish"} /\ task'.attempt = task.attempt
           /\ task'.own = task.own
    BY <1>11, MailTurn
  <2> QED BY <1>4, <1>5, <2>1, <2>2
<1>12. CASE finishTransferEvent \/ finishEvent
  <2>1. task' = [task EXCEPT !.at = "commit"] /\ UNCHANGED dlq
    BY <1>12 DEF finishTransferEvent, finishEvent
  <2> QED BY <1>1, <1>3, <2>1, TaskMoved DEF Stages
<1>13. CASE handleTransferMessageWithRetry
  <2>1. UNCHANGED dlq /\ task.at = "judge"
    BY <1>13 DEF handleTransferMessageWithRetry
  <2>2. ASSUME NEW spent \in {0, 1}, NEW waited \in {0, 1}, task.budget >= waited,
               task' = Retry(spent, waited), task.attempt + spent = task.own + 1
        PROVE  Counted' /\ DeadLettersAreEarned'
    <3>1. task'.at = "process" /\ task'.attempt = task.attempt + spent /\ task'.own = task.own
      BY <2>2 DEF Retry, NoTask
    <3> QED BY <2>1, <2>2, <3>1 DEF Counted, DeadLettersAreEarned
  <2>3. ASSUME task' = [task EXCEPT !.at = "dlq"], task.own >= MaxAttempts \/ Outlasted
        PROVE  Counted' /\ DeadLettersAreEarned'
    <3>1. /\ task'.at = "dlq" /\ task'.own = task.own /\ task'.err = task.err
          /\ task'.budget = task.budget
      BY <1>1, <2>3, TaskMoved DEF Stages
    <3> QED BY <2>1, <2>3, <3>1 DEF Counted, DeadLettersAreEarned, Outlasted
  <2>4. CASE IsUnavailable(task.err)
    <3>1. task.attempt = task.own + 1 /\ task.err = "connect"
      BY <2>1, <2>4 DEF Counted, IsUnavailable
    <3>2. \/ task.budget > 0 /\ task' = Retry(0, 1)
          \/ task.budget = 0 /\ task' = [task EXCEPT !.at = "dlq"]
      BY <1>13, <2>4 DEF handleTransferMessageWithRetry
    <3> QED BY <1>1, <2>2, <2>3, <3>1, <3>2 DEF Outlasted
  <2>5. CASE ~IsUnavailable(task.err)
    <3>1. task.attempt = task.own
      BY <2>1, <2>5 DEF Counted, IsUnavailable
    <3>2. \/ task' = Retry(1, 0)
          \/ ~(task.attempt < MaxAttempts) /\ task' = [task EXCEPT !.at = "dlq"]
      BY <1>13, <2>5 DEF handleTransferMessageWithRetry
    <3>3. ~(task.attempt < MaxAttempts) => task.own >= MaxAttempts
      BY <1>1, <3>1, NotificationsAssumption
    <3> QED BY <1>1, <2>2, <2>3, <3>1, <3>2, <3>3
  <2> QED BY <2>4, <2>5
<1>14. CASE BudgetExpires
  <2>1. UNCHANGED dlq /\ task.at = "judge" /\ task' = [task EXCEPT !.budget = 0]
    BY <1>14 DEF BudgetExpires
  <2>2. /\ task'.at = "judge" /\ task'.err = task.err /\ task'.attempt = task.attempt
        /\ task'.own = task.own
    BY <1>1, <2>1 DEF Task
  <2> QED BY <2>1, <2>2 DEF Counted, DeadLettersAreEarned
<1>15. CASE sendToDLQ
  <2>1. /\ task' = [task EXCEPT !.at = "close"]
        /\ \E stored \in BOOLEAN :
             dlq' = dlq \cup {[id |-> Id, own |-> task.own, outlasted |-> Outlasted,
                               stored |-> stored]}
        /\ task.at = "dlq"
    BY <1>15 DEF sendToDLQ
  <2>2. task'.at = "close"
    BY <1>1, <2>1, TaskMoved DEF Stages
  <2>3. task.own >= MaxAttempts \/ Outlasted
    BY <2>1 DEF Counted
  <2> QED BY <2>1, <2>2, <2>3 DEF Counted, DeadLettersAreEarned
<1>16. CASE CommitTransfer \/ Crash
  BY <1>3, <1>16, TaskFree DEF CommitTransfer, Crash
<1>17. CASE \/ Drain \/ Exit \/ Start \/ UNCHANGED vars
            \/ \E s \in {"postgres", "smtp"} : Outage(s) \/ Recover(s)
            \/ \E t \in Topics : PublishEvent(t)
  BY <1>2, <1>17 DEF Drain, Exit, Start, Outage, Recover, PublishEvent, vars, consumers
<1>18. ASSUME NEW t \in Projections, Project(t) PROVE Counted' /\ DeadLettersAreEarned'
  BY <1>2, <1>18, ProjectBase
<1> QED BY <1>6, <1>7, <1>8, <1>9, <1>10, <1>11, <1>12, <1>13, <1>14, <1>15, <1>16, <1>17, <1>18
        DEF Next, Notify

\* For any budget and number of attempts: what reaches the dead letter topic
\* failed MaxAttempts times for reasons of its own, or an outage outlasted the
\* whole budget.
THEOREM DeadLettersEarnIt == Spec => []DeadLettersAreEarned
<1>1. Init => Counted /\ DeadLettersAreEarned
  BY TaskFree DEF Init, Counted, DeadLettersAreEarned
<1>2. Base /\ Counted /\ DeadLettersAreEarned /\ [Next]_vars => Counted' /\ DeadLettersAreEarned'
  BY NextEarned
<1> QED BY <1>1, <1>2, SpecBase, PTL DEF Spec

-----------------------------------------------------------------------------
(***************************************************************************)
(* Duplicates.                                                             *)
(***************************************************************************)

\* Both halves of the argument about repeated mails.
MailsCounted == Repeated /\ DuplicatesNeedFaults

\* A step that neither mails nor moves the attempt into or out of the mails.
LEMMA QuietMails ==
    ASSUME Base, MailsCounted, UNCHANGED <<task, mails, redone>>,
           barrier'["transfer"] = barrier["transfer"], pos'["transfer"] = pos["transfer"],
           \A i \in 1 .. Len(log["transfer"]) : log'["transfer"][i] = log["transfer"][i]
    PROVE  MailsCounted'
<1>1. DuplicatesNeedFaults' /\ UNCHANGED Id
  BY DEF MailsCounted, DuplicatesNeedFaults, Id
<1>2. task.at # "fetch" => Msg' = Msg
  BY <1>1, InHand DEF Msg, Current, Id
<1> QED BY <1>1, <1>2 DEF MailsCounted, Repeated, Closed, Mailing

\* The attempt ended, or stays outside the mails, and no closed row opened.
LEMMA NoMails ==
    ASSUME Base, MailsCounted, UNCHANGED <<mails, redone>>,
           task.at \notin {"mail", "finish"}, task'.at \notin {"mail", "finish"},
           \A i \in Offsets : Closed(i) => Closed(i)'
    PROVE  MailsCounted'
  BY DEF MailsCounted, Repeated, DuplicatesNeedFaults, Mailing

\* A failed or lost attempt makes room for one more mail.
LEMMA LostMails ==
    ASSUME Base, MailsCounted, task.at # "fetch", UNCHANGED <<barrier, mails>>,
           task'.at \notin {"mail", "finish"},
           redone' = [redone EXCEPT ![Id] = @ + 1]
    PROVE  MailsCounted'
<1>1. /\ redone \in [Offsets -> Nat] /\ mails \in [Offsets -> [Users -> Nat]] /\ Id \in Offsets
  BY InHand DEF Base, Types
<1>2. /\ redone'[Id] = redone[Id] + 1 /\ \A i \in Offsets : i # Id => redone'[i] = redone[i]
      /\ \A i \in Offsets : redone[i] \in Nat /\ redone'[i] \in Nat
      /\ \A i \in Offsets, u \in Users : mails[i][u] \in Nat
  BY <1>1
<1>3. DuplicatesNeedFaults'
  BY <1>1, <1>2 DEF MailsCounted, DuplicatesNeedFaults
<1>4. ASSUME NEW i \in Offsets, NEW u \in Users, ~Closed(i) PROVE mails[i][u] <= redone'[i]
  <2>1. CASE i = Id
    BY <1>1, <1>2, <2>1 DEF MailsCounted, DuplicatesNeedFaults
  <2>2. CASE i # Id
    BY <1>2, <1>4, <2>2 DEF MailsCounted, Repeated, Mailing
  <2> QED BY <2>1, <2>2
<1>5. Repeated'
  BY <1>4 DEF Repeated, Closed
<1> QED BY <1>3, <1>5 DEF MailsCounted

\* The first party's turn comes.
LEMMA FirstMail ==
    ASSUME Base, MailsCounted, UNCHANGED <<log, pos, barrier, mails, redone>>, task.at = "find",
           task'.at \in {"find", "mail"}
    PROVE  MailsCounted'
<1>1. UNCHANGED <<Id, Msg>> /\ Id \in Offsets /\ ~Closed(Id)
  BY InHand DEF Id, Msg, Current, Base, Working, Closed
<1>2. \A u \in Users : mails[Id][u] <= redone[Id]
  BY <1>1 DEF MailsCounted, Repeated, Mailing
<1> QED BY <1>1, <1>2 DEF MailsCounted, Repeated, Closed, Mailing, DuplicatesNeedFaults

\* A party's turn: who was mailed in this attempt has one mail more than the
\* failures explain, and nobody comes up twice.
LEMMA NextMail ==
    ASSUME Base, MailsCounted, sendEmailWithRetry, UNCHANGED redone,
           task' \in Task, task'.at \in {"mail", "finish"},
           task'.at = "mail" => task'.k = task.k + 1,
           UNCHANGED mails \/ mails' = [mails EXCEPT ![Id][Party] = @ + 1]
    PROVE  MailsCounted'
<1>1. /\ UNCHANGED <<log, pos, barrier>> /\ UNCHANGED <<Id, Msg>>
      /\ task.at = "mail" /\ Msg.type \in Known /\ ~Msg.corrupt
      /\ task.k \in 1 .. Len(processTransferMessage(Msg)) /\ Party \in Users
  BY MailTurn DEF Id, Msg, Current
<1>2. /\ Id \in Offsets /\ Msg \in Wire /\ mails \in [Offsets -> [Users -> Nat]]
      /\ redone \in [Offsets -> Nat]
  BY <1>1, InHand DEF Base, Types
<1>3. /\ Len(processTransferMessage(Msg)) \in Nat
      /\ \A j \in 1 .. task.k - 1 : processTransferMessage(Msg)[j] # Party
  BY <1>1, <1>2, PartyFacts DEF Party
<1>4. mails[Id][Party] <= redone[Id]
  BY <1>1, <1>3 DEF MailsCounted, Repeated
<1>5. /\ \A j \in Offsets, u \in Users : j # Id \/ u # Party => mails'[j][u] = mails[j][u]
      /\ mails'[Id][Party] <= redone[Id] + 1
  <2>1. mails[Id][Party] \in Nat /\ redone[Id] \in Nat
    BY <1>1, <1>2
  <2>2. CASE UNCHANGED mails
    BY <1>4, <2>1, <2>2
  <2>3. CASE mails' = [mails EXCEPT ![Id][Party] = @ + 1]
    <3>1. /\ mails'[Id][Party] = mails[Id][Party] + 1
          /\ \A j \in Offsets, u \in Users : j # Id \/ u # Party => mails'[j][u] = mails[j][u]
      BY <1>1, <1>2, <2>3, MailSent
    <3> QED BY <1>4, <2>1, <3>1
  <2> QED BY <2>2, <2>3
<1>6. DuplicatesNeedFaults'
  <2>1. ASSUME NEW j \in Offsets, NEW u \in Users PROVE mails'[j][u] <= 1 + redone[j]
    <3>1. CASE j = Id /\ u = Party
      BY <1>2, <1>5, <3>1
    <3>2. CASE ~(j = Id /\ u = Party)
      BY <1>5, <3>2 DEF MailsCounted, DuplicatesNeedFaults
    <3> QED BY <3>1, <3>2
  <2> QED BY <2>1 DEF DuplicatesNeedFaults
<1>7. ASSUME NEW i \in Offsets, NEW u \in Users, ~Closed(i), i # Id PROVE mails'[i][u] <= redone[i]
  BY <1>5, <1>7 DEF MailsCounted, Repeated, Mailing
<1>8. ASSUME task'.at = "mail", NEW u \in Users,
             \A j \in 1 .. task'.k - 1 : processTransferMessage(Msg)[j] # u
      PROVE  mails'[Id][u] <= redone[Id]
  <2>1. task'.k = task.k + 1 /\ task.k \in Nat /\ task.k >= 1
    BY <1>1, <1>3, <1>8
  <2>2. task.k \in 1 .. task'.k - 1 /\ \A j \in 1 .. task.k - 1 : j \in 1 .. task'.k - 1
    BY <2>1
  <2>3. u # Party /\ \A j \in 1 .. task.k - 1 : processTransferMessage(Msg)[j] # u
    BY <1>8, <2>2 DEF Party
  <2>4. mails[Id][u] <= redone[Id]
    BY <1>1, <2>3 DEF MailsCounted, Repeated
  <2> QED BY <1>2, <1>5, <2>3, <2>4
<1>9. Repeated'
  BY <1>1, <1>7, <1>8 DEF Repeated, Closed, Mailing
<1> QED BY <1>6, <1>9 DEF MailsCounted

\* A row of the current event that is written stays closed if it was, and is
\* closed when the new mark is terminal.
LEMMA RowsStayClosed ==
    ASSUME Base, task.at # "fetch", NEW m \in Marks,
           barrier' = [barrier EXCEPT !["transfer"][Id] = m],
           Closed(Id) => m \in {"sent", "skipped"}
    PROVE  /\ \A i \in Offsets : Closed(i) => Closed(i)'
           /\ m \in {"sent", "skipped"} => barrier'["transfer"][Id] \in {"sent", "skipped"}
           /\ \A i \in Offsets : i # Id => barrier'["transfer"][i] = barrier["transfer"][i]
<1>1. Id \in 1 .. MaxLog["transfer"] /\ Rows
  BY InHand DEF Base, Types, Offsets
<1>2. /\ barrier'["transfer"][Id] = m
      /\ \A j \in Offsets : j # Id => barrier'["transfer"][j] = barrier["transfer"][j]
  BY <1>1, TransferRow DEF Offsets
<1>3. ASSUME NEW i \in Offsets, Closed(i) PROVE barrier'["transfer"][i] \in {"sent", "skipped"}
  <2>1. CASE i = Id
    BY <1>2, <1>3, <2>1
  <2>2. CASE i # Id
    BY <1>2, <1>3, <2>2 DEF Closed
  <2> QED BY <2>1, <2>2
<1> QED BY <1>2, <1>3 DEF Closed

\* Each step keeps the count.
LEMMA NextMailsCounted ==
    ASSUME Base, MailsCounted, [Next]_vars
    PROVE  MailsCounted'
<1>1. /\ task \in Task /\ Rows /\ "transfer" \in Topics /\ pos \in [Topics -> Nat]
  BY DEF Base, Types, Topics
<1>2. ASSUME NEW e \in {"connect", "malformed", "refused"}, Failed(e),
             task.at # "fetch", UNCHANGED <<barrier, mails>>
      PROVE  MailsCounted'
  <2>1. task'.at = "judge" /\ redone' = [redone EXCEPT ![Id] = @ + 1]
    BY <1>2, FailedFacts DEF Failed
  <2> QED BY <1>2, <2>1, LostMails
<1>3. ASSUME NEW t \in Topics, PublishEvent(t) PROVE MailsCounted'
  <2>1. /\ UNCHANGED <<task, mails, redone, barrier, pos>>
        /\ \E m : log' = [log EXCEPT ![t] = Append(@, m)]
    BY <1>3 DEF PublishEvent, consumers, history
  <2>2. log \in [Topics -> Seq(Messages)]
    BY DEF Base, Types
  <2>3. \A i \in 1 .. Len(log["transfer"]) : log'["transfer"][i] = log["transfer"][i]
    <3>1. PICK m : log' = [log EXCEPT ![t] = Append(@, m)]
      BY <2>1
    <3>2. CASE t = "transfer"
      <4>1. log["transfer"] \in Seq(Messages) /\ log'["transfer"] = Append(log["transfer"], m)
        BY <1>1, <2>2, <3>1, <3>2
      <4> QED BY <4>1
    <3>3. CASE t # "transfer"
      BY <1>1, <2>2, <3>1, <3>3
    <3> QED BY <3>2, <3>3
  <2> QED BY <2>1, <2>3, QuietMails
<1>4. ASSUME NEW t \in Projections, Project(t) PROVE MailsCounted'
  BY <1>4, ProjectBase, QuietMails
<1>5. CASE \/ Drain \/ Exit \/ UNCHANGED vars
           \/ \E s \in {"postgres", "smtp"} : Outage(s) \/ Recover(s)
  <2>1. UNCHANGED <<log, pos, task, barrier, mails, redone>>
    BY <1>5 DEF Drain, Exit, Outage, Recover, vars, kafka, consumers, history
  <2> QED BY <2>1, QuietMails
<1>6. CASE Start
  <2>1. UNCHANGED <<task, barrier, mails, redone>> /\ task.at = "fetch"
    BY <1>6 DEF Start, consumers, Base, Placed
  <2> QED BY <2>1, NoMails DEF Closed
<1>7. CASE runTransferEventsConsumer
  <2>1. /\ UNCHANGED <<barrier, mails, redone>> /\ task.at = "fetch"
        /\ task' = [NoTask EXCEPT !.at = "process"]
    BY <1>7 DEF runTransferEventsConsumer, history
  <2>2. task'.at = "process"
    BY <2>1 DEF NoTask
  <2> QED BY <2>1, <2>2, NoMails DEF Closed
<1>8. CASE RejectMessage
  BY <1>2, <1>8 DEF RejectMessage
<1>9. CASE DatabaseError
  BY <1>2, <1>9 DEF DatabaseError
<1>10. CASE Claim
  <2>1. /\ UNCHANGED <<mails, redone>> /\ task.at = "process"
        /\ barrier' = [barrier EXCEPT !["transfer"][Id] =
                         IF barrier["transfer"][Id] = None THEN "processing"
                         ELSE barrier["transfer"][Id]]
        /\ \E at \in {"find", "commit"} : task' = [task EXCEPT !.at = at]
    BY <1>10 DEF Claim, history
  <2>2. task'.at \in {"find", "commit"}
    BY <1>1, <2>1 DEF Task
  <2>3. Id \in 1 .. MaxLog["transfer"] /\ barrier["transfer"][Id] \in Marks
    BY <1>1, <2>1, InHand DEF Rows, Offsets
  <2>4. PICK m \in Marks : /\ barrier' = [barrier EXCEPT !["transfer"][Id] = m]
                           /\ m = IF barrier["transfer"][Id] = None THEN "processing"
                                  ELSE barrier["transfer"][Id]
    BY <2>1, <2>3 DEF Marks
  <2>5. Closed(Id) => m \in {"sent", "skipped"}
    BY <2>4, NotificationsAssumption DEF Closed
  <2>6. \A i \in Offsets : Closed(i) => Closed(i)'
    BY <2>1, <2>4, <2>5, RowsStayClosed
  <2> QED BY <2>1, <2>2, <2>6, NoMails
<1>11. CASE waitForContactByAccountID
  <2>1. UNCHANGED <<log, pos, barrier, mails>> /\ task.at = "find"
    BY <1>11 DEF waitForContactByAccountID, kafka
  <2>2. CASE Failed("malformed")
    BY <1>2, <2>1, <2>2
  <2>3. CASE ~Failed("malformed")
    <3>1. /\ UNCHANGED redone
          /\ \E at \in {"find", "mail"} : \E k, found :
               task' = [task EXCEPT !.at = at, !.k = k, !.found = found]
      BY <1>11, <2>3 DEF waitForContactByAccountID
    <3>2. task'.at \in {"find", "mail"}
      BY <1>1, <3>1 DEF Task
    <3> QED BY <2>1, <3>1, <3>2, FirstMail
  <2> QED BY <2>2, <2>3
<1>12. CASE sendEmailWithRetry
  <2>1. UNCHANGED barrier /\ task.at = "mail"
    BY <1>12, MailTurn
  <2>2. CASE UNCHANGED mails /\ (Failed("connect") \/ Failed("refused"))
    BY <1>2, <2>1, <2>2
  <2>3. CASE ~(UNCHANGED mails /\ (Failed("connect") \/ Failed("refused")))
    BY <1>12, <2>3, MailTurn, NextMail
  <2> QED BY <2>2, <2>3
<1>13. CASE finishTransferEvent
  <2>1. /\ UNCHANGED <<mails, redone>> /\ task.at = "finish"
        /\ \E m \in {"sent", "skipped"} : barrier' = [barrier EXCEPT !["transfer"][Id] = m]
        /\ task' = [task EXCEPT !.at = "commit"]
    BY <1>13 DEF finishTransferEvent, history
  <2>2. PICK m \in {"sent", "skipped"} : barrier' = [barrier EXCEPT !["transfer"][Id] = m]
    BY <2>1
  <2>3. task'.at = "commit" /\ m \in Marks
    BY <1>1, <2>1 DEF Task, Marks
  <2>4. /\ barrier'["transfer"][Id] \in {"sent", "skipped"}
        /\ \A i \in Offsets : i # Id => barrier'["transfer"][i] = barrier["transfer"][i]
    BY <2>1, <2>2, <2>3, RowsStayClosed
  <2>5. ASSUME NEW i \in Offsets, NEW u \in Users,
               barrier'["transfer"][i] \notin {"sent", "skipped"}
        PROVE  mails[i][u] <= redone[i]
    <3>1. i # Id /\ ~Closed(i)
      BY <2>4, <2>5 DEF Closed
    <3> QED BY <3>1 DEF MailsCounted, Repeated, Mailing
  <2> QED BY <2>1, <2>3, <2>5 DEF MailsCounted, Repeated, DuplicatesNeedFaults, Closed
<1>14. CASE finishEvent
  <2>1. /\ UNCHANGED <<mails, redone>> /\ task.at = "close"
        /\ barrier' = [barrier EXCEPT !["transfer"][Id] =
                         IF Msg.type \in Known /\ "postgres" \in up /\ barrier["transfer"][Id] # None
                         THEN "skipped" ELSE barrier["transfer"][Id]]
        /\ task' = [task EXCEPT !.at = "commit"]
    BY <1>14 DEF finishEvent, history
  <2>2. task'.at = "commit"
    BY <1>1, <2>1 DEF Task
  <2>3. Id \in 1 .. MaxLog["transfer"] /\ barrier["transfer"][Id] \in Marks
    BY <1>1, <2>1, InHand DEF Rows, Offsets
  <2>4. PICK m \in Marks : /\ barrier' = [barrier EXCEPT !["transfer"][Id] = m]
                           /\ m \in {"skipped", barrier["transfer"][Id]}
    BY <2>1, <2>3 DEF Marks
  <2>5. Closed(Id) => m \in {"sent", "skipped"}
    BY <2>4 DEF Closed
  <2>6. \A i \in Offsets : Closed(i) => Closed(i)'
    BY <2>1, <2>4, <2>5, RowsStayClosed
  <2> QED BY <2>1, <2>2, <2>6, NoMails
<1>15. CASE handleTransferMessageWithRetry \/ BudgetExpires \/ sendToDLQ \/ CommitTransfer
  <2>1. /\ UNCHANGED <<barrier, mails, redone>> /\ task.at \in {"judge", "dlq", "commit"}
        /\ \/ \E spent, waited : task' = Retry(spent, waited)
           \/ \E at \in {"dlq", "close"} : task' = [task EXCEPT !.at = at]
           \/ task.at = "judge" /\ task' = [task EXCEPT !.budget = 0]
           \/ task' = NoTask
    BY <1>15 DEF handleTransferMessageWithRetry, BudgetExpires, sendToDLQ, CommitTransfer, history
  <2>2. task'.at \in {"process", "dlq", "close", "judge", "fetch"}
    BY <1>1, <2>1, TaskFree DEF Task, Retry, NoTask
  <2> QED BY <2>1, <2>2, NoMails DEF Closed
<1>16. CASE Crash
  <2>1. /\ UNCHANGED <<barrier, mails>> /\ task'.at = "fetch"
        /\ redone' = IF task.at \in {"fetch", "commit"} THEN redone
                     ELSE [redone EXCEPT ![Id] = @ + 1]
    BY <1>16, TaskFree DEF Crash
  <2>2. CASE task.at \in {"fetch", "commit"}
    BY <2>1, <2>2, NoMails DEF Closed
  <2>3. CASE task.at \notin {"fetch", "commit"}
    BY <2>1, <2>3, LostMails
  <2> QED BY <2>2, <2>3
<1> QED BY <1>3, <1>4, <1>5, <1>6, <1>7, <1>8, <1>9, <1>10, <1>11, <1>12, <1>13, <1>14, <1>15, <1>16
        DEF Next, Notify

\* For any number of users, retries, crashes and lost commits: a party is
\* mailed once more at most than attempts at the event failed or died.
THEOREM DuplicatesAreEarned == Spec => []DuplicatesNeedFaults
<1>1. Init => MailsCounted
  <2> SUFFICES ASSUME Init PROVE MailsCounted
    OBVIOUS
  <2>1. /\ \A i \in Offsets, u \in Users : mails[i][u] = 0 /\ redone[i] = 0
        /\ task.at = "fetch"
    BY TaskFree DEF Init
  <2> QED BY <2>1 DEF MailsCounted, Repeated, DuplicatesNeedFaults
<1>2. Base /\ MailsCounted /\ [Next]_vars => MailsCounted'
  BY NextMailsCounted
<1>3. MailsCounted => DuplicatesNeedFaults
  BY DEF MailsCounted
<1> QED BY <1>1, <1>2, <1>3, SpecBase, PTL DEF Spec

-----------------------------------------------------------------------------
(***************************************************************************)
(* Contacts.                                                               *)
(***************************************************************************)

\* Where the consumer of user.events is.
LEMMA UserFacts ==
    ASSUME Base
    PROVE  /\ "user" \in Topics /\ "user" \in Projections /\ "transfer" \in Topics
           /\ log \in [Topics -> Seq(Messages)] /\ log["user"] \in Seq(Messages)
           /\ Len(log["user"]) \in Nat /\ DOMAIN log["user"] = 1 .. Len(log["user"])
           /\ pos["user"] \in Nat /\ pos["user"] <= Len(log["user"])
           /\ committed["user"] \in Nat \cup {-1} /\ committed["user"] <= pos["user"]
           /\ MaxLog["user"] \in Nat /\ Len(log["user"]) <= MaxLog["user"]
           /\ hold["user"] # "fetch" => pos["user"] >= 1 /\ proc # "down"
<1>1. "user" \in Topics /\ "user" \in Projections /\ "transfer" \in Topics
  BY DEF Topics, Projections
<1>2. log \in [Topics -> Seq(Messages)] /\ log["user"] \in Seq(Messages)
  BY <1>1 DEF Base, Types
<1> QED BY <1>1, <1>2, NotificationsAssumption DEF Base, Types, Logged, Placed

\* A step that leaves the topic and its consumer alone, and takes nothing from
\* a contact.
LEMMA FollowedKept ==
    ASSUME Base, Followed, contacts' \in [Users -> Contact],
           log'["user"] = log["user"], pos'["user"] = pos["user"],
           hold'["user"] = hold["user"], committed'["user"] = committed["user"],
           barrier'["user"] = barrier["user"], proc' # "down" => proc # "down",
           \A u \in Users : /\ contacts'[u].email = contacts[u].email
                            /\ contacts'[u].name = contacts[u].name,
           lapsed \subseteq lapsed'
    PROVE  Followed'
<1>1. NoLapse' => NoLapse
  BY DEF NoLapse
<1>2. \A i : Marked(i)' <=> Marked(i)
  BY DEF Marked
<1>3. \A i : Done(i) => Done(i)'
  BY DEF Done
<1>4. NoLapse /\ hold["user"] = "mark" => Done(pos["user"])'
  BY <1>3, ZenonT(40) DEF Followed, Done
<1> QED BY <1>1, <1>2, <1>3, <1>4 DEF Followed, Marked, Done

\* A new event of user.events is not marked yet.
LEMMA FollowedPublish ==
    ASSUME Base, Followed, NEW t \in Topics, PublishEvent(t)
    PROVE  Followed'
<1>1. PICK m \in CASE t = "user" -> UserEvents
                   [] t = "account" -> AccountEvents
                   [] t = "transfer" -> Transfers :
             log' = [log EXCEPT ![t] = Append(@, m)]
  BY DEF PublishEvent
<1>2. /\ UNCHANGED <<committed, pos, hold, contacts, barrier, proc, lapsed>>
      /\ contacts \in [Users -> Contact]
  BY DEF PublishEvent, consumers, history, Base, Types
<1>3. CASE t # "user"
  <2>1. log'["user"] = log["user"]
    BY <1>1, <1>3, UserFacts
  <2> QED BY <1>2, <2>1, FollowedKept
<1>4. CASE t = "user"
  <2> DEFINE n == Len(log["user"])
  <2>1. m \in UserEvents
    BY <1>1, <1>4
  <2>2. /\ log'["user"] = Append(log["user"], m) /\ n \in Nat
        /\ log["user"] \in Seq(Messages) /\ DOMAIN log["user"] = 1 .. n
    BY <1>1, <1>4, UserFacts
  <2>3. /\ Len(log'["user"]) = n + 1 /\ log'["user"][n + 1] = m
        /\ \A i \in 1 .. n : log'["user"][i] = log["user"][i]
        /\ DOMAIN log'["user"] = 1 .. n + 1
    BY <2>2
  <2>4. pos["user"] \in Nat /\ pos["user"] <= n /\ committed["user"] \in Nat \cup {-1}
        /\ committed["user"] <= pos["user"] /\ MaxLog["user"] \in Nat /\ n <= MaxLog["user"]
        /\ (hold["user"] # "fetch" => pos["user"] >= 1) /\ n < MaxLog["user"]
    BY <1>4, UserFacts DEF PublishEvent
  <2> HIDE DEF n
  <2>5. NoLapse' => NoLapse
    <3>1. \A i \in 1 .. n : i \in 1 .. n + 1
      BY <2>2
    <3>2. \A i \in DOMAIN log["user"] : i \in DOMAIN log'["user"]
      BY <2>2, <2>3, <3>1
    <3> QED BY <1>2, <3>2 DEF NoLapse
  <2>6. /\ \A i : Marked(i)' <=> Marked(i)
        /\ ~Marked(n + 1)
    BY <1>2, <2>2, <2>4 DEF Marked, Followed, n
  <2>7. \A i \in 1 .. n : Done(i) => Done(i)'
    BY <1>2, <2>3 DEF Done
  <2>8. ASSUME NEW i \in 1 .. n + 1, NEW u \in Users,
               log'["user"][i] = [type |-> "ProfileUpdated", user |-> u]
        PROVE  \E j \in 1 .. i - 1 : log'["user"][j] = [type |-> "UserActivated", user |-> u]
    <3>1. CASE i \in 1 .. n
      <4>1. PICK j \in 1 .. i - 1 : log["user"][j] = [type |-> "UserActivated", user |-> u]
        BY <2>3, <2>8, <3>1 DEF Followed, n
      <4>2. j \in 1 .. n
        BY <2>2, <3>1
      <4> QED BY <2>3, <4>1, <4>2
    <3>2. CASE i = n + 1
      <4>1. m = [type |-> "ProfileUpdated", user |-> u]
        BY <2>3, <2>8, <3>2
      <4>2. Activated(u)
        <5>1. PICK v \in Users : \/ m = [type |-> "UserActivated", user |-> v]
                                 \/ m = [type |-> "ProfileUpdated", user |-> v] /\ Activated(v)
          BY <2>1 DEF UserEvents
        <5> QED BY <4>1, <5>1
      <4>3. PICK j \in 1 .. n : log["user"][j] = [type |-> "UserActivated", user |-> u]
        BY <2>2, <4>2 DEF Activated
      <4>4. j \in 1 .. i - 1
        BY <2>2, <3>2
      <4> QED BY <2>3, <4>3, <4>4
    <3> QED BY <2>2, <3>1, <3>2
  <2>9. hold["user"] # "fetch" => pos["user"] \in 1 .. n
    BY <2>2, <2>4
  <2>10. /\ \A i \in 1 .. MaxLog["user"] : Marked(i)' => i <= n + 1
    <3>1. \A i \in 1 .. MaxLog["user"] : Marked(i) => i <= n
      BY DEF Followed, n
    <3> QED BY <2>2, <2>4, <2>6, <3>1
  <2>11. ASSUME NoLapse'
         PROVE  /\ hold["user"] = "mark" => Done(pos["user"])'
                /\ \A i \in 1 .. n + 1 : i <= committed["user"] => Marked(i)
                /\ proc # "down" => \A i \in 1 .. n + 1 :
                     i < pos["user"] \/ (i = pos["user"] /\ hold["user"] = "fetch") => Marked(i)
                /\ \A i, j \in 1 .. n + 1 : i < j /\ Marked(j) => Marked(i)
                /\ \A i \in 1 .. n + 1 : Marked(i) => Done(i)'
    <3>1. /\ hold["user"] = "mark" => Done(pos["user"])
          /\ \A i \in 1 .. n : i <= committed["user"] => Marked(i)
          /\ proc # "down" => \A i \in 1 .. n :
               i < pos["user"] \/ (i = pos["user"] /\ hold["user"] = "fetch") => Marked(i)
          /\ \A i, j \in 1 .. n : i < j /\ Marked(j) => Marked(i)
          /\ \A i \in 1 .. n : Marked(i) => Done(i)
      BY <2>5, <2>11 DEF Followed, n
    <3>2. hold["user"] = "mark" => Done(pos["user"])'
      BY <1>2, <2>3, <2>9, <3>1 DEF Done
    <3>3. \A i \in 1 .. n + 1 : i \in 1 .. n \/ (i = n + 1 /\ ~(i <= pos["user"]) /\ ~(i <= committed["user"]))
      BY <2>2, <2>4
    <3>4. \A i \in 1 .. n + 1 : Marked(i) => i \in 1 .. n
      BY <2>6, <3>3
    <3>5. \A i, j \in 1 .. n + 1 : i < j /\ Marked(j) => Marked(i)
      BY <2>2, <3>1, <3>4
    <3>6. \A i \in 1 .. n + 1 : i < pos["user"] \/ i = pos["user"] => i \in 1 .. n
      BY <2>2, <2>4
    <3>7. proc # "down" => \A i \in 1 .. n + 1 :
                     i < pos["user"] \/ (i = pos["user"] /\ hold["user"] = "fetch") => Marked(i)
      BY <3>1, <3>6
    <3>8. \A i \in 1 .. n + 1 : i <= committed["user"] => Marked(i)
      BY <3>1, <3>3
    <3> QED BY <2>7, <3>1, <3>2, <3>4, <3>5, <3>7, <3>8
  <2>12. UNCHANGED <<pos["user"], hold["user"], committed["user"], proc>>
    BY <1>2
  <2>13. /\ hold["user"] \in {"apply", "mark"} => ~Marked(pos["user"])'
         /\ hold["user"] = "commit" => Marked(pos["user"])'
    BY <1>2 DEF Followed, Marked
  <2> QED BY <1>2, <2>3, <2>6, <2>8, <2>10, <2>11, <2>13 DEF Followed, Done, Marked
<1> QED BY <1>3, <1>4

\* What a step of the consumer of user.events leaves alone.
LEMMA FollowedProject ==
    ASSUME Base, Followed, NEW t \in Projections, Project(t)
    PROVE  Followed'
<1>1. /\ UNCHANGED <<log, proc>> /\ contacts' \in [Users -> Contact]
      /\ contacts \in [Users -> Contact] /\ Rows
      /\ hold \in [Projections -> {"fetch", "check", "apply", "mark", "commit"}]
      /\ pos \in [Topics -> Nat] /\ committed \in [Topics -> Nat \cup {-1}]
      /\ t \in Topics /\ lapsed \subseteq lapsed'
  <2>1. lapsed \subseteq lapsed'
    BY DEF Project, runProjectionConsumer, isEventProcessed, Apply, markEventProcessed, GiveUp,
           CommitProjection, history
  <2> QED BY <2>1, ProjectBase DEF Base, Types, Topics
<1>2. CASE t = "account"
  <2>1. pos'["user"] = pos["user"] /\ committed'["user"] = committed["user"]
    BY <1>1, <1>2, UserFacts DEF Project, runProjectionConsumer, isEventProcessed, Apply,
         markEventProcessed, GiveUp, CommitProjection, commitMessage, kafka
  <2>2. hold'["user"] = hold["user"]
    BY <1>1, <1>2, UserFacts DEF Project, runProjectionConsumer, isEventProcessed, Apply,
         markEventProcessed, GiveUp, CommitProjection
  <2>3. barrier'["user"] = barrier["user"]
    <3>1. UNCHANGED barrier \/ barrier' = [barrier EXCEPT ![t][pos[t]] = "skipped"]
      BY DEF Project, runProjectionConsumer, isEventProcessed, Apply,
             markEventProcessed, GiveUp, CommitProjection
    <3>2. barrier = [s \in Topics |-> barrier[s]]
      BY <1>1 DEF Rows
    <3> QED BY <1>2, <3>1, <3>2, UserFacts
  <2>4. \A u \in Users : /\ contacts'[u].email = contacts[u].email
                         /\ contacts'[u].name = contacts[u].name
    <3>1. \/ UNCHANGED contacts
          \/ contacts' = [contacts EXCEPT ![Current("account")].account = TRUE]
      BY <1>2 DEF Project, runProjectionConsumer, isEventProcessed, Apply, markEventProcessed,
           GiveUp, CommitProjection, handleAccountCreated, updateUserContactAccountLink
    <3> QED BY <1>1, <3>1 DEF Contact
  <2> QED BY <1>1, <2>1, <2>2, <2>3, <2>4, FollowedKept
<1>3. CASE t = "user"
  <2> DEFINE n == Len(log["user"])
             p == pos["user"]
  <2>1. /\ n \in Nat /\ p \in Nat /\ p <= n /\ committed["user"] \in Nat \cup {-1}
        /\ committed["user"] <= p /\ MaxLog["user"] \in Nat /\ n <= MaxLog["user"]
        /\ hold["user"] # "fetch" => p \in 1 .. n /\ proc # "down"
        /\ "user" \in Topics /\ "user" \in Projections
    <3>1. /\ n \in Nat /\ p \in Nat /\ p <= n /\ committed["user"] \in Nat \cup {-1}
          /\ committed["user"] <= p /\ MaxLog["user"] \in Nat /\ n <= MaxLog["user"]
          /\ hold["user"] # "fetch" => p >= 1 /\ proc # "down"
          /\ "user" \in Topics /\ "user" \in Projections
      BY UserFacts
    <3> QED BY <3>1
  <2>2. NoLapse' => NoLapse
    BY <1>1 DEF NoLapse
  <2>3. /\ \A i \in 1 .. MaxLog["user"] : Marked(i) => i <= n
        /\ hold["user"] \in {"apply", "mark"} => ~Marked(p)
        /\ hold["user"] = "commit" => Marked(p)
        /\ \A i \in 1 .. n, u \in Users :
             log["user"][i] = [type |-> "ProfileUpdated", user |-> u] =>
                \E j \in 1 .. i - 1 : log["user"][j] = [type |-> "UserActivated", user |-> u]
        /\ NoLapse' => /\ hold["user"] = "mark" => Done(p)
                       /\ \A i \in 1 .. n : i <= committed["user"] => Marked(i)
                       /\ proc # "down" => \A i \in 1 .. n :
                            i < p \/ (i = p /\ hold["user"] = "fetch") => Marked(i)
                       /\ \A i, j \in 1 .. n : i < j /\ Marked(j) => Marked(i)
                       /\ \A i \in 1 .. n : Marked(i) => Done(i)
    BY <2>2 DEF Followed
  <2>4. CASE runProjectionConsumer(t)
    <3>1. /\ pos' = [pos EXCEPT !["user"] = @ + 1] /\ hold' = [hold EXCEPT !["user"] = "check"]
          /\ hold["user"] = "fetch" /\ proc = "up" /\ p < n
          /\ UNCHANGED <<committed, contacts, barrier, lapsed>>
      BY <1>3, <2>4 DEF runProjectionConsumer, Fetchable, history
    <3>2. pos'["user"] = p + 1 /\ hold'["user"] = "check" /\ p + 1 \in 1 .. n
      BY <1>1, <2>1, <3>1
    <3>3. \A i : (Marked(i)' <=> Marked(i)) /\ (Done(i)' <=> Done(i))
      BY <1>1, <3>1 DEF Marked, Done
    <3>4. \A i \in 1 .. n : i < p + 1 => i < p \/ i = p
      BY <2>1
    <3>5. NoLapse' => \A i \in 1 .. n : i < p + 1 => Marked(i)
      BY <2>3, <3>1, <3>4
    <3> QED BY <1>1, <2>3, <3>1, <3>2, <3>3, <3>5 DEF Followed
  <2>5. CASE isEventProcessed(t)
    <3>1. /\ hold' = [hold EXCEPT !["user"] = IF barrier["user"][p] = None THEN "apply" ELSE "commit"]
          /\ hold["user"] = "check" /\ UNCHANGED <<pos, committed, contacts, barrier, lapsed>>
      BY <1>3, <2>5 DEF isEventProcessed, kafka, history
    <3>2. hold'["user"] = IF Marked(p) THEN "commit" ELSE "apply"
      BY <1>1, <2>1, <3>1 DEF Marked
    <3>3. \A i : (Marked(i)' <=> Marked(i)) /\ (Done(i)' <=> Done(i))
      BY <1>1, <3>1 DEF Marked, Done
    <3>4. (hold'["user"] = "apply" => ~Marked(pos["user"])') /\ (hold'["user"] = "commit" => Marked(pos["user"])')
      BY <3>1, <3>2 DEF Marked
    <3> QED BY <1>1, <2>3, <3>1, <3>2, <3>3, <3>4, SMTT(40) DEF Followed
  <2>6. CASE GiveUp(t)
    <3>1. /\ hold' = [hold EXCEPT !["user"] = "fetch"] /\ hold["user"] # "fetch"
          /\ UNCHANGED <<pos, committed, contacts, barrier>>
          /\ <<"user", p>> \in lapsed'
      BY <1>3, <2>6 DEF GiveUp, kafka
    <3>2. hold'["user"] = "fetch" /\ ~NoLapse'
      BY <1>1, <2>1, <3>1, UserFacts DEF NoLapse
    <3>3. \A i : (Marked(i)' <=> Marked(i))
      BY <3>1 DEF Marked
    <3> QED BY <1>1, <2>3, <3>1, <3>2, <3>3 DEF Followed
  <2>7. CASE CommitProjection(t)
    <3>1. /\ hold' = [hold EXCEPT !["user"] = "fetch"] /\ hold["user"] = "commit"
          /\ committed' = [committed EXCEPT !["user"] = p] \/ committed' = committed
          /\ UNCHANGED <<pos, contacts, barrier, lapsed>>
      BY <1>3, <2>7 DEF CommitProjection, commitMessage, history
    <3>2. hold'["user"] = "fetch" /\ committed'["user"] \in {committed["user"], p}
      BY <1>1, <2>1, <3>1
    <3>3. \A i : (Marked(i)' <=> Marked(i)) /\ (Done(i)' <=> Done(i))
      BY <1>1, <3>1 DEF Marked, Done
    <3>4. NoLapse' => \A i \in 1 .. n : i < p \/ i = p => Marked(i)
      BY <2>1, <2>3, <3>1
    <3>5. \A i \in 1 .. n : i <= p => i < p \/ i = p
      BY <2>1
    <3>6. NoLapse' => \A i \in 1 .. n : i <= committed'["user"] => Marked(i)
      BY <2>3, <3>2, <3>4, <3>5
    <3> QED BY <1>1, <2>3, <3>1, <3>2, <3>3, <3>4, <3>6 DEF Followed
  <2>8. CASE markEventProcessed(t)
    <3>1. /\ hold' = [hold EXCEPT !["user"] = "commit"] /\ hold["user"] = "mark"
          /\ barrier' = [barrier EXCEPT !["user"][p] = "skipped"]
          /\ UNCHANGED <<pos, committed, contacts, lapsed>>
      BY <1>3, <2>8 DEF markEventProcessed, kafka, history
    <3>2. hold'["user"] = "commit" /\ p \in 1 .. n
      BY <1>1, <2>1, <3>1
    <3>3. /\ barrier'["user"][p] = "skipped"
          /\ \A j \in 1 .. MaxLog["user"] : j # p => barrier'["user"][j] = barrier["user"][j]
      <4>1. barrier' = [barrier EXCEPT !["user"] = [barrier["user"] EXCEPT ![p] = "skipped"]]
        BY <3>1
      <4>2. /\ barrier = [s \in Topics |-> barrier[s]]
            /\ barrier["user"] \in [1 .. MaxLog["user"] -> Marks] /\ p \in 1 .. MaxLog["user"]
        BY <1>1, <2>1, <3>2 DEF Rows
      <4>3. barrier'["user"] = [barrier["user"] EXCEPT ![p] = "skipped"]
        BY <2>1, <4>1, <4>2
      <4> QED BY <4>2, <4>3
    <3>4. Marked(p)' /\ \A i \in 1 .. MaxLog["user"] : i # p => (Marked(i)' <=> Marked(i))
      <4>1. barrier'["user"][pos["user"]] # None
        BY <3>3, NotificationsAssumption
      <4> QED BY <3>1, <3>3, <4>1 DEF Marked
    <3>5. \A i : Done(i)' <=> Done(i)
      BY <1>1, <3>1 DEF Done
    <3>6. \A i \in 1 .. n : i \in 1 .. MaxLog["user"]
      BY <2>1
    <3>7. \A i \in 1 .. MaxLog["user"] : Marked(i)' => i <= n
      BY <2>1, <2>3, <3>2, <3>4
    <3>8. Marked(pos["user"])'
      BY <3>1, <3>4 DEF Marked
    <3>9. \A i \in 1 .. n : Marked(i) => Marked(i)'
      BY <3>4, <3>6, <2>3, <3>1
    <3>10. ASSUME NoLapse' PROVE /\ \A i, j \in 1 .. n : i < j /\ Marked(j)' => Marked(i)'
                                 /\ \A i \in 1 .. n : Marked(i)' => Done(i)'
      <4>1. ASSUME NEW i \in 1 .. n, NEW j \in 1 .. n, i < j, Marked(j)' PROVE Marked(i)'
        <5>1. CASE j = p
          BY <2>1, <2>3, <3>1, <3>9, <3>10, <4>1, <5>1
        <5>2. CASE j # p
          BY <2>3, <3>4, <3>6, <3>9, <3>10, <4>1, <5>2
        <5> QED BY <5>1, <5>2
      <4>2. ASSUME NEW i \in 1 .. n, Marked(i)' PROVE Done(i)'
        <5>1. CASE i = p
          BY <2>3, <3>1, <3>5, <3>10, <5>1
        <5>2. CASE i # p
          BY <2>3, <3>4, <3>5, <3>6, <3>10, <4>2, <5>2
        <5> QED BY <5>1, <5>2
      <4> QED BY <4>1, <4>2
    <3> QED BY <1>1, <2>3, <3>1, <3>2, <3>7, <3>8, <3>9, <3>10 DEF Followed
  <2>9. CASE Apply(t)
    <3>1. /\ hold' = [hold EXCEPT !["user"] = "mark"] /\ hold["user"] = "apply"
          /\ UNCHANGED <<pos, committed, barrier, lapsed>>
          /\ handleUserActivated \/ handleProfileUpdated
      BY <1>3, <2>9 DEF Apply, kafka, history
    <3>2. hold'["user"] = "mark" /\ p \in 1 .. n /\ proc # "down"
      BY <1>1, <2>1, <3>1
    <3>3. \A i : Marked(i)' <=> Marked(i)
      BY <3>1 DEF Marked
    <3>4. ASSUME NoLapse' PROVE Done(pos["user"])' /\ \A i \in 1 .. n : Marked(i) => Done(i)'
      <4>1. \A i \in 1 .. n : Marked(i) => Done(i) /\ i < p
        BY <2>1, <2>3, <3>1, <3>2, <3>4
      <4>2. CASE handleUserActivated
        <5>1. /\ log["user"][p].type = "UserActivated"
              /\ contacts' = [contacts EXCEPT ![log["user"][p].user].email = TRUE]
          BY <4>2 DEF handleUserActivated, upsertUserContactEmail, Current
        <5>2. \A u \in Users : /\ contacts'[u].name = contacts[u].name
                               /\ contacts[u].email => contacts'[u].email
                               /\ u = log["user"][p].user => contacts'[u].email
          BY <1>1, <5>1 DEF Contact
        <5>3. \A i \in 1 .. n : Marked(i) => Done(i)'
          BY <1>1, <4>1, <5>2 DEF Done
        <5>4. Done(pos["user"])'
          <6>1. ASSUME NEW u \in Users
                PROVE  /\ log["user"][p] = [type |-> "UserActivated", user |-> u] => contacts'[u].email
                       /\ log["user"][p] # [type |-> "ProfileUpdated", user |-> u]
            <7>1. log["user"][p] = [type |-> "UserActivated", user |-> u] => log["user"][p].user = u
              OBVIOUS
            <7>2. log["user"][p] = [type |-> "ProfileUpdated", user |-> u] =>
                    log["user"][p].type = "ProfileUpdated"
              OBVIOUS
            <7>3. "ProfileUpdated" # "UserActivated"
              OBVIOUS
            <7> QED BY <5>1, <5>2, <7>1, <7>2, <7>3
          <6> QED BY <1>1, <3>1, <6>1 DEF Done
        <5> QED BY <5>3, <5>4
      <4>3. CASE handleProfileUpdated
        <5> DEFINE v == log["user"][p].user
        <5>1. /\ log["user"][p].type = "ProfileUpdated"
              /\ contacts' = [contacts EXCEPT ![v].name = IF contacts[v].email THEN p ELSE contacts[v].name]
          BY <4>3 DEF handleProfileUpdated, updateUserContactDisplayName, Current
        <5>2. \A u \in Users : /\ contacts'[u].email = contacts[u].email
                               /\ contacts'[u].name = IF u = v /\ contacts[v].email THEN p
                                                      ELSE contacts[u].name
          BY <1>1, <5>1 DEF Contact
        <5>3. \A u \in Users : contacts[u].name \in Nat /\ contacts'[u].name \in Nat
          BY <1>1 DEF Contact
        <5>4. ASSUME NEW i \in 1 .. n, Marked(i), NEW u \in Users
              PROVE  /\ log["user"][i] = [type |-> "UserActivated", user |-> u] => contacts'[u].email
                     /\ log["user"][i] = [type |-> "ProfileUpdated", user |-> u] => contacts'[u].name >= i
          <6>1. Done(i) /\ i < p
            BY <4>1, <5>4
          <6> QED BY <2>1, <5>2, <5>3, <6>1 DEF Done
        <5>5. ASSUME NEW u \in Users, log["user"][p] = [type |-> "ProfileUpdated", user |-> u]
              PROVE  contacts'[u].name >= p
          <6>1. u = v
            BY <5>5
          <6>2. PICK j \in 1 .. p - 1 : log["user"][j] = [type |-> "UserActivated", user |-> u]
            BY <2>3, <3>2, <5>5
          <6>3. j \in 1 .. n /\ j < p
            BY <2>1, <3>2
          <6>4. Done(j)
            BY <2>3, <3>2, <3>4, <6>3
          <6>5. contacts[u].email
            BY <6>2, <6>4 DEF Done
          <6> QED BY <2>1, <5>2, <6>1, <6>5
        <5>6. ASSUME NEW u \in Users PROVE log["user"][p] # [type |-> "UserActivated", user |-> u]
          <6>1. log["user"][p] = [type |-> "UserActivated", user |-> u] =>
                  log["user"][p].type = "UserActivated"
            OBVIOUS
          <6>2. "ProfileUpdated" # "UserActivated"
            OBVIOUS
          <6> QED BY <5>1, <6>1, <6>2
        <5>7. Done(pos["user"])'
          BY <1>1, <3>1, <5>5, <5>6 DEF Done
        <5>8. \A i \in 1 .. n : Marked(i) => Done(i)'
          BY <1>1, <5>4 DEF Done
        <5> QED BY <5>7, <5>8
      <4> QED BY <3>1, <4>2, <4>3
    <3>5. ~Marked(pos["user"])'
      BY <2>3, <3>1 DEF Marked
    <3> QED BY <1>1, <2>3, <3>1, <3>2, <3>3, <3>4, <3>5 DEF Followed
  <2> QED BY <2>4, <2>5, <2>6, <2>7, <2>8, <2>9 DEF Project
<1> QED BY <1>2, <1>3 DEF Projections

\* The transfer consumer keeps out of user.events.
LEMMA NotifyKeepsUser ==
    ASSUME Base, Notify \/ BudgetExpires
    PROVE  /\ UNCHANGED <<log, hold, contacts, proc, lapsed>>
           /\ pos'["user"] = pos["user"] /\ committed'["user"] = committed["user"]
           /\ barrier'["user"] = barrier["user"]
<1>1. UNCHANGED <<log, hold, contacts, proc, lapsed>>
  BY DEF Notify, BudgetExpires, runTransferEventsConsumer, RejectMessage, DatabaseError, Claim,
         waitForContactByAccountID, sendEmailWithRetry, finishTransferEvent,
         handleTransferMessageWithRetry, sendToDLQ, finishEvent, CommitTransfer, kafka, history
<1>2. /\ UNCHANGED pos \/ pos' = [pos EXCEPT !["transfer"] = @ + 1]
      /\ UNCHANGED committed \/ committed' = [committed EXCEPT !["transfer"] = pos["transfer"]]
  BY DEF Notify, BudgetExpires, runTransferEventsConsumer, RejectMessage, DatabaseError, Claim,
         waitForContactByAccountID, sendEmailWithRetry, finishTransferEvent, commitMessage,
         handleTransferMessageWithRetry, sendToDLQ, finishEvent, CommitTransfer, kafka
<1>3. UNCHANGED barrier \/ \E m : barrier' = [barrier EXCEPT !["transfer"][Id] = m]
  BY DEF Notify, BudgetExpires, runTransferEventsConsumer, RejectMessage, DatabaseError, Claim,
         waitForContactByAccountID, sendEmailWithRetry, finishTransferEvent,
         handleTransferMessageWithRetry, sendToDLQ, finishEvent, CommitTransfer
<1>4. /\ barrier = [t \in Topics |-> barrier[t]] /\ "user" \in Topics
      /\ pos \in [Topics -> Nat] /\ committed \in [Topics -> Nat \cup {-1}]
  BY DEF Base, Types, Rows, Topics, Projections
<1> QED BY <1>1, <1>2, <1>3, <1>4

\* Each step keeps the contacts with their topic.
LEMMA NextFollowed ==
    ASSUME Base, Followed, [Next]_vars
    PROVE  Followed'
<1>1. contacts \in [Users -> Contact]
  BY DEF Base, Types
<1>2. CASE Notify \/ BudgetExpires
  BY <1>1, <1>2, NotifyKeepsUser, FollowedKept
<1>3. CASE \/ Drain \/ Exit \/ UNCHANGED vars
           \/ \E s \in {"postgres", "smtp"} : Outage(s) \/ Recover(s)
  <2>1. /\ UNCHANGED <<log, pos, committed, hold, contacts, barrier, lapsed>>
        /\ proc' # "down" => proc # "down"
    BY <1>3 DEF Drain, Exit, Outage, Recover, vars, kafka, consumers, history
  <2> QED BY <1>1, <2>1, FollowedKept
<1>4. CASE Crash
  <2>1. /\ UNCHANGED <<log, pos, committed, contacts, barrier, lapsed>>
        /\ proc' = "down" /\ hold'["user"] = "fetch"
    BY <1>4, UserFacts DEF Crash, kafka
  <2>2. \A i : (Marked(i)' <=> Marked(i)) /\ (Done(i)' <=> Done(i))
    BY <2>1 DEF Marked, Done
  <2>3. NoLapse' <=> NoLapse
    BY <2>1 DEF NoLapse
  <2> QED BY <2>1, <2>2, <2>3 DEF Followed
<1>5. CASE Start
  <2>1. /\ UNCHANGED <<log, committed, hold, contacts, barrier, lapsed>> /\ hold["user"] = "fetch"
        /\ pos' = [t \in Topics |-> newKafkaReader(t)]
    BY <1>5, UserFacts DEF Start, consumers
  <2>2. pos'["user"] = IF committed["user"] = -1 THEN 0 ELSE committed["user"]
    BY <2>1, UserFacts DEF newKafkaReader, startOffset
  <2>3. \A i : (Marked(i)' <=> Marked(i)) /\ (Done(i)' <=> Done(i))
    BY <2>1 DEF Marked, Done
  <2>4. NoLapse' <=> NoLapse
    BY <2>1 DEF NoLapse
  <2>5. /\ Len(log["user"]) \in Nat /\ committed["user"] \in Nat \cup {-1}
        /\ \A i \in 1 .. Len(log["user"]) : i <= pos'["user"] => i <= committed["user"]
    BY <2>2, UserFacts
  <2>6. \A i \in 1 .. Len(log["user"]) : i < pos'["user"] \/ i = pos'["user"] => i <= committed["user"]
    BY <2>2, UserFacts
  <2> QED BY <2>1, <2>3, <2>4, <2>6 DEF Followed
<1>6. ASSUME NEW t \in Topics, PublishEvent(t) PROVE Followed'
  BY <1>6, FollowedPublish
<1>7. ASSUME NEW t \in Projections, Project(t) PROVE Followed'
  BY <1>7, FollowedProject
<1> QED BY <1>2, <1>3, <1>4, <1>5, <1>6, <1>7 DEF Next

\* For any users, topics and faults: unless a handler gave up on an event, every
\* activation the consumer is done with has its contact, and the newest profile
\* event names it.
THEOREM ContactsAreFollowed == Spec => []ContactsFollowEvents
<1>1. Init => Followed
  <2> SUFFICES ASSUME Init PROVE Followed
    OBVIOUS
  <2>1. /\ log["user"] = <<>> /\ hold["user"] = "fetch"
        /\ \A i \in 1 .. MaxLog["user"] : ~Marked(i)
    BY DEF Init, Topics, Projections, Marked
  <2>2. Len(log["user"]) = 0 /\ DOMAIN log["user"] = {}
    BY <2>1
  <2> QED BY <2>1, <2>2 DEF Followed
<1>2. Base /\ Followed /\ [Next]_vars => Followed'
  BY NextFollowed
<1>3. Base /\ Followed => ContactsFollowEvents
  <2> SUFFICES ASSUME Base, Followed, proc = "up", ~Busy("user"), pos["user"] = Len(log["user"]),
                      NoLapse, NEW i \in DOMAIN log["user"]
               PROVE  Done(i)
    BY DEF ContactsFollowEvents, NoLapse, Done
  <2>1. /\ i \in 1 .. Len(log["user"]) /\ hold["user"] = "fetch"
        /\ i < pos["user"] \/ i = pos["user"]
    BY UserFacts DEF Busy
  <2>2. Marked(i)
    BY <2>1 DEF Followed
  <2> QED BY <2>1, <2>2 DEF Followed
<1> QED BY <1>1, <1>2, <1>3, SpecBase, PTL DEF Spec
=============================================================================

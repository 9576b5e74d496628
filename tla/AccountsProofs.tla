--------------------------- MODULE AccountsProofs ---------------------------
(***************************************************************************)
(* Proofs about Accounts for any users, numbers, events and faults: every  *)
(* user gets one account and one announcement, what the consumer has done  *)
(* with has both its accounts, operators' decisions stand, and an account  *)
(* that is served carries the IBAN of its own number, which Validate       *)
(* accepts, the lookup finds and no slip turns into another's.             *)
(*                                                                         *)
(* The operators of Iban are recursive functions over sequences; what they *)
(* compute is proved with least elements of sets of numbers.  Lengths are  *)
(* named (PICK n \in Nat : n = 22) where the solver would otherwise lose   *)
(* itself in the literals.                                                 *)
(***************************************************************************)
EXTENDS Accounts, FiniteSetTheorems, TLAPS

Drawn == Numbers \cup {Legacy[u] : u \in DOMAIN Legacy}

Event == [user : Users \ DOMAIN Legacy, type : {"UserActivated", "ProfileUpdated"}]

Stages == {"fetch", "check", "create", "ledger", "mark", "commit"}

Types ==
    /\ log \in Seq(Event)
    /\ committed \in Nat /\ pos \in Nat
    /\ task \in [at : Stages, draws : Nat]
    /\ accounts \in [Users -> Row \cup {None}]
    /\ created \in Seq(Users)
    /\ processed \subseteq 1 .. Len(log)
    /\ proc \in {"starting", "up", "down"}

\* The reader is between the committed offset and the end of the topic, and
\* only a process that is up has a message in hand.
Placed ==
    /\ committed <= pos /\ pos <= Len(log)
    /\ task.at # "fetch" => proc = "up" /\ pos >= 1

\* One AccountCreated for each account the consumer opened.
Announcements(u) == Cardinality({i \in DOMAIN created : created[i] = u})

AnnouncedOnce ==
    \A u \in Users \ DOMAIN Legacy : Announcements(u) = IF u \in Opened THEN 1 ELSE 0

\* How far the handler got with the message in hand.
Working ==
    /\ task.at \in {"ledger", "mark"} => User \in Opened
    /\ task.at = "mark" => User \in ledger
    /\ task.at = "commit" => pos \in processed

\* Every event the reader has passed was marked, or its handler failed on it.
Passed ==
    /\ \A i \in 1 .. Len(log) : i <= committed => i \in processed \cup lapsed
    /\ proc = "up" => \A i \in 1 .. Len(log) :
         i < pos \/ (i = pos /\ task.at = "fetch") => i \in processed \cup lapsed
    /\ \A i \in processed : Provisioned(log[i].user)

\* The IBAN of a row is made from its number, or still missing while the
\* process is not up, and a number is nobody else's.
IbanServed(u) == accounts[u].iban = ibanOf(accounts[u].number)

IbansMade ==
    /\ \A u \in Opened : accounts[u].iban = <<>> \/ IbanServed(u)
    /\ proc = "up" => \A u \in Opened : IbanServed(u)
    /\ \A u, v \in Opened : accounts[u].number = accounts[v].number => u = v

\* The inductive invariant.
IndInv == Types /\ Placed /\ AnnouncedOnce /\ Working /\ Passed /\ IbansMade

-----------------------------------------------------------------------------
\* A row that is written is no longer absent.
LEMMA RowFacts ==
    ASSUME NEW n \in Numbers
    PROVE  /\ [number |-> n, iban |-> ibanOf(n), status |-> "active"] \in Row
           /\ [number |-> n, iban |-> ibanOf(n), status |-> "active"] # None
<1>1. [number |-> n, iban |-> ibanOf(n), status |-> "active"] \in Row
  BY DEF Row, Statuses
<1> QED BY <1>1, AccountsAssumption

\* An announcement more.
LEMMA AnnouncementAdded ==
    ASSUME created \in Seq(Users), NEW u \in Users, created' = Append(created, u)
    PROVE  /\ Announcements(u)' = Announcements(u) + 1
           /\ \A v \in Users : v # u => Announcements(v)' = Announcements(v)
<1> DEFINE n == Len(created)
           At(v) == {i \in DOMAIN created : created[i] = v}
<1>1. /\ n \in Nat /\ DOMAIN created = 1 .. n /\ DOMAIN created' = 1 .. n + 1
      /\ created'[n + 1] = u /\ \A i \in 1 .. n : created'[i] = created[i]
  OBVIOUS
<1>2. IsFiniteSet(At(u))
  <2>1. IsFiniteSet(1 .. n) /\ At(u) \subseteq 1 .. n
    BY <1>1, FS_Interval
  <2> QED BY <2>1, FS_Subset
<1> HIDE DEF n
<1>3. {i \in DOMAIN created' : created'[i] = u} = At(u) \cup {n + 1} /\ n + 1 \notin At(u)
  BY <1>1
<1>4. Announcements(u)' = Announcements(u) + 1
  <2> HIDE DEF At
  <2>1. Cardinality(At(u) \cup {n + 1}) = Cardinality(At(u)) + 1
    BY <1>2, <1>3, FS_AddElement
  <2> QED BY <1>3, <2>1 DEF Announcements, At
<1>5. ASSUME NEW v \in Users, v # u PROVE Announcements(v)' = Announcements(v)
  <2>1. {i \in DOMAIN created' : created'[i] = v} = {i \in DOMAIN created : created[i] = v}
    BY <1>1, <1>5
  <2> QED BY <2>1 DEF Announcements
<1> QED BY <1>4, <1>5

\* The message in hand.
LEMMA InHand ==
    ASSUME Types, Placed, task.at # "fetch"
    PROVE  /\ pos \in 1 .. Len(log) /\ Len(log) \in Nat /\ log[pos] \in Event
           /\ User \in Users \ DOMAIN Legacy /\ proc = "up"
<1>1. pos \in 1 .. Len(log) /\ Len(log) \in Nat /\ proc = "up"
  BY DEF Types, Placed
<1>2. log[pos] \in Event
  BY <1>1 DEF Types
<1> QED BY <1>1, <1>2 DEF Event, User

\* A row whose IBAN or status is written stays a row with its number.
LEMMA RowUpdated ==
    ASSUME Types, IbansMade, NEW u \in Opened,
           \/ accounts' = [accounts EXCEPT ![u].iban = ibanOf(accounts[u].number)]
           \/ \E s \in Statuses : accounts' = [accounts EXCEPT ![u].status = s]
    PROVE  /\ accounts' \in [Users -> Row \cup {None}] /\ Opened' = Opened
           /\ \A v \in Users : v # u => accounts'[v] = accounts[v]
           /\ accounts'[u].number = accounts[u].number
           /\ accounts'[u].iban \in {accounts[u].iban, ibanOf(accounts[u].number)}
           /\ \A v \in Opened : accounts'[v].number = accounts[v].number
<1>1. u \in Users /\ accounts[u] \in Row /\ accounts \in [Users -> Row \cup {None}]
  BY DEF Opened, Types
<1>2. /\ accounts[u].number \in Drawn
      /\ accounts[u].iban \in {<<>>} \cup {ibanOf(n) : n \in Drawn}
      /\ accounts[u].status \in Statuses
  BY <1>1 DEF Row, Drawn
<1>3. CASE accounts' = [accounts EXCEPT ![u].iban = ibanOf(accounts[u].number)]
  <2>1. [accounts[u] EXCEPT !.iban = ibanOf(accounts[u].number)] \in Row
    BY <1>1, <1>2 DEF Row, Drawn
  <2>2. accounts'[u] \in Row /\ \A v \in Users : v # u => accounts'[v] = accounts[v]
    BY <1>1, <1>3, <2>1
  <2>3. /\ accounts'[u].number = accounts[u].number
        /\ accounts'[u].iban = ibanOf(accounts[u].number)
    BY <1>1, <1>3 DEF Row
  <2>4. accounts' \in [Users -> Row \cup {None}]
    BY <1>1, <1>3, <2>2
  <2>5. Opened' = Opened
    BY <1>1, <2>2, AccountsAssumption DEF Opened
  <2> QED BY <2>2, <2>3, <2>4, <2>5 DEF Opened
<1>4. ASSUME NEW s \in Statuses, accounts' = [accounts EXCEPT ![u].status = s]
      PROVE  /\ accounts' \in [Users -> Row \cup {None}] /\ Opened' = Opened
             /\ \A v \in Users : v # u => accounts'[v] = accounts[v]
             /\ accounts'[u].number = accounts[u].number
             /\ accounts'[u].iban = accounts[u].iban
  <2>1. [accounts[u] EXCEPT !.status = s] \in Row
    BY <1>1, <1>2 DEF Row, Drawn
  <2>2. accounts'[u] \in Row /\ \A v \in Users : v # u => accounts'[v] = accounts[v]
    BY <1>1, <1>4, <2>1
  <2>3. /\ accounts'[u].number = accounts[u].number /\ accounts'[u].iban = accounts[u].iban
    BY <1>1, <1>4 DEF Row
  <2>4. accounts' \in [Users -> Row \cup {None}]
    BY <1>1, <1>4, <2>2
  <2>5. Opened' = Opened
    BY <1>1, <2>2, AccountsAssumption DEF Opened
  <2> QED BY <2>2, <2>3, <2>4, <2>5
<1> QED BY <1>3, <1>4 DEF Opened
-----------------------------------------------------------------------------
\* The state of a new deployment.
LEMMA InitIndInv == Init => IndInv
<1> SUFFICES ASSUME Init PROVE IndInv
  OBVIOUS
<1>1. /\ log = <<>> /\ created = <<>> /\ Len(log) = 0 /\ committed = 0 /\ pos = 0
      /\ processed = {} /\ proc = "starting"
      /\ task.at = "fetch" /\ task \in [at : Stages, draws : Nat]
  BY DEF Init, NoTask, Stages
<1>2. ASSUME NEW u \in DOMAIN Legacy
      PROVE  /\ [number |-> Legacy[u], iban |-> <<>>, status |-> "active"] \in Row
             /\ [number |-> Legacy[u], iban |-> <<>>, status |-> "active"] # None
  <2>1. [number |-> Legacy[u], iban |-> <<>>, status |-> "active"] \in Row
    BY <1>2 DEF Row, Statuses
  <2> QED BY <2>1, AccountsAssumption
<1>3. /\ \A u \in DOMAIN Legacy : u \in Users /\ accounts[u] =
           [number |-> Legacy[u], iban |-> <<>>, status |-> "active"]
      /\ \A u \in Users \ DOMAIN Legacy : accounts[u] = None
      /\ accounts \in [Users -> Row \cup {None}]
  BY <1>2, AccountsAssumption DEF Init
<1>4. Opened = DOMAIN Legacy
  BY <1>2, <1>3, AccountsAssumption DEF Opened
<1>5. Types /\ Placed
  BY <1>1, <1>3 DEF Types, Placed
<1>6. AnnouncedOnce
  <2>1. \A u \in Users : {i \in DOMAIN created : created[i] = u} = {}
    BY <1>1
  <2> QED BY <1>4, <2>1, FS_EmptySet DEF AnnouncedOnce, Announcements
<1>7. Working /\ Passed
  BY <1>1 DEF Working, Passed
<1>8. IbansMade
  <2>1. ASSUME NEW u \in Opened
        PROVE  accounts[u].iban = <<>> /\ accounts[u].number = Legacy[u]
    <3>1. accounts[u] = [number |-> Legacy[u], iban |-> <<>>, status |-> "active"]
      BY <1>3, <1>4
    <3> QED BY <3>1
  <2>2. \A u, v \in Opened : accounts[u].number = accounts[v].number => u = v
    BY <1>4, <2>1, AccountsAssumption
  <2> QED BY <1>1, <2>1, <2>2 DEF IbansMade
<1> QED BY <1>5, <1>6, <1>7, <1>8 DEF IndInv

\* A published event is behind everything that was fetched.
LEMMA PublishIndInv ==
    ASSUME IndInv, NEW u \in Users, PublishEvent(u)
    PROVE  IndInv'
<1>1. /\ u \notin DOMAIN Legacy
      /\ \E type \in {"UserActivated", "ProfileUpdated"} :
           log' = Append(log, [user |-> u, type |-> type])
      /\ UNCHANGED <<committed, pos, task, accounts, created, processed, ledger, proc, lapsed>>
  BY DEF PublishEvent, tables
<1>2. PICK m \in Event : log' = Append(log, m)
  BY <1>1 DEF Event
<1>3. /\ log' \in Seq(Event) /\ Len(log') = Len(log) + 1 /\ Len(log) \in Nat
      /\ \A i \in 1 .. Len(log) : log'[i] = log[i]
  BY <1>2 DEF IndInv, Types
<1>4. /\ pos \in Nat /\ pos <= Len(log) /\ committed \in Nat /\ committed <= pos
      /\ processed \subseteq 1 .. Len(log)
  BY DEF IndInv, Types, Placed
<1>5. Types' /\ Placed'
  <2>1. processed \subseteq 1 .. Len(log) + 1
    BY <1>3, <1>4
  <2>2. pos <= Len(log) + 1
    BY <1>3, <1>4
  <2> QED BY <1>1, <1>3, <2>1, <2>2 DEF IndInv, Types, Placed
<1>6. AnnouncedOnce' /\ IbansMade'
  BY <1>1 DEF IndInv, AnnouncedOnce, Announcements, Opened, IbansMade, IbanServed
<1>7. Working'
  <2>1. task.at # "fetch" => User' = User
    BY <1>1, <1>3, InHand DEF IndInv, User
  <2> QED BY <1>1, <2>1 DEF IndInv, Working, Opened
<1>8. Passed'
  <2>1. \A i \in 1 .. Len(log) + 1 : i <= pos => i \in 1 .. Len(log)
    BY <1>3, <1>4
  <2>2. \A i \in 1 .. Len(log) + 1 : i <= committed => i <= pos
    BY <1>3, <1>4
  <2>3. \A i \in 1 .. Len(log) + 1 : i < pos \/ i = pos => i <= pos
    BY <1>3, <1>4
  <2>4. Opened' = Opened
    BY <1>1 DEF Opened
  <2>5. \A i \in processed : log'[i].user \in Opened /\ log'[i].user \in ledger
    BY <1>3, <1>4 DEF IndInv, Passed, Provisioned
  <2>6. \A i \in 1 .. Len(log) + 1 : i <= committed => i \in processed \cup lapsed
    BY <2>1, <2>2 DEF IndInv, Passed
  <2>7. proc = "up" => \A i \in 1 .. Len(log) + 1 :
          i < pos \/ (i = pos /\ task.at = "fetch") => i \in processed \cup lapsed
    BY <2>1, <2>3 DEF IndInv, Passed
  <2> QED BY <1>1, <1>3, <2>4, <2>5, <2>6, <2>7 DEF Passed, Provisioned
<1> QED BY <1>5, <1>6, <1>7, <1>8 DEF IndInv

\* A row is backfilled, or its status changed.
LEMMA UpdateIndInv ==
    ASSUME IndInv, backfillIBANs \/ \E u \in Users, s \in Statuses : updateAccountStatus(u, s)
    PROVE  /\ IndInv' /\ Opened' = Opened
           /\ \A u \in Opened : accounts'[u].number = accounts[u].number
<1>1. /\ UNCHANGED <<log, committed, pos, task, created, processed, ledger, proc, lapsed>>
  BY DEF backfillIBANs, updateAccountStatus, kafka
<1>2. PICK u \in Opened :
        \/ accounts' = [accounts EXCEPT ![u].iban = ibanOf(accounts[u].number)] /\ proc = "starting"
        \/ \E s \in Statuses : accounts' = [accounts EXCEPT ![u].status = s]
  BY DEF backfillIBANs, updateAccountStatus
<1>3. /\ accounts' \in [Users -> Row \cup {None}] /\ Opened' = Opened
      /\ \A v \in Users : v # u => accounts'[v] = accounts[v]
      /\ accounts'[u].number = accounts[u].number
      /\ accounts'[u].iban \in {accounts[u].iban, ibanOf(accounts[u].number)}
      /\ \A v \in Opened : accounts'[v].number = accounts[v].number
  BY <1>2, RowUpdated DEF IndInv
<1>4. Types' /\ Placed'
  BY <1>1, <1>3 DEF IndInv, Types, Placed
<1>5. AnnouncedOnce'
  BY <1>1, <1>3 DEF IndInv, AnnouncedOnce, Announcements
<1>6. Working' /\ Passed'
  BY <1>1, <1>3 DEF IndInv, Working, Passed, Provisioned, User
<1>7. IbansMade'
  <2>1. \A v \in Opened :
          accounts'[v].iban = <<>> \/ accounts'[v].iban = ibanOf(accounts'[v].number)
    BY <1>3 DEF IndInv, IbansMade, IbanServed, Opened
  <2>2. ASSUME proc = "up"
        PROVE  \A v \in Opened : accounts'[v].iban = ibanOf(accounts'[v].number)
    <3>1. accounts'[u].iban = accounts[u].iban
      <4>1. PICK s \in Statuses : accounts' = [accounts EXCEPT ![u].status = s]
        BY <1>2, <2>2
      <4>2. u \in Users /\ accounts[u] \in Row
        BY DEF IndInv, Types, Opened
      <4> QED BY <4>1, <4>2 DEF Row, IndInv, Types
    <3>2. \A v \in Opened : accounts[v].iban = ibanOf(accounts[v].number)
      BY <2>2 DEF IndInv, IbansMade, IbanServed
    <3> QED BY <1>3, <3>1, <3>2 DEF Opened
  <2>3. \A v, w \in Opened : accounts'[v].number = accounts'[w].number => v = w
    BY <1>3 DEF IndInv, IbansMade
  <2> QED BY <1>1, <1>3, <2>1, <2>2, <2>3 DEF IbansMade, IbanServed
<1> QED BY <1>3, <1>4, <1>5, <1>6, <1>7 DEF IndInv

\* An account is opened with a number that nobody has, and announced, or was
\* there already and is left alone.
LEMMA CreateIndInv ==
    ASSUME IndInv, createAccountForUser
    PROVE  /\ IndInv'
           /\ \A u \in Opened : accounts'[u] = accounts[u]
<1>1. /\ task.at = "create"
      /\ UNCHANGED <<log, committed, pos, processed, ledger, proc, lapsed>>
  BY DEF createAccountForUser, kafka
<1>2. /\ pos \in 1 .. Len(log) /\ User \in Users \ DOMAIN Legacy /\ proc = "up"
      /\ UNCHANGED User /\ task \in [at : Stages, draws : Nat]
      /\ accounts \in [Users -> Row \cup {None}] /\ created \in Seq(Users)
  BY <1>1, InHand DEF IndInv, Types, User
<1>3. CASE UNCHANGED <<accounts, created>>
  <2>1. task' \in [at : Stages, draws : Nat] /\ task'.at \in {"create", "ledger"}
        /\ (task'.at = "ledger" => User \in Opened)
    <3>1. \/ task' = [task EXCEPT !.draws = @ + 1]
          \/ /\ task' = [task EXCEPT !.at = "ledger"]
             /\ User \in Opened \/ \E n \in Numbers : tryCreateAccount(User, n)
      BY DEF createAccountForUser, Goto
    <3>2. CASE task' = [task EXCEPT !.draws = @ + 1]
      BY <1>1, <1>2, <3>2 DEF Stages
    <3>3. CASE /\ task' = [task EXCEPT !.at = "ledger"]
               /\ User \in Opened \/ \E n \in Numbers : tryCreateAccount(User, n)
      <4>1. task' \in [at : Stages, draws : Nat] /\ task'.at = "ledger"
        BY <1>2, <3>3 DEF Stages
      <4>2. ASSUME User \notin Opened PROVE FALSE
        <5>1. created' = Append(created, User)
          BY <3>3, <4>2 DEF tryCreateAccount, AccountCreated
        <5>2. Len(created') = Len(created) + 1 /\ Len(created) \in Nat
          BY <1>2, <5>1
        <5> QED BY <1>3, <5>2
      <4> QED BY <4>1, <4>2
    <3> QED BY <3>1, <3>2, <3>3
  <2>2. Opened' = Opened
    BY <1>3 DEF Opened
  <2>3. Types' /\ Placed'
    BY <1>1, <1>2, <1>3, <2>1 DEF IndInv, Types, Placed
  <2>4. AnnouncedOnce' /\ IbansMade'
    BY <1>1, <1>3, <2>2 DEF IndInv, AnnouncedOnce, Announcements, IbansMade, IbanServed
  <2>5. Working' /\ Passed'
    BY <1>1, <1>2, <2>1, <2>2 DEF IndInv, Working, Passed, Provisioned
  <2> QED BY <1>3, <2>3, <2>4, <2>5 DEF IndInv
<1>4. CASE ~UNCHANGED <<accounts, created>>
  <2>1. PICK n \in Numbers : /\ \A v \in Opened : accounts[v].number # n
                             /\ User \notin Opened
                             /\ tryCreateAccount(User, n) /\ task' = [task EXCEPT !.at = "ledger"]
    BY <1>4 DEF createAccountForUser, Goto, tryCreateAccount, AccountCreated
  <2>2. /\ accounts' = [accounts EXCEPT ![User] =
                          [number |-> n, iban |-> ibanOf(n), status |-> "active"]]
        /\ created' = Append(created, User)
    BY <2>1 DEF tryCreateAccount, AccountCreated
  <2>3. /\ accounts'[User] = [number |-> n, iban |-> ibanOf(n), status |-> "active"]
        /\ \A v \in Users : v # User => accounts'[v] = accounts[v]
        /\ accounts' \in [Users -> Row \cup {None}]
    BY <1>2, <2>2, RowFacts
  <2>4. Opened' = Opened \cup {User} /\ \A v \in Opened : v \in Users /\ v # User
    <3>1. accounts'[User] # None
      BY <2>3, RowFacts
    <3> QED BY <1>2, <2>1, <2>3, <3>1 DEF Opened
  <2>5. task' \in [at : Stages, draws : Nat] /\ task'.at = "ledger"
    BY <1>2, <2>1 DEF Stages
  <2>6. created' \in Seq(Users)
    BY <1>2, <2>2
  <2>7. Types' /\ Placed'
    BY <1>1, <1>2, <2>3, <2>5, <2>6 DEF IndInv, Types, Placed
  <2>8. AnnouncedOnce'
    <3>1. ASSUME NEW u, u = User
          PROVE  /\ Announcements(u)' = Announcements(u) + 1
                 /\ \A v \in Users : v # u => Announcements(v)' = Announcements(v)
      BY <1>2, <2>2, <3>1, AnnouncementAdded
    <3>2. ASSUME NEW v \in Users \ DOMAIN Legacy
          PROVE  Announcements(v)' = IF v \in Opened' THEN 1 ELSE 0
      <4>1. Announcements(v) = IF v \in Opened THEN 1 ELSE 0
        BY DEF IndInv, AnnouncedOnce
      <4>2. CASE v = User
        BY <2>1, <2>4, <3>1, <4>1, <4>2
      <4>3. CASE v # User
        BY <2>4, <3>1, <4>1, <4>3
      <4> QED BY <4>2, <4>3
    <3> QED BY <3>2 DEF AnnouncedOnce
  <2>9. Working' /\ Passed'
    BY <1>1, <1>2, <2>4, <2>5 DEF IndInv, Working, Passed, Provisioned
  <2>10. IbansMade'
    <3>1. accounts'[User].number = n /\ accounts'[User].iban = ibanOf(n)
      BY <2>3
    <3>2. \A v \in Opened' : accounts'[v].iban = ibanOf(accounts'[v].number)
      <4>1. \A v \in Opened : accounts'[v].iban = ibanOf(accounts'[v].number)
        BY <1>2, <2>3, <2>4 DEF IndInv, IbansMade, IbanServed
      <4> QED BY <2>4, <3>1, <4>1
    <3>3. ASSUME NEW v \in Opened', NEW w \in Opened', accounts'[v].number = accounts'[w].number
          PROVE  v = w
      BY <2>1, <2>3, <2>4, <3>1, <3>3 DEF IndInv, IbansMade
    <3> QED BY <3>2, <3>3 DEF IbansMade, IbanServed
  <2>11. \A v \in Opened : accounts'[v] = accounts[v]
    BY <2>3, <2>4
  <2> QED BY <2>7, <2>8, <2>9, <2>10, <2>11 DEF IndInv
<1> QED BY <1>3, <1>4

\* The process comes up, or goes down, or a message is fetched: no table is
\* written.
LEMMA ProcessIndInv ==
    ASSUME IndInv, Serve \/ Crash \/ Restart \/ runUserActivatedConsumer
    PROVE  IndInv' /\ UNCHANGED accounts
<1>1. UNCHANGED <<log, committed, accounts, created, processed, ledger, lapsed>>
  BY DEF Serve, Crash, Restart, runUserActivatedConsumer, kafka, tables
<1>2. Opened' = Opened
  BY <1>1 DEF Opened
<1>3. AnnouncedOnce'
  BY <1>1, <1>2 DEF IndInv, AnnouncedOnce, Announcements
<1>4. /\ task \in [at : Stages, draws : Nat] /\ committed \in Nat /\ pos \in Nat
      /\ Len(log) \in Nat /\ committed <= pos /\ pos <= Len(log)
      /\ (task.at # "fetch" => proc = "up" /\ pos >= 1)
  BY DEF IndInv, Types, Placed
<1>5. CASE Serve
  <2>1. /\ proc = "starting" /\ proc' = "up" /\ pos' = committed /\ task' = task
        /\ Backfilled /\ task.at = "fetch"
    BY <1>4, <1>5 DEF Serve
  <2>2. Types' /\ Placed' /\ Working'
    BY <1>1, <1>4, <2>1 DEF IndInv, Types, Placed, Working
  <2>3. IbansMade'
    BY <1>1, <1>2, <2>1 DEF IndInv, IbansMade, IbanServed, Backfilled
  <2>4. \A i \in 1 .. Len(log) : i < committed \/ i = committed => i <= committed
    BY <1>4
  <2>5. Passed'
    BY <1>1, <1>2, <2>1, <2>4 DEF IndInv, Passed, Provisioned
  <2> QED BY <1>1, <1>3, <2>2, <2>3, <2>5 DEF IndInv
<1>6. CASE Crash \/ Restart
  <2>1. /\ proc' \in {"starting", "down"} /\ pos' = pos
        /\ task'.at = "fetch" /\ task' \in [at : Stages, draws : Nat]
    BY <1>4, <1>6 DEF Crash, Restart, kafka, NoTask, Stages
  <2>2. Types' /\ Placed' /\ Working'
    BY <1>1, <1>4, <2>1 DEF IndInv, Types, Placed, Working
  <2>3. IbansMade' /\ Passed'
    BY <1>1, <1>2, <2>1 DEF IndInv, IbansMade, IbanServed, Passed, Provisioned
  <2> QED BY <1>1, <1>3, <2>2, <2>3 DEF IndInv
<1>7. CASE runUserActivatedConsumer
  <2>1. /\ proc = "up" /\ proc' = proc /\ task.at = "fetch" /\ pos < Len(log)
        /\ pos' = pos + 1 /\ task' = [task EXCEPT !.at = "check"]
    BY <1>7 DEF runUserActivatedConsumer, Goto
  <2>2. task' \in [at : Stages, draws : Nat] /\ task'.at = "check"
    BY <1>4, <2>1 DEF Stages
  <2>3. Types' /\ Placed' /\ Working'
    BY <1>1, <1>4, <2>1, <2>2 DEF IndInv, Types, Placed, Working
  <2>4. IbansMade'
    BY <1>1, <1>2, <2>1 DEF IndInv, IbansMade, IbanServed
  <2>5. \A i \in 1 .. Len(log) : i < pos + 1 => i < pos \/ i = pos
    BY <1>4
  <2>6. Passed'
    BY <1>1, <1>2, <2>1, <2>2, <2>5 DEF IndInv, Passed, Provisioned
  <2> QED BY <1>1, <1>3, <2>3, <2>4, <2>6 DEF IndInv
<1> QED BY <1>1, <1>5, <1>6, <1>7

\* The handler goes on with the message in hand.
LEMMA HandleIndInv ==
    ASSUME IndInv, isEventProcessed \/ createLedgerAccountForAccount \/ markEventProcessed
    PROVE  IndInv' /\ UNCHANGED accounts
<1>1. /\ UNCHANGED <<log, committed, pos, accounts, created, proc, lapsed>>
      /\ task.at \in {"check", "ledger", "mark"}
  BY DEF isEventProcessed, createLedgerAccountForAccount, markEventProcessed, kafka, tables
<1>2. Opened' = Opened /\ User' = User
  BY <1>1 DEF Opened, User
<1>3. /\ pos \in 1 .. Len(log) /\ Len(log) \in Nat
      /\ task \in [at : Stages, draws : Nat] /\ processed \subseteq 1 .. Len(log)
  BY <1>1, InHand DEF IndInv, Types
<1>4. AnnouncedOnce' /\ IbansMade'
  BY <1>1, <1>2 DEF IndInv, AnnouncedOnce, Announcements, IbansMade, IbanServed
<1>5. ASSUME task' \in [at : Stages, draws : Nat], task'.at # "fetch",
             processed' \subseteq 1 .. Len(log)
      PROVE  Types' /\ Placed'
  BY <1>1, <1>5 DEF IndInv, Types, Placed
<1>6. CASE isEventProcessed
  <2>1. /\ ledger' = ledger /\ processed' = processed
        /\ \/ task' = [task EXCEPT !.at = "commit"] /\ pos \in processed
           \/ task' = [task EXCEPT !.at = "create"]
    BY <1>6 DEF isEventProcessed, Goto, tables
  <2>2. /\ task' \in [at : Stages, draws : Nat] /\ task'.at \in {"commit", "create"}
        /\ (task'.at = "commit" => pos \in processed)
    BY <1>3, <2>1 DEF Stages
  <2>3. Working' /\ Passed'
    BY <1>1, <1>2, <2>1, <2>2 DEF IndInv, Working, Passed, Provisioned
  <2> QED BY <1>1, <1>3, <1>4, <1>5, <2>1, <2>2, <2>3 DEF IndInv
<1>7. CASE createLedgerAccountForAccount
  <2>1. /\ ledger' = ledger \cup {User} /\ processed' = processed /\ task.at = "ledger"
        /\ task' = [task EXCEPT !.at = "mark"]
    BY <1>7 DEF createLedgerAccountForAccount, Goto, tables
  <2>2. task' \in [at : Stages, draws : Nat] /\ task'.at = "mark"
    BY <1>3, <2>1 DEF Stages
  <2>3. Working' /\ Passed'
    BY <1>1, <1>2, <2>1, <2>2 DEF IndInv, Working, Passed, Provisioned
  <2> QED BY <1>1, <1>3, <1>4, <1>5, <2>1, <2>2, <2>3 DEF IndInv
<1>8. CASE markEventProcessed
  <2>1. /\ ledger' = ledger /\ processed' = processed \cup {pos} /\ task.at = "mark"
        /\ task' = [task EXCEPT !.at = "commit"]
    BY <1>8 DEF markEventProcessed, Goto
  <2>2. task' \in [at : Stages, draws : Nat] /\ task'.at = "commit"
    BY <1>3, <2>1 DEF Stages
  <2>3. User \in Opened /\ User \in ledger /\ User = log[pos].user
    BY <2>1 DEF IndInv, Working, User
  <2>4. Working' /\ Passed'
    BY <1>1, <1>2, <2>1, <2>2, <2>3 DEF IndInv, Working, Passed, Provisioned
  <2>5. processed' \subseteq 1 .. Len(log)
    BY <1>3, <2>1
  <2> QED BY <1>1, <1>4, <1>5, <2>2, <2>4, <2>5 DEF IndInv
<1> QED BY <1>1, <1>6, <1>7, <1>8

\* The consumer is done with its message: an error is on record, or the mark
\* was made before the commit.
LEMMA DoneIndInv ==
    ASSUME IndInv, HandlerFails \/ DrawsExhausted \/ CommitMessages
    PROVE  IndInv' /\ UNCHANGED accounts
<1>1. /\ UNCHANGED <<log, pos, accounts, created, processed, proc>>
      /\ task' = NoTask /\ task.at # "fetch"
      /\ committed' \in {committed, pos} /\ lapsed \subseteq lapsed' /\ ledger \subseteq ledger'
      /\ pos \in lapsed' \/ task.at = "commit"
      /\ task.at # "commit" => committed' = committed
  BY DEF HandlerFails, DrawsExhausted, CommitMessages, kafka, tables
<1>2. Opened' = Opened
  BY <1>1 DEF Opened
<1>3. /\ pos \in 1 .. Len(log) /\ Len(log) \in Nat /\ proc = "up"
      /\ committed \in Nat /\ committed <= pos
  BY <1>1, InHand DEF IndInv, Types, Placed
<1>4. task' \in [at : Stages, draws : Nat] /\ task'.at = "fetch"
  BY <1>1 DEF NoTask, Stages
<1>5. Types' /\ Placed' /\ Working'
  BY <1>1, <1>3, <1>4 DEF IndInv, Types, Placed, Working
<1>6. AnnouncedOnce' /\ IbansMade'
  BY <1>1, <1>2 DEF IndInv, AnnouncedOnce, Announcements, IbansMade, IbanServed
<1>7. Passed'
  <2>1. pos \in processed \cup lapsed'
    BY <1>1 DEF IndInv, Working
  <2>2. \A i \in 1 .. Len(log) : i < pos \/ i = pos => i \in processed \cup lapsed'
    BY <1>1, <1>3, <2>1 DEF IndInv, Passed
  <2>3. \A i \in 1 .. Len(log) : i <= committed' => i < pos \/ i = pos
    BY <1>1, <1>3
  <2>4. \A i \in processed : log[i].user \in Opened /\ log[i].user \in ledger'
    BY <1>1 DEF IndInv, Passed, Provisioned
  <2> QED BY <1>1, <1>2, <2>2, <2>3, <2>4 DEF Passed, Provisioned
<1> QED BY <1>1, <1>5, <1>6, <1>7 DEF IndInv

LEMMA NextIndInv == IndInv /\ [Next]_vars => IndInv'
<1> SUFFICES ASSUME IndInv, [Next]_vars PROVE IndInv'
  OBVIOUS
<1>1. CASE UNCHANGED vars
  BY <1>1 DEF vars, kafka, tables, IndInv, Types, Placed, AnnouncedOnce, Announcements,
              Opened, Working, User, Passed, Provisioned, IbansMade, IbanServed
<1>2. CASE backfillIBANs \/ \E u \in Users, s \in Statuses : updateAccountStatus(u, s)
  BY <1>2, UpdateIndInv
<1>3. CASE Serve \/ Crash \/ Restart \/ runUserActivatedConsumer
  BY <1>3, ProcessIndInv
<1>4. CASE \E u \in Users : PublishEvent(u)
  BY <1>4, PublishIndInv
<1>5. CASE isEventProcessed \/ createLedgerAccountForAccount \/ markEventProcessed
  BY <1>5, HandleIndInv
<1>6. CASE createAccountForUser
  BY <1>6, CreateIndInv
<1>7. CASE HandlerFails \/ DrawsExhausted \/ CommitMessages
  BY <1>7, DoneIndInv
<1> QED BY <1>1, <1>2, <1>3, <1>4, <1>5, <1>6, <1>7 DEF Next, Consume

-----------------------------------------------------------------------------
(***************************************************************************)
(* Recursion over a sequence: mod97Remainder and Normalize, character      *)
(* after character.                                                        *)
(***************************************************************************)
\* A set of numbers that is not empty has a least one.
LEMMA LeastNat ==
    ASSUME NEW T \in SUBSET Nat, T # {}
    PROVE  \E x \in T : \A y \in T : x <= y
<1>1. PICK n \in T : TRUE  OBVIOUS
<1> DEFINE D == 0 .. n
           U == {0 .. x : x \in {z \in T : z <= n}}
<1>2. IsWellFoundedOn(StrictSubsetOrdering(D), FiniteSubsetsOf(D))
  BY FS_StrictSubsetOrderingWellFounded
<1>3. U # {}  BY <1>1
<1>4. U \subseteq FiniteSubsetsOf(D)
  <2> SUFFICES ASSUME NEW x \in T, x <= n
               PROVE  0 .. x \in FiniteSubsetsOf(D)
    OBVIOUS
  <2> QED  BY FS_Interval DEF FiniteSubsetsOf
<1> HIDE DEF U
<1>5. PICK u \in U : \A v \in U : ~ (<<v, u>> \in StrictSubsetOrdering(D))
  BY <1>2, <1>3, <1>4, WFMin
<1> USE DEF U
<1>6. PICK x \in T : x <= n /\ u = 0 .. x
  BY <1>5
<1>7. ASSUME NEW y \in T, y < x
      PROVE  FALSE
  <2>1. 0 .. y \in U  BY <1>6, <1>7
  <2>2. <<0 .. y, u>> \in StrictSubsetOrdering(D)
    <3>1. 0 .. y \subseteq u /\ u \subseteq D /\ x \in u /\ x \notin 0 .. y  BY <1>6, <1>7
    <3> QED  BY <3>1 DEF StrictSubsetOrdering
  <2> QED  BY <1>5, <2>1, <2>2
<1> QED  BY <1>6, <1>7

\* A set of numbers without a least one is empty.
LEMMA NoLeast ==
    ASSUME NEW T \in SUBSET Nat, \A x \in T : \E y \in T : y < x
    PROVE  T = {}
BY LeastNat

\* r runs from v through n steps of f.
IsRun(r, n, V, v, f) ==
    /\ r \in [0 .. n -> V]
    /\ r[0] = v
    /\ \A i \in 1 .. n : r[i] = f[i][r[i - 1]]

\* Steps that are defined everywhere can be run through.
LEMMA RunExists ==
    ASSUME NEW n \in Nat, NEW V, NEW v \in V, NEW f \in [1 .. n -> [V -> V]]
    PROVE  \E r : IsRun(r, n, V, v, f)
<1> DEFINE T == {m \in 0 .. n : ~ \E r : IsRun(r, m, V, v, f)}
<1>1. ASSUME NEW m \in T PROVE \E k \in T : k < m
  <2>1. m \in 0 .. n /\ ~ \E r : IsRun(r, m, V, v, f)
    OBVIOUS
  <2> HIDE DEF T
  <2>2. CASE m = 0
    <3>1. IsRun([i \in 0 .. 0 |-> v], 0, V, v, f)
      BY DEF IsRun
    <3> QED
      BY <2>1, <2>2, <3>1
  <2>3. CASE m # 0
    <3>1. m - 1 \in 0 .. n /\ m - 1 < m
      BY <2>1, <2>3
    <3> SUFFICES ASSUME m - 1 \notin T PROVE FALSE
      BY <3>1
    <3>2. PICK r : IsRun(r, m - 1, V, v, f)
      BY <3>1 DEF T
    <3> DEFINE q == [i \in 0 .. m |-> IF i = m THEN f[m][r[m - 1]] ELSE r[i]]
    <3>3. r \in [0 .. m - 1 -> V] /\ m - 1 \in 0 .. m - 1 /\ m \in 1 .. n
      BY <2>1, <2>3, <3>2 DEF IsRun
    <3>4. f[m][r[m - 1]] \in V
      BY <3>3
    <3>5. q \in [0 .. m -> V]
      BY <2>1, <3>3, <3>4
    <3>6. q[0] = v /\ \A i \in 1 .. m : q[i] = f[i][q[i - 1]]
      BY <2>1, <2>3, <3>2 DEF IsRun
    <3> HIDE DEF q
    <3> QED
      BY <2>1, <3>5, <3>6 DEF IsRun
  <2> QED
    BY <2>2, <2>3
<1>2. T \in SUBSET Nat
  OBVIOUS
<1> HIDE DEF T
<1>3. T = {}
  BY <1>1, <1>2, NoLeast
<1> QED
  BY <1>3 DEF T

\* A character more.
Shift(x, c) == (x * lettersToDigits(c) + c) % 97

\* The remainder of a prefix after the other.
Remainders(r, s) ==
    /\ r \in [0 .. Len(s) -> 0 .. 96]
    /\ r[0] = 0
    /\ \A i \in 1 .. Len(s) : r[i] = Shift(r[i - 1], s[i])

\* A character shifts by one decimal digit or by two.
LEMMA FactorTyped == \A c : lettersToDigits(c) \in {10, 100}
BY DEF lettersToDigits

\* A step of the remainder stays below 97.
LEMMA StepTyped ==
    ASSUME NEW x \in 0 .. 96, NEW c \in 0 .. 35
    PROVE  Shift(x, c) \in 0 .. 96
<1>1. lettersToDigits(c) = 10 \/ lettersToDigits(c) = 100
  BY FactorTyped
<1>2. (x * 10 + c) % 97 \in 0 .. 96
  OBVIOUS
<1>3. (x * 100 + c) % 97 \in 0 .. 96
  OBVIOUS
<1> QED
  BY <1>1, <1>2, <1>3 DEF Shift

\* The characters of a sequence.
LEMMA Characters ==
    ASSUME NEW S, NEW s \in Seq(S)
    PROVE  Len(s) \in Nat /\ \A i \in 1 .. Len(s) : s[i] \in S
OBVIOUS

\* mod97Remainder runs through the characters.
LEMMA RemainderUnfolds ==
    ASSUME NEW s \in Seq(0 .. 35)
    PROVE  \E r : Remainders(r, s) /\ mod97Remainder(s) = r[Len(s)]
<1> DEFINE n == Len(s)
           f == [i \in 1 .. n |-> [x \in 0 .. 96 |-> (x * lettersToDigits(s[i]) + s[i]) % 97]]
           Def(r) == r = [i \in 0 .. n |->
                        IF i = 0 THEN 0 ELSE (r[i - 1] * lettersToDigits(s[i]) + s[i]) % 97]
<1>1. n \in Nat /\ \A i \in 1 .. n : s[i] \in 0 .. 35
  BY Characters
<1> HIDE DEF n
<1>2. ASSUME NEW x \in 0 .. 96, NEW i \in 1 .. n
      PROVE  (x * lettersToDigits(s[i]) + s[i]) % 97 \in 0 .. 96
  BY <1>1, StepTyped DEF Shift
<1>3. f \in [1 .. n -> [0 .. 96 -> 0 .. 96]]
  BY <1>2
<1>4. PICK r : IsRun(r, n, 0 .. 96, 0, f)
  <2>1. 0 \in 0 .. 96
    OBVIOUS
  <2> HIDE DEF f
  <2> QED
    BY <1>1, <1>3, <2>1, RunExists
<1>5. ASSUME NEW i \in 1 .. n
      PROVE  r[i] = (r[i - 1] * lettersToDigits(s[i]) + s[i]) % 97
  <2>1. i - 1 \in 0 .. n
    BY <1>1
  <2>2. r[i - 1] \in 0 .. 96
    BY <2>1, <1>4 DEF IsRun
  <2>3. r[i] = f[i][r[i - 1]]
    BY <1>4 DEF IsRun
  <2> QED
    BY <2>2, <2>3
<1>6. Def(r)
  <2>1. r \in [0 .. n -> 0 .. 96] /\ r[0] = 0
    BY <1>4 DEF IsRun
  <2> QED
    BY <1>1, <1>5, <2>1
<1> DEFINE q == CHOOSE x : Def(x)
<1>7. mod97Remainder(s) = q[n]
  BY DEF mod97Remainder, n
<1>8. Def(q)
  <2> HIDE DEF Def
  <2> QED
    BY <1>6
<1> HIDE DEF q, f, Def
<1>9. q = r
  <2> DEFINE T == {i \in 0 .. n : q[i] # r[i]}
  <2>1. ASSUME NEW i \in T PROVE \E j \in T : j < i
    <3>1. i # 0 /\ i \in 0 .. n
      BY <1>6, <1>8 DEF Def
    <3>2. q[i - 1] # r[i - 1] /\ i - 1 \in 0 .. n /\ i - 1 < i
      BY <1>1, <1>6, <1>8, <3>1 DEF Def
    <3> QED
      BY <3>2
  <2>2. T \in SUBSET Nat
    OBVIOUS
  <2>3. T = {}
    <3> HIDE DEF T
    <3> QED
      BY <2>1, <2>2, NoLeast
  <2>4. q = [i \in 0 .. n |-> q[i]] /\ r = [i \in 0 .. n |-> r[i]]
    BY <1>6, <1>8 DEF Def
  <2> QED
    BY <2>3, <2>4
<1> QED
  BY <1>1, <1>4, <1>5, <1>7, <1>9 DEF Remainders, Shift, IsRun, n

\* Normalize, prefix after prefix.
IsKept(k, s) ==
    /\ k \in [0 .. Len(s) -> Seq(0 .. 35)]
    /\ k[0] = <<>>
    /\ \A i \in 1 .. Len(s) :
          k[i] = IF s[i] = Space THEN k[i - 1] ELSE Append(k[i - 1], Upper(s[i]))

\* Digits and upper-case letters stay as they are.
LEMMA UpperSame ==
    ASSUME NEW c \in 0 .. 35
    PROVE  Upper(c) = c /\ c # Space
BY DEF Upper, Space

\* Normalize runs through the characters.
LEMMA NormalizeUnfolds ==
    ASSUME NEW s \in Seq((0 .. 35) \cup {Space})
    PROVE  \E k : IsKept(k, s) /\ Normalize(s) = k[Len(s)]
<1> DEFINE n == Len(s)
           C == Seq(0 .. 35)
           g(i, x) == IF s[i] = Space THEN x ELSE Append(x, Upper(s[i]))
           f == [i \in 1 .. n |-> [x \in C |-> g(i, x)]]
           Def(k) == k = [i \in 0 .. n |-> IF i = 0 THEN <<>> ELSE g(i, k[i - 1])]
           q == CHOOSE x : Def(x)
<1>1. n \in Nat /\ \A i \in 1 .. n : s[i] \in (0 .. 35) \cup {Space}
  BY Characters
<1> HIDE DEF n
<1>2. ASSUME NEW x \in C, NEW i \in 1 .. n
      PROVE  g(i, x) \in C
  <2>1. CASE s[i] = Space
    BY <2>1
  <2>2. CASE s[i] # Space
    <3>1. s[i] \in 0 .. 35 /\ Upper(s[i]) = s[i]
      BY <1>1, <2>2, UpperSame
    <3> QED
      BY <2>2, <3>1
  <2> QED
    BY <2>1, <2>2
<1>7. Normalize(s) = q[n]
  BY DEF Normalize, n
<1> HIDE DEF g, q
<1>3. f \in [1 .. n -> [C -> C]]
  BY <1>2
<1>4. PICK r : IsRun(r, n, C, <<>>, f)
  <2>1. <<>> \in C
    OBVIOUS
  <2> HIDE DEF f, C
  <2> QED
    BY <1>1, <1>3, <2>1, RunExists
<1>5. ASSUME NEW i \in 1 .. n
      PROVE  r[i] = g(i, r[i - 1])
  <2> HIDE DEF C
  <2>1. i - 1 \in 0 .. n
    BY <1>1
  <2>2. r[i - 1] \in C
    BY <2>1, <1>4 DEF IsRun
  <2>3. r[i] = f[i][r[i - 1]]
    BY <1>4 DEF IsRun
  <2> QED
    BY <2>2, <2>3
<1>6. Def(r)
  <2> HIDE DEF C, f
  <2>1. r \in [0 .. n -> C] /\ r[0] = <<>>
    BY <1>4 DEF IsRun
  <2> QED
    BY <1>1, <1>5, <2>1
<1>8. Def(q)
  <2> HIDE DEF Def
  <2> QED
    BY <1>6 DEF q
<1> HIDE DEF f, C, Def
<1>9. q = r
  <2> DEFINE T == {i \in 0 .. n : q[i] # r[i]}
  <2>1. ASSUME NEW i \in T PROVE \E j \in T : j < i
    <3>1. i # 0 /\ i \in 0 .. n
      BY <1>6, <1>8 DEF Def
    <3>2. q[i - 1] # r[i - 1] /\ i - 1 \in 0 .. n /\ i - 1 < i
      BY <1>1, <1>6, <1>8, <3>1 DEF Def
    <3> QED
      BY <3>2
  <2>2. T \in SUBSET Nat
    OBVIOUS
  <2>3. T = {}
    <3> HIDE DEF T
    <3> QED
      BY <2>1, <2>2, NoLeast
  <2>4. q = [i \in 0 .. n |-> q[i]] /\ r = [i \in 0 .. n |-> r[i]]
    BY <1>6, <1>8 DEF Def
  <2> QED
    BY <2>3, <2>4
<1> QED
  BY <1>1, <1>4, <1>5, <1>7, <1>9 DEF IsKept, IsRun, n, C, g

\* Sequences that agree everywhere are equal.
LEMMA SeqEqual ==
    ASSUME NEW S, NEW s \in Seq(S), NEW t \in Seq(S), Len(s) = Len(t),
           \A i \in 1 .. Len(s) : s[i] = t[i]
    PROVE  s = t
OBVIOUS

\* The characters that are no spaces are e.
LEMMA NormalizeKeeps ==
    ASSUME NEW s \in Seq((0 .. 35) \cup {Space}), NEW e \in Seq(0 .. 35),
           NEW at \in [0 .. Len(s) -> 0 .. Len(e)], at[0] = 0, at[Len(s)] = Len(e),
           \A i \in 1 .. Len(s) :
              \/ s[i] = Space /\ at[i] = at[i - 1]
              \/ s[i] = e[at[i]] /\ at[i] = at[i - 1] + 1
    PROVE  Normalize(s) = e
<1>1. PICK k : IsKept(k, s) /\ Normalize(s) = k[Len(s)]
  BY NormalizeUnfolds
<1> DEFINE T == {i \in 0 .. Len(s) : k[i] # SubSeq(e, 1, at[i])}
<1>2. /\ Len(s) \in Nat /\ Len(e) \in Nat
      /\ \A i \in 0 .. Len(s) : at[i] \in 0 .. Len(e)
      /\ \A j \in 1 .. Len(e) : e[j] \in 0 .. 35
  BY Characters
<1>3. ASSUME NEW i \in T PROVE \E j \in T : j < i
  <2>1. i # 0 /\ i \in 1 .. Len(s) /\ i - 1 \in 0 .. Len(s) /\ i - 1 < i
    <3>1. SubSeq(e, 1, 0) = <<>>
      OBVIOUS
    <3> QED
      BY <1>1, <3>1 DEF IsKept
  <2> SUFFICES ASSUME k[i - 1] = SubSeq(e, 1, at[i - 1])
               PROVE  k[i] = SubSeq(e, 1, at[i])
    BY <2>1
  <2>2. k[i] = IF s[i] = Space THEN k[i - 1] ELSE Append(k[i - 1], Upper(s[i]))
    BY <1>1, <2>1 DEF IsKept
  <2> HIDE DEF T
  <2>3. CASE s[i] = Space /\ at[i] = at[i - 1]
    BY <2>2, <2>3
  <2>4. CASE s[i] = e[at[i]] /\ at[i] = at[i - 1] + 1
    <3>1. at[i - 1] \in Nat /\ at[i - 1] + 1 <= Len(e) /\ at[i] \in 1 .. Len(e)
      BY <1>2, <2>1, <2>4
    <3>2. e[at[i]] \in 0 .. 35
      BY <1>2, <3>1
    <3>3. s[i] # Space /\ Upper(s[i]) = e[at[i - 1] + 1]
      BY <2>4, <3>2, UpperSame
    <3>4. Append(SubSeq(e, 1, at[i - 1]), e[at[i - 1] + 1]) = SubSeq(e, 1, at[i - 1] + 1)
      BY <3>1
    <3> QED
      BY <2>2, <2>4, <3>3, <3>4
  <2> QED
    BY <2>1, <2>3, <2>4
<1>4. T = {}
  <2>1. T \in SUBSET Nat
    OBVIOUS
  <2> HIDE DEF T
  <2> QED
    BY <1>3, <2>1, NoLeast
<1>5. k[Len(s)] = SubSeq(e, 1, Len(e))
  BY <1>2, <1>4
<1>6. SubSeq(e, 1, Len(e)) = e
  BY <1>2, SeqEqual
<1> QED
  BY <1>1, <1>5, <1>6

\* What the steps of a remainder are.
LEMMA RemainderFacts ==
    ASSUME NEW s \in Seq(0 .. 35), NEW r, Remainders(r, s)
    PROVE  /\ Len(s) \in Nat
           /\ \A i \in 1 .. Len(s) : s[i] \in 0 .. 35
           /\ \A i \in 0 .. Len(s) : r[i] \in 0 .. 96
           /\ \A i \in 1 .. Len(s) : r[i] = Shift(r[i - 1], s[i])
<1>1. Len(s) \in Nat /\ \A i \in 1 .. Len(s) : s[i] \in 0 .. 35
  BY Characters
<1> QED
  BY <1>1 DEF Remainders

\* One step of the remainder tells its arguments apart.
LEMMA StepInjective ==
    ASSUME NEW x \in 0 .. 96, NEW y \in 0 .. 96, NEW c \in 0 .. 35,
           Shift(x, c) = Shift(y, c)
    PROVE  x = y
<1> USE DEF Shift
<1>1. CASE lettersToDigits(c) = 10
  <2>1. (x * 10 + c) % 97 = (y * 10 + c) % 97
    BY <1>1
  <2> QED
    BY <2>1
<1>2. CASE lettersToDigits(c) = 100
  <2>1. (x * 100 + c) % 97 = (y * 100 + c) % 97
    BY <1>2
  <2> QED
    BY <2>1
<1> QED
  BY <1>1, <1>2, FactorTyped

\* A prefix they share leaves the same remainder.
LEMMA PrefixAgrees ==
    ASSUME NEW s \in Seq(0 .. 35), NEW t \in Seq(0 .. 35), Len(s) = Len(t),
           NEW r, NEW q, Remainders(r, s), Remainders(q, t),
           NEW m \in 0 .. Len(s), \A i \in 1 .. m : s[i] = t[i]
    PROVE  r[m] = q[m]
<1> DEFINE T == {i \in 0 .. m : r[i] # q[i]}
<1>1. Len(s) \in Nat /\ T \in SUBSET Nat
  OBVIOUS
<1>2. ASSUME NEW i \in T PROVE \E j \in T : j < i
  <2>1. i # 0 /\ i \in 1 .. m
    BY DEF Remainders
  <2>2. r[i] = Shift(r[i - 1], s[i]) /\ q[i] = Shift(q[i - 1], s[i])
    BY <1>1, <2>1 DEF Remainders
  <2>3. r[i - 1] # q[i - 1] /\ i - 1 \in 0 .. m /\ i - 1 < i
    BY <2>1, <2>2
  <2> QED
    BY <2>3
<1> HIDE DEF T
<1>3. T = {}
  BY <1>1, <1>2, NoLeast
<1> QED
  BY <1>1, <1>3 DEF T

\* A difference in the remainder stays.
LEMMA SuffixKeeps ==
    ASSUME NEW s \in Seq(0 .. 35), NEW t \in Seq(0 .. 35), Len(s) = Len(t),
           NEW r, NEW q, Remainders(r, s), Remainders(q, t),
           NEW m \in 0 .. Len(s), r[m] # q[m],
           \A i \in m + 1 .. Len(s) : s[i] = t[i]
    PROVE  r[Len(s)] # q[Len(s)]
<1> DEFINE T == {i \in m .. Len(s) : r[i] = q[i]}
<1>1. /\ Len(s) \in Nat /\ T \in SUBSET Nat
      /\ \A i \in 1 .. Len(s) : s[i] \in 0 .. 35
      /\ \A i \in 0 .. Len(s) : r[i] \in 0 .. 96 /\ q[i] \in 0 .. 96
  <2>1. Len(s) \in Nat /\ T \in SUBSET Nat
    OBVIOUS
  <2> HIDE DEF T
  <2> QED
    BY <2>1, RemainderFacts
<1>2. ASSUME NEW i \in T PROVE \E j \in T : j < i
  <2>1. i # m /\ i \in m + 1 .. Len(s) /\ i \in 1 .. Len(s) /\ i - 1 \in 0 .. Len(s)
        /\ i - 1 \in m .. Len(s) /\ i - 1 < i
    BY <1>1
  <2>2. r[i] = Shift(r[i - 1], s[i]) /\ q[i] = Shift(q[i - 1], s[i])
    BY <1>1, <2>1 DEF Remainders
  <2>3. r[i - 1] = q[i - 1]
    <3>1. r[i] = q[i]
      OBVIOUS
    <3>2. r[i - 1] \in 0 .. 96 /\ q[i - 1] \in 0 .. 96 /\ s[i] \in 0 .. 35
      BY <1>1, <2>1
    <3> HIDE DEF T
    <3> QED
      BY <2>2, <3>1, <3>2, StepInjective
  <2> QED
    BY <2>1, <2>3
<1> HIDE DEF T
<1>3. T = {}
  BY <1>1, <1>2, NoLeast
<1> QED
  BY <1>1, <1>3 DEF T

-----------------------------------------------------------------------------
(***************************************************************************)
(* mod97Remainder tells a wrong digit and two swapped ones.                *)
(***************************************************************************)
\* Another digit is another step,
LEMMA OtherDigit ==
    ASSUME NEW x \in 0 .. 96, NEW a \in Digits, NEW b \in Digits,
           Shift(x, a) = Shift(x, b)
    PROVE  a = b
<1>1. (x * 10 + a) % 97 = (x * 10 + b) % 97
  BY DEF Shift, lettersToDigits, Letters, Digits
<1> QED
  BY <1>1 DEF Digits

\* and so is another order of two.
LEMMA OtherOrder ==
    ASSUME NEW x \in 0 .. 96, NEW a \in Digits, NEW b \in Digits,
           Shift(Shift(x, a), b) = Shift(Shift(x, b), a)
    PROVE  a = b
<1>1. (((x * 10 + a) % 97) * 10 + b) % 97 = (((x * 10 + b) % 97) * 10 + a) % 97
  BY DEF Shift, lettersToDigits, Letters, Digits
<1> QED
  BY <1>1 DEF Digits

\* A wrong digit is another remainder.
LEMMA SlipChanges ==
    ASSUME NEW s \in Seq(0 .. 35), NEW t \in Seq(0 .. 35), Len(s) = Len(t),
           NEW k \in 1 .. Len(s), s[k] \in Digits, t[k] \in Digits, s[k] # t[k],
           \A i \in 1 .. Len(s) : i # k => s[i] = t[i]
    PROVE  mod97Remainder(s) # mod97Remainder(t)
<1>1. PICK r : Remainders(r, s) /\ mod97Remainder(s) = r[Len(s)]
  BY RemainderUnfolds
<1>2. PICK q : Remainders(q, t) /\ mod97Remainder(t) = q[Len(s)]
  <2>1. PICK q : Remainders(q, t) /\ mod97Remainder(t) = q[Len(t)]
    BY RemainderUnfolds
  <2> QED
    BY <2>1
<1>3. Len(s) \in Nat /\ k - 1 \in 0 .. Len(s) /\ k \in 0 .. Len(s)
      /\ (\A i \in 1 .. k - 1 : s[i] = t[i]) /\ (\A i \in k + 1 .. Len(s) : s[i] = t[i])
  <2>1. Len(s) \in Nat /\ k - 1 \in 0 .. Len(s) /\ k \in 0 .. Len(s)
    OBVIOUS
  <2>2. \A i \in 1 .. k - 1 : i \in 1 .. Len(s) /\ i # k
    BY <2>1
  <2>3. \A i \in k + 1 .. Len(s) : i \in 1 .. Len(s) /\ i # k
    BY <2>1
  <2> QED
    BY <2>1, <2>2, <2>3
<1>4. r[k - 1] = q[k - 1] /\ r[k - 1] \in 0 .. 96
  <2>1. r[k - 1] = q[k - 1]
    BY <1>1, <1>2, <1>3, PrefixAgrees
  <2> QED
    BY <1>1, <1>3, <2>1, RemainderFacts
<1>6. r[k] = Shift(r[k - 1], s[k]) /\ q[k] = Shift(r[k - 1], t[k])
  BY <1>1, <1>2, <1>4 DEF Remainders
<1>7. r[k] # q[k]
  BY <1>4, <1>6, OtherDigit
<1> QED
  BY <1>1, <1>2, <1>3, <1>7, SuffixKeeps

\* So are two different neighbours in the wrong order.
LEMMA SwapChanges ==
    ASSUME NEW s \in Seq(0 .. 35), NEW t \in Seq(0 .. 35), Len(s) = Len(t),
           NEW k \in 1 .. Len(s) - 1, s[k] \in Digits, t[k] \in Digits, s[k] # t[k],
           s[k] = t[k + 1], s[k + 1] = t[k],
           \A i \in 1 .. Len(s) : i \notin {k, k + 1} => s[i] = t[i]
    PROVE  mod97Remainder(s) # mod97Remainder(t)
<1>1. PICK r : Remainders(r, s) /\ mod97Remainder(s) = r[Len(s)]
  BY RemainderUnfolds
<1>2. PICK q : Remainders(q, t) /\ mod97Remainder(t) = q[Len(s)]
  <2>1. PICK q : Remainders(q, t) /\ mod97Remainder(t) = q[Len(t)]
    BY RemainderUnfolds
  <2> QED
    BY <2>1
<1>3. Len(s) \in Nat /\ k - 1 \in 0 .. Len(s) /\ k + 1 \in 0 .. Len(s)
      /\ k \in 1 .. Len(s) /\ k + 1 \in 1 .. Len(s) /\ (k + 1) - 1 = k
      /\ (\A i \in 1 .. k - 1 : s[i] = t[i])
      /\ (\A i \in (k + 1) + 1 .. Len(s) : s[i] = t[i])
  OBVIOUS
<1>4. r[k - 1] = q[k - 1] /\ r[k - 1] \in 0 .. 96
  <2>1. r[k - 1] = q[k - 1]
    BY <1>1, <1>2, <1>3, PrefixAgrees
  <2> QED
    BY <1>1, <1>3, <2>1, RemainderFacts
<1>6. r[k] = Shift(r[k - 1], s[k]) /\ q[k] = Shift(r[k - 1], t[k])
  BY <1>1, <1>2, <1>3, <1>4 DEF Remainders
<1>7. r[k + 1] = Shift(r[k], t[k]) /\ q[k + 1] = Shift(q[k], s[k])
  BY <1>1, <1>2, <1>3 DEF Remainders
<1>8. r[k + 1] # q[k + 1]
  <2> DEFINE x == r[k - 1]
             a == s[k]
             b == t[k]
  <2>1. r[k + 1] = Shift(Shift(x, a), b) /\ q[k + 1] = Shift(Shift(x, b), a)
    BY <1>6, <1>7
  <2>2. x \in 0 .. 96 /\ a \in Digits /\ b \in Digits /\ a # b
    BY <1>4
  <2> HIDE DEF x, a, b
  <2> QED
    BY <2>1, <2>2, OtherOrder
<1> QED
  BY <1>1, <1>2, <1>3, <1>8, SuffixKeeps

-----------------------------------------------------------------------------
(***************************************************************************)
(* The pieces of an IBAN.                                                  *)
(***************************************************************************)
\* A function on 1 .. n is a sequence of length n.
LEMMA OfLength ==
    ASSUME NEW S, NEW n \in Nat, NEW f \in [1 .. n -> S]
    PROVE  f \in Seq(S) /\ Len(f) = n
OBVIOUS

\* Concatenation and SubSeq under names of their own.
Glue(s, t) == s \o t
Part(s, m, n) == SubSeq(s, m, n)

\* The characters of a concatenation,
LEMMA GlueFacts ==
    ASSUME NEW S, NEW s \in Seq(S), NEW t \in Seq(S)
    PROVE  /\ Glue(s, t) \in Seq(S) /\ Len(Glue(s, t)) = Len(s) + Len(t)
           /\ \A i \in 1 .. Len(s) + Len(t) :
                Glue(s, t)[i] = IF i <= Len(s) THEN s[i] ELSE t[i - Len(s)]
BY DEF Glue

\* and of a piece.
LEMMA PartFacts ==
    ASSUME NEW S, NEW s \in Seq(S), NEW m \in 1 .. Len(s), NEW n \in m .. Len(s)
    PROVE  /\ Part(s, m, n) \in Seq(S) /\ Len(Part(s, m, n)) = n - m + 1
           /\ \A i \in 1 .. n - m + 1 : Part(s, m, n)[i] = s[m + i - 1]
BY DEF Part

\* w is the l characters of s from m on.
IsPart(w, s, m, l) ==
    w \in Seq(0 .. 35) /\ Len(w) = l /\ \A i \in 1 .. l : w[i] = s[i + m - 1]

\* That is what SubSeq cuts out.
LEMMA PartShape ==
    ASSUME NEW s \in Seq(0 .. 35), NEW k \in Nat, Len(s) = k,
           NEW m \in 1 .. k, NEW n \in m .. k, NEW l \in Nat, l = n - m + 1
    PROVE  IsPart(Part(s, m, n), s, m, l)
<1> DEFINE w == Part(s, m, n)
<1>1. w \in Seq(0 .. 35) /\ Len(w) = n - m + 1
      /\ \A i \in 1 .. n - m + 1 : w[i] = s[m + i - 1]
  BY PartFacts
<1> HIDE DEF w
<1>2. ASSUME NEW i \in 1 .. l PROVE w[i] = s[i + m - 1]
  <2>1. m + i - 1 = i + m - 1
    OBVIOUS
  <2> QED
    BY <1>1, <2>1
<1>3. IsPart(w, s, m, l)
  BY <1>1, <1>2 DEF IsPart
<1> QED
  BY <1>3 DEF w

\* x has m characters.
OfSize(x, m) == x \in Seq(0 .. 35) /\ Len(x) = m

\* w is x up to m, then y up to l.
IsJoined(w, x, m, y, l) ==
    /\ OfSize(w, l)
    /\ \A i \in 1 .. l : w[i] = IF i <= m THEN x[i] ELSE y[i - m]

\* The concatenation of two pieces,
LEMMA GlueOnce ==
    ASSUME NEW x, NEW y, NEW m \in Nat, NEW n \in Nat, OfSize(x, m), OfSize(y, n),
           NEW l \in Nat, l = m + n
    PROVE  IsJoined(Glue(x, y), x, m, y, l)
<1> DEFINE S == 0 .. 35
           w == Glue(x, y)
<1>1. x \in Seq(S) /\ y \in Seq(S) /\ Len(x) = m /\ Len(y) = n
  BY DEF OfSize
<1> HIDE DEF S
<1>2. w \in Seq(S) /\ Len(w) = l /\ \A i \in 1 .. l : w[i] = IF i <= m THEN x[i] ELSE y[i - m]
  BY <1>1, GlueFacts
<1> HIDE DEF w
<1>3. IsJoined(w, x, m, y, l)
  BY <1>2 DEF IsJoined, OfSize, S
<1> QED
  BY <1>3 DEF w

\* w is x up to m, then y up to l, then z up to o.
IsGlued(w, x, m, y, l, z, o) ==
    /\ OfSize(w, o)
    /\ \A i \in 1 .. o :
          w[i] = IF i <= m THEN x[i] ELSE IF i <= l THEN y[i - m] ELSE z[i - l]

\* and of three.
LEMMA GlueTwice ==
    ASSUME NEW x, NEW y, NEW z, NEW m \in Nat, NEW n \in Nat, NEW k \in Nat,
           OfSize(x, m), OfSize(y, n), OfSize(z, k),
           NEW l \in Nat, NEW o \in Nat, l = m + n, o = l + k
    PROVE  IsGlued(Glue(Glue(x, y), z), x, m, y, l, z, o)
<1> DEFINE w == Glue(x, y)
           v == Glue(w, z)
<1>1. IsJoined(w, x, m, y, l)
  BY GlueOnce
<1> HIDE DEF w
<1>2. OfSize(w, l)
  BY <1>1 DEF IsJoined
<1>3. IsJoined(v, w, l, z, o)
  BY <1>2, GlueOnce
<1> HIDE DEF v
<1>4. ASSUME NEW i \in 1 .. o
      PROVE  v[i] = IF i <= m THEN x[i] ELSE IF i <= l THEN y[i - m] ELSE z[i - l]
  <2>1. v[i] = IF i <= l THEN w[i] ELSE z[i - l]
    BY <1>3 DEF IsJoined
  <2>2. i <= l => w[i] = IF i <= m THEN x[i] ELSE y[i - m]
    BY <1>1 DEF IsJoined
  <2> QED
    BY <2>1, <2>2
<1>5. IsGlued(v, x, m, y, l, z, o)
  BY <1>3, <1>4 DEF IsGlued, IsJoined
<1> QED
  BY <1>5 DEF v, w

\* A sequence of two.
LEMMA Pair ==
    ASSUME NEW S, NEW x \in S, NEW y \in S
    PROVE  <<x, y>> \in Seq(S) /\ Len(<<x, y>>) = 2
OBVIOUS

\* The BBAN of an account number, as Generate puts it together.
Bban(number) ==
    BankCode \o (<<0, 0, 0, 0>> \o SubSeq(number, 1, 2)) \o SubSeq(number, 3, 10)

IsBban(s, number) ==
    /\ s \in Seq(0 .. 35) /\ Len(s) = 18
    /\ \A i \in 1 .. 4 : s[i] = BankCode[i] /\ BankCode[i] \in Letters
    /\ \A i \in 5 .. 8 : s[i] = 0
    /\ \A i \in 9 .. 18 : s[i] = number[i - 8]

\* Bank code, "0000" and the ten digits.
LEMMA BbanShape ==
    ASSUME NumbersAssumption, NEW number \in [1 .. 10 -> Digits]
    PROVE  IsBban(Bban(number), number)
<1>1. PICK p \in Nat, m \in Nat, k \in Nat, o \in Nat, l \in Nat, q \in Nat, r \in Nat, n \in Nat :
         p = 4 /\ m = 2 /\ k = 10 /\ o = 3 /\ l = 8 /\ q = 6 /\ r = 10 /\ n = 18
  OBVIOUS
<1> DEFINE C == 0 .. 35
           a == BankCode
           b == <<0, 0, 0, 0>>
           c == Part(number, 1, m)
           d == Part(number, o, k)
           e == Glue(b, c)
           g == Glue(Glue(a, e), d)
<1>2. g = Bban(number)
  BY <1>1 DEF Bban, Glue, Part
<1>3. /\ a \in [1 .. p -> C] /\ \A i \in 1 .. 4 : a[i] \in Letters
      /\ b \in [1 .. p -> C] /\ \A i \in 1 .. 4 : b[i] = 0
      /\ number \in [1 .. k -> C]
  BY <1>1 DEF NumbersAssumption, Letters, Digits
<1>4. m \in 1 .. k /\ 1 \in 1 .. k /\ o \in 1 .. k /\ k \in o .. k
      /\ m = m - 1 + 1 /\ l = k - o + 1 /\ q = p + m /\ r = p + q /\ n = r + l
  BY <1>1
<1> HIDE DEF a, b, C
<1>5. OfSize(a, p) /\ OfSize(b, p) /\ number \in Seq(C) /\ Len(number) = k
  <2>1. a \in Seq(C) /\ Len(a) = p
    BY <1>3, OfLength
  <2>2. b \in Seq(C) /\ Len(b) = p
    BY <1>3, OfLength
  <2>3. number \in Seq(C) /\ Len(number) = k
    BY <1>3, OfLength
  <2> QED
    BY <2>1, <2>2, <2>3 DEF OfSize, C
<1>6. IsPart(c, number, 1, m) /\ IsPart(d, number, o, l)
  <2>1. number \in Seq(0 .. 35)
    BY <1>5 DEF C
  <2>2. IsPart(c, number, 1, m)
    BY <1>4, <1>5, <2>1, PartShape
  <2>3. IsPart(d, number, o, l)
    BY <1>4, <1>5, <2>1, PartShape
  <2> QED
    BY <2>2, <2>3
<1> HIDE DEF c, d
<1>7. IsJoined(e, b, p, c, q)
  <2>1. OfSize(c, m)
    BY <1>6 DEF IsPart, OfSize
  <2> QED
    BY <1>4, <1>5, <2>1, GlueOnce
<1> HIDE DEF e
<1>8. IsGlued(g, a, p, e, r, d, n)
  <2>1. OfSize(e, q) /\ OfSize(d, l)
    BY <1>6, <1>7 DEF IsJoined, IsPart, OfSize
  <2> QED
    BY <1>4, <1>5, <2>1, GlueTwice
<1> HIDE DEF g
<1>9. /\ g \in Seq(0 .. 35) /\ Len(g) = 18
      /\ \A i \in 1 .. 18 : g[i] = IF i <= 4 THEN a[i] ELSE IF i <= 10 THEN e[i - 4] ELSE d[i - 10]
  BY <1>1, <1>8 DEF IsGlued, OfSize
<1>10. \A i \in 1 .. 6 : e[i] = IF i <= 4 THEN b[i] ELSE c[i - 4]
  BY <1>1, <1>7 DEF IsJoined
<1>11. /\ \A i \in 1 .. 2 : c[i] = number[i + 1 - 1]
       /\ \A i \in 1 .. 8 : d[i] = number[i + 3 - 1]
  BY <1>1, <1>6 DEF IsPart
<1>12. ASSUME NEW i \in 1 .. 4 PROVE g[i] = a[i] /\ a[i] \in Letters
  <2>1. i \in 1 .. 18 /\ i <= 4
    OBVIOUS
  <2> QED
    BY <1>3, <1>9, <2>1
<1>13. ASSUME NEW i \in 5 .. 8 PROVE g[i] = 0
  <2>1. i \in 1 .. 18 /\ ~ (i <= 4) /\ i <= 10
        /\ i - 4 \in 1 .. 4 /\ i - 4 \in 1 .. 6 /\ i - 4 <= 4
    OBVIOUS
  <2>2. g[i] = e[i - 4] /\ e[i - 4] = b[i - 4]
    BY <1>9, <1>10, <2>1
  <2> QED
    BY <1>3, <2>1, <2>2
<1>14. ASSUME NEW i \in 9 .. 10 PROVE g[i] = number[i - 8]
  <2>1. i \in 1 .. 18 /\ ~ (i <= 4) /\ i <= 10
        /\ i - 4 \in 1 .. 6 /\ ~ (i - 4 <= 4) /\ (i - 4) - 4 = i - 8
        /\ i - 8 \in 1 .. 2 /\ (i - 8) + 1 - 1 = i - 8
    OBVIOUS
  <2>2. g[i] = e[i - 4] /\ e[i - 4] = c[i - 8]
    BY <1>9, <1>10, <2>1
  <2> QED
    BY <1>11, <2>1, <2>2
<1>15. ASSUME NEW i \in 11 .. 18 PROVE g[i] = number[i - 8]
  <2>1. i \in 1 .. 18 /\ ~ (i <= 4) /\ ~ (i <= 10)
        /\ i - 10 \in 1 .. 8 /\ (i - 10) + 3 - 1 = i - 8
    OBVIOUS
  <2>2. g[i] = d[i - 10]
    BY <1>9, <2>1
  <2> QED
    BY <1>11, <2>1, <2>2
<1>16. \A i \in 9 .. 18 : i \in 9 .. 10 \/ i \in 11 .. 18
  OBVIOUS
<1>17. \A i \in 9 .. 18 : g[i] = number[i - 8]
  BY <1>14, <1>15, <1>16
<1> QED
  BY <1>2, <1>9, <1>12, <1>13, <1>17 DEF IsBban, a

-----------------------------------------------------------------------------
(***************************************************************************)
(* The check digits.                                                       *)
(***************************************************************************)
\* Division by 97.
LEMMA Rest ==
    ASSUME NEW z \in Int, NEW k \in Int, z = 97 * k + 98
    PROVE  z % 97 = 1
OBVIOUS

\* A number from its quotient and its remainder.
LEMMA Divided ==
    ASSUME NEW z \in Nat
    PROVE  /\ z \div 97 \in Int /\ z % 97 \in 0 .. 96
           /\ z = 97 * (z \div 97) + (z % 97)
OBVIOUS

\* The digits that complement the remainder make it one.
LEMMA CheckDigits ==
    ASSUME NEW x \in 0 .. 96, NEW c, c = 98 - Shift(Shift(x, 0), 0)
    PROVE  /\ c \in 2 .. 98 /\ c \div 10 \in Digits /\ c % 10 \in Digits
           /\ Shift(Shift(x, c \div 10), c % 10) = 1
<1> DEFINE u == (x * 10) % 97
           v == (u * 10) % 97
           a == c \div 10
           b == c % 10
           y == (x * 10 + a) % 97
<1>1. ASSUME NEW z \in 0 .. 96, NEW e \in 0 .. 9 PROVE Shift(z, e) = (z * 10 + e) % 97
  BY DEF Shift, lettersToDigits, Letters
<1>2. u \in 0 .. 96 /\ v \in 0 .. 96
  OBVIOUS
<1>3. c = 98 - v
  <2>1. Shift(x, 0) = u
    BY <1>1
  <2> HIDE DEF u
  <2>2. Shift(u, 0) = (u * 10 + 0) % 97
    <3>1. u \in 0 .. 96 /\ 0 \in 0 .. 9
      BY <1>2
    <3> QED
      BY <1>1, <3>1
  <2>3. u * 10 + 0 = u * 10
    BY <1>2
  <2> QED
    BY <2>1, <2>2, <2>3
<1> HIDE DEF v
<1>4. c \in 2 .. 98 /\ a \in 0 .. 9 /\ b \in 0 .. 9 /\ c = 10 * a + b
  BY <1>2, <1>3
<1> HIDE DEF a, b, u
<1>6. y \in 0 .. 96 /\ x * 10 + a \in Nat
  BY <1>4
<1>5. Shift(Shift(x, a), b) = (y * 10 + b) % 97
  <2>1. Shift(x, a) = y
    BY <1>1, <1>4
  <2> HIDE DEF y
  <2> QED
    BY <1>1, <1>4, <1>6, <2>1
<1> DEFINE k == (x * 10) \div 97
           l == (u * 10) \div 97
           m == (x * 10 + a) \div 97
<1>7. /\ k \in Int /\ l \in Int /\ m \in Int
      /\ x * 10 = 97 * k + u
      /\ u * 10 = 97 * l + v
      /\ x * 10 + a = 97 * m + y
  <2>1. x * 10 \in Nat
    OBVIOUS
  <2>2. k \in Int /\ x * 10 = 97 * k + u
    BY <2>1, Divided DEF u
  <2>3. u * 10 \in Nat
    BY <1>2
  <2>4. l \in Int /\ u * 10 = 97 * l + v
    BY <2>3, Divided DEF v
  <2>5. m \in Int /\ x * 10 + a = 97 * m + y
    BY <1>6, Divided
  <2> QED
    BY <2>2, <2>4, <2>5
<1> HIDE DEF k, l, m, y
<1>8. y * 10 + b = 97 * (10 * k + l - 10 * m) + 98
  <2>1. y = x * 10 + a - 97 * m
    BY <1>4, <1>6, <1>7
  <2>2. y * 10 + b = 10 * (x * 10) + (10 * a + b) - 970 * m
    BY <1>4, <1>7, <2>1
  <2>3. 10 * (x * 10) = 970 * k + 97 * l + v
    BY <1>2, <1>7
  <2>4. 10 * a + b = 98 - v
    BY <1>2, <1>3, <1>4
  <2> QED
    BY <1>2, <1>4, <1>6, <1>7, <2>2, <2>3, <2>4
<1>9. (y * 10 + b) % 97 = 1
  <2>1. PICK z \in Int, w \in Int : z = y * 10 + b /\ w = 10 * k + l - 10 * m
    BY <1>4, <1>6, <1>7
  <2>2. z = 97 * w + 98
    BY <1>8, <2>1
  <2>3. z % 97 = 1
    BY <2>2, Rest
  <2> QED
    BY <2>1, <2>3
<1> QED
  BY <1>4, <1>5, <1>9 DEF a, b, Digits

\* Sequences that differ in their last two characters share the remainder before.
LEMMA LastTwo ==
    ASSUME NEW s \in Seq(0 .. 35), NEW t \in Seq(0 .. 35), Len(s) = Len(t), Len(s) > 1,
           \A i \in 1 .. Len(s) - 2 : s[i] = t[i]
    PROVE  \E x \in 0 .. 96 :
              /\ mod97Remainder(s) = Shift(Shift(x, s[Len(s) - 1]), s[Len(s)])
              /\ mod97Remainder(t) = Shift(Shift(x, t[Len(s) - 1]), t[Len(s)])
<1> DEFINE n == Len(s)
<1>1. PICK r : Remainders(r, s) /\ mod97Remainder(s) = r[n]
  BY RemainderUnfolds
<1>2. PICK q : Remainders(q, t) /\ mod97Remainder(t) = q[n]
  <2>1. PICK q : Remainders(q, t) /\ mod97Remainder(t) = q[Len(t)]
    BY RemainderUnfolds
  <2> QED
    BY <2>1
<1>3. n \in Nat /\ n - 2 \in 0 .. n /\ n - 1 \in 1 .. n /\ n \in 1 .. n /\ (n - 1) - 1 = n - 2
  OBVIOUS
<1>4. r[n - 2] = q[n - 2]
  BY <1>1, <1>2, <1>3, PrefixAgrees
<1>5. /\ r[n - 2] \in 0 .. 96
      /\ r[n - 1] = Shift(r[n - 2], s[n - 1]) /\ r[n] = Shift(r[n - 1], s[n])
      /\ q[n - 1] = Shift(q[n - 2], t[n - 1]) /\ q[n] = Shift(q[n - 1], t[n])
  <2>1. \A i \in 0 .. n : r[i] \in 0 .. 96
    BY <1>1, RemainderFacts
  <2>2. \A i \in 1 .. n : r[i] = Shift(r[i - 1], s[i])
    BY <1>1, RemainderFacts
  <2>3. Len(t) = n /\ \A i \in 1 .. Len(t) : q[i] = Shift(q[i - 1], t[i])
    BY <1>2, RemainderFacts
  <2> HIDE DEF n
  <2> QED
    BY <1>3, <2>1, <2>2, <2>3
<1> QED
  BY <1>1, <1>2, <1>4, <1>5

\* What the check digits are computed over.
Summed(number, x, y) == Glue(Glue(Bban(number), CountryIE), <<x, y>>)

\* Its characters.
IsSummed(s, number, x, y) ==
    /\ s \in Seq(0 .. 35) /\ Len(s) = 22
    /\ \A i \in 1 .. 18 : s[i] = Bban(number)[i]
    /\ s[19] = 18 /\ s[20] = 14 /\ s[21] = x /\ s[22] = y

\* Twenty-two of them.
LEMMA SummedShape ==
    ASSUME NumbersAssumption, NEW number \in [1 .. 10 -> Digits],
           NEW x \in 0 .. 35, NEW y \in 0 .. 35
    PROVE  IsSummed(Summed(number, x, y), number, x, y)
<1> DEFINE C == 0 .. 35
           b == Bban(number)
           d == CountryIE
           e == <<x, y>>
           w == Glue(Glue(b, d), e)
<1>1. PICK m \in Nat, n \in Nat, l \in Nat, o \in Nat : m = 18 /\ n = 2 /\ l = 20 /\ o = 22
  OBVIOUS
<1>2. /\ b \in Seq(C) /\ Len(b) = m
      /\ d \in Seq(C) /\ Len(d) = n /\ d[1] = 18 /\ d[2] = 14
      /\ e \in Seq(C) /\ Len(e) = n /\ e[1] = x /\ e[2] = y
  <2>1. d \in Seq(C) /\ Len(d) = 2 /\ d[1] = 18 /\ d[2] = 14
    BY Pair DEF CountryIE
  <2>2. e \in Seq(C) /\ Len(e) = 2 /\ e[1] = x /\ e[2] = y
    BY Pair
  <2> HIDE DEF d, e
  <2> QED
    BY <1>1, <2>1, <2>2, BbanShape DEF IsBban
<1>3. l = m + n /\ o = l + n
  BY <1>1
<1> HIDE DEF b, d, e, C
<1>4. w \in Seq(C) /\ Len(w) = o
      /\ \A i \in 1 .. o : w[i] = IF i <= m THEN b[i] ELSE IF i <= l THEN d[i - m] ELSE e[i - l]
  <2>1. OfSize(b, m) /\ OfSize(d, n) /\ OfSize(e, n)
    BY <1>2 DEF OfSize, C
  <2>2. IsGlued(w, b, m, d, l, e, o)
    BY <1>3, <2>1, GlueTwice
  <2> HIDE DEF w
  <2> QED
    BY <2>2 DEF IsGlued, OfSize, C
<1> HIDE DEF w
<1>5. Len(w) = 22 /\ \A i \in 1 .. 18 : w[i] = b[i]
  BY <1>1, <1>4
<1>6. w[19] = d[1] /\ w[20] = d[2] /\ w[21] = e[1] /\ w[22] = e[2]
  <2>1. /\ w[m + 1] = d[(m + 1) - m] /\ w[m + 2] = d[(m + 2) - m]
        /\ w[l + 1] = e[(l + 1) - l] /\ w[l + 2] = e[(l + 2) - l]
    BY <1>1, <1>4
  <2>2. /\ m + 1 = 19 /\ m + 2 = 20 /\ l + 1 = 21 /\ l + 2 = 22
        /\ (m + 1) - m = 1 /\ (m + 2) - m = 2 /\ (l + 1) - l = 1 /\ (l + 2) - l = 2
    BY <1>1
  <2> QED
    BY <2>1, <2>2
<1> QED
  BY <1>2, <1>4, <1>5, <1>6 DEF IsSummed, Summed, b, d, e, w, C

\* The number whose two digits Generate puts in place of the zeros.
CheckNumber(number) == 98 - mod97Remainder(Summed(number, 0, 0))

\* They make the remainder one.
LEMMA CheckIsOne ==
    ASSUME NumbersAssumption, NEW number \in [1 .. 10 -> Digits]
    PROVE  /\ CheckNumber(number) \in 2 .. 98
           /\ CheckNumber(number) \div 10 \in Digits /\ CheckNumber(number) % 10 \in Digits
           /\ mod97Remainder(Summed(number, CheckNumber(number) \div 10, CheckNumber(number) % 10)) = 1
<1> DEFINE s == Summed(number, 0, 0)
           c == CheckNumber(number)
           t == Summed(number, c \div 10, c % 10)
           n == Len(s)
<1>0. IsSummed(s, number, 0, 0)
  <2>1. 0 \in 0 .. 35
    OBVIOUS
  <2> QED
    BY <2>1, SummedShape
<1> HIDE DEF s
<1>1. s \in Seq(0 .. 35) /\ Len(s) = 22 /\ s[21] = 0 /\ s[22] = 0
  BY <1>0 DEF IsSummed
<1>2. PICK x \in 0 .. 96 : mod97Remainder(s) = Shift(Shift(x, 0), 0)
  <2>1. \E x \in 0 .. 96 :
           mod97Remainder(s) = Shift(Shift(x, s[Len(s) - 1]), s[Len(s)])
    <3>1. Len(s) > 1
      BY <1>1
    <3> QED
      BY <1>1, <3>1, LastTwo
  <2>2. Len(s) - 1 = 21 /\ Len(s) = 22
    BY <1>1
  <2> QED
    BY <1>1, <2>1, <2>2
<1>3. c = 98 - Shift(Shift(x, 0), 0)
  BY <1>2 DEF CheckNumber, s
<1> HIDE DEF c
<1>4. c \in 2 .. 98 /\ c \div 10 \in Digits /\ c % 10 \in Digits
  BY <1>3, CheckDigits
<1>5. IsSummed(t, number, c \div 10, c % 10)
  <2>1. c \div 10 \in 0 .. 35 /\ c % 10 \in 0 .. 35
    BY <1>4 DEF Digits
  <2> QED
    BY <2>1, SummedShape
<1> HIDE DEF t
<1>6. \A i \in 1 .. 20 : s[i] = t[i]
  <2>1. \A i \in 1 .. 18 : s[i] = t[i]
    BY <1>0, <1>5 DEF IsSummed
  <2>2. s[19] = t[19] /\ s[20] = t[20]
    BY <1>0, <1>5 DEF IsSummed
  <2>3. \A i \in 1 .. 20 : i \in 1 .. 18 \/ i = 19 \/ i = 20
    OBVIOUS
  <2> QED
    BY <2>1, <2>2, <2>3
<1>7. t \in Seq(0 .. 35) /\ Len(t) = 22
  BY <1>5 DEF IsSummed
<1>8. PICK y \in 0 .. 96 :
         /\ mod97Remainder(s) = Shift(Shift(y, s[Len(s) - 1]), s[Len(s)])
         /\ mod97Remainder(t) = Shift(Shift(y, t[Len(s) - 1]), t[Len(s)])
  <2>1. Len(s) = Len(t) /\ Len(s) > 1 /\ \A i \in 1 .. Len(s) - 2 : s[i] = t[i]
    BY <1>1, <1>6, <1>7
  <2> QED
    BY <1>1, <1>7, <2>1, LastTwo
<1>9. /\ mod97Remainder(s) = Shift(Shift(y, 0), 0)
      /\ mod97Remainder(t) = Shift(Shift(y, c \div 10), c % 10)
  BY <1>1, <1>5, <1>8 DEF IsSummed
<1>10. c = 98 - Shift(Shift(y, 0), 0)
  BY <1>9 DEF c, CheckNumber, s
<1>11. mod97Remainder(t) = 1
  BY <1>9, <1>10, CheckDigits
<1> QED
  BY <1>4, <1>11 DEF c, t

\* The IBAN of a number.
IsIban(s, number) ==
    /\ s \in Seq(0 .. 35) /\ Len(s) = 22
    /\ s[1] = 18 /\ s[2] = 14 /\ s[3] = CheckNumber(number) \div 10 /\ s[4] = CheckNumber(number) % 10
    /\ \A i \in 1 .. 18 : s[4 + i] = Bban(number)[i]

\* That is what ibanOf makes.
LEMMA IbanShape ==
    ASSUME NumbersAssumption, NEW number \in [1 .. 10 -> Digits]
    PROVE  IsIban(ibanOf(number), number)
<1> DEFINE C == 0 .. 35
           b == CountryIE
           c == CheckNumber(number)
           d == <<c \div 10, c % 10>>
           e == Bban(number)
           w == Glue(Glue(b, d), e)
<1>1. PICK m \in Nat, k \in Nat, n \in Nat, l \in Nat, o \in Nat :
         m = 2 /\ k = 2 /\ n = 18 /\ l = 4 /\ o = 22
  OBVIOUS
<1>2. ibanOf(number) = w
  BY DEF ibanOf, Generate, ibanPartsFromAccountNumber, CheckNumber, Summed, Glue, Bban
<1>3. /\ b \in Seq(C) /\ Len(b) = m /\ b[1] = 18 /\ b[2] = 14
      /\ d \in Seq(C) /\ Len(d) = k /\ d[1] = c \div 10 /\ d[2] = c % 10
      /\ e \in Seq(C) /\ Len(e) = n
  <2>1. b \in Seq(C) /\ Len(b) = 2 /\ b[1] = 18 /\ b[2] = 14
    BY Pair DEF CountryIE
  <2>2. c \div 10 \in C /\ c % 10 \in C
    BY CheckIsOne DEF Digits
  <2> HIDE DEF c, C
  <2>3. d \in Seq(C) /\ Len(d) = 2 /\ d[1] = c \div 10 /\ d[2] = c % 10
    BY <2>2, Pair
  <2>4. e \in Seq(C) /\ Len(e) = 18
    BY BbanShape DEF IsBban, C
  <2> HIDE DEF b, d, e
  <2> QED
    BY <1>1, <2>1, <2>3, <2>4 DEF C
<1>4. l = m + k /\ o = l + n
  BY <1>1
<1> HIDE DEF b, c, d, e, C
<1>5. w \in Seq(C) /\ Len(w) = o
      /\ \A i \in 1 .. o : w[i] = IF i <= m THEN b[i] ELSE IF i <= l THEN d[i - m] ELSE e[i - l]
  <2>1. OfSize(b, m) /\ OfSize(d, k) /\ OfSize(e, n)
    BY <1>3 DEF OfSize, C
  <2>2. IsGlued(w, b, m, d, l, e, o)
    BY <1>4, <2>1, GlueTwice
  <2> HIDE DEF w
  <2> QED
    BY <2>2 DEF IsGlued, OfSize, C
<1> HIDE DEF w
<1>6. Len(w) = 22
  BY <1>1, <1>5
<1>7. w[1] = b[1] /\ w[2] = b[2] /\ w[3] = d[1] /\ w[4] = d[2]
  <2>1. /\ w[1] = b[1] /\ w[2] = b[2]
        /\ w[m + 1] = d[(m + 1) - m] /\ w[m + 2] = d[(m + 2) - m]
    BY <1>1, <1>5
  <2>2. m + 1 = 3 /\ m + 2 = 4 /\ (m + 1) - m = 1 /\ (m + 2) - m = 2
    BY <1>1
  <2> QED
    BY <2>1, <2>2
<1>8. ASSUME NEW i \in 1 .. 18 PROVE w[4 + i] = e[i]
  <2>1. l + i \in 1 .. o /\ ~ (l + i <= m) /\ ~ (l + i <= l)
        /\ (l + i) - l = i /\ l + i = 4 + i
    BY <1>1
  <2>2. w[l + i] = e[(l + i) - l]
    BY <1>5, <2>1
  <2> QED
    BY <2>1, <2>2
<1> QED
  BY <1>2, <1>3, <1>5, <1>6, <1>7, <1>8 DEF IsIban, b, c, d, e, C

\* The last ten characters of the BBAN are the account number.
LEMMA SameBban ==
    ASSUME NumbersAssumption,
           NEW a \in [1 .. 10 -> Digits], NEW b \in [1 .. 10 -> Digits],
           \A i \in 1 .. 18 : Bban(a)[i] = Bban(b)[i]
    PROVE  a = b
<1>0. IsBban(Bban(a), a) /\ IsBban(Bban(b), b)
  BY BbanShape
<1>1. ASSUME NEW i \in 1 .. 10 PROVE a[i] = b[i]
  <2>1. i + 8 \in 9 .. 18 /\ i + 8 \in 1 .. 18 /\ (i + 8) - 8 = i
    OBVIOUS
  <2> QED
    BY <2>1, <1>0 DEF IsBban
<1> QED
  BY <1>1

\* No slip turns an IBAN into another's.
LEMMA NoSlip ==
    ASSUME NumbersAssumption,
           NEW a \in [1 .. 10 -> Digits], NEW b \in [1 .. 10 -> Digits], a # b,
           OneSlip(ibanOf(a), ibanOf(b))
    PROVE  FALSE
<1> DEFINE s == ibanOf(a)
           t == ibanOf(b)
           u == Summed(a, 0, 0)
           v == Summed(b, 0, 0)
           wrong == {i \in 1 .. 22 : s[i] # t[i]}
<1>1. IsIban(s, a) /\ IsIban(t, b)
  BY IbanShape
<1>2. IsSummed(u, a, 0, 0) /\ IsSummed(v, b, 0, 0)
  <2>1. 0 \in 0 .. 35
    OBVIOUS
  <2> QED
    BY <2>1, SummedShape
<1>3. \/ \E i \in 1 .. 22 : wrong = {i}
      \/ \E i \in 1 .. 21 : wrong = {i, i + 1} /\ s[i] = t[i + 1] /\ s[i + 1] = t[i]
  <2>1. PICK n \in Nat : n = 22
    OBVIOUS
  <2>2. s \in Seq(0 .. 35) /\ Len(s) = n
    BY <1>1, <2>1 DEF IsIban
  <2>3. OneSlip(s, t)
    OBVIOUS
  <2> HIDE DEF s, t
  <2>4. DOMAIN s = 1 .. n
    BY <2>2
  <2> DEFINE W == {i \in DOMAIN s : s[i] # t[i]}
  <2>5. \/ \E i \in DOMAIN s : W = {i}
        \/ \E i \in 1 .. Len(s) - 1 : W = {i, i + 1} /\ s[i] = t[i + 1] /\ s[i + 1] = t[i]
    BY <2>3 DEF OneSlip
  <2>6. W = wrong /\ DOMAIN s = 1 .. 22 /\ Len(s) - 1 = 21
    BY <2>1, <2>2, <2>4
  <2> HIDE DEF W, wrong
  <2> QED
    BY <2>5, <2>6
<1> HIDE DEF s, t, u, v
<1>4. /\ \A i \in 1 .. 18 : s[4 + i] = u[i] /\ t[4 + i] = v[i]
      /\ \A i \in 1 .. 8 : u[i] = v[i]
      /\ \A i \in 9 .. 18 : u[i] \in Digits /\ v[i] \in Digits
      /\ \A i \in 19 .. 22 : u[i] = v[i]
  <2>1. IsBban(Bban(a), a) /\ IsBban(Bban(b), b)
    BY BbanShape
  <2>2. ASSUME NEW i \in 1 .. 18
        PROVE  /\ s[4 + i] = Bban(a)[i] /\ t[4 + i] = Bban(b)[i]
               /\ u[i] = Bban(a)[i] /\ v[i] = Bban(b)[i]
    BY <1>1, <1>2 DEF IsIban, IsSummed
  <2>3. ASSUME NEW i \in 1 .. 8 PROVE u[i] = v[i]
    <3>1. i \in 1 .. 18 /\ (i \in 1 .. 4 \/ i \in 5 .. 8)
      OBVIOUS
    <3>2. Bban(a)[i] = Bban(b)[i]
      BY <2>1, <3>1 DEF IsBban
    <3> QED
      BY <2>2, <3>1, <3>2
  <2>4. ASSUME NEW i \in 9 .. 18 PROVE u[i] \in Digits /\ v[i] \in Digits
    <3>1. i \in 1 .. 18 /\ i - 8 \in 1 .. 10
      OBVIOUS
    <3>2. Bban(a)[i] = a[i - 8] /\ Bban(b)[i] = b[i - 8]
      BY <2>1 DEF IsBban
    <3> QED
      BY <2>2, <3>1, <3>2
  <2>5. ASSUME NEW i \in 19 .. 22 PROVE u[i] = v[i]
    <3>1. i = 19 \/ i = 20 \/ i = 21 \/ i = 22
      OBVIOUS
    <3> QED
      BY <1>2, <3>1 DEF IsSummed
  <2> QED
    BY <2>2, <2>3, <2>4, <2>5
\* A slip is not only before the account number,
<1>5. \E i \in 5 .. 22 : i \in wrong
  <2> SUFFICES ASSUME \A i \in 5 .. 22 : i \notin wrong
               PROVE  FALSE
    OBVIOUS
  <2>1. ASSUME NEW i \in 1 .. 18 PROVE Bban(a)[i] = Bban(b)[i]
    <3>1. 4 + i \in 5 .. 22 /\ 4 + i \in 1 .. 22
      OBVIOUS
    <3>2. s[4 + i] = t[4 + i]
      BY <3>1
    <3> QED
      BY <1>1, <3>2 DEF IsIban
  <2> QED
    BY <2>1, SameBban
\* nor in the bank code,
<1>6. \A i \in 5 .. 12 : i \notin wrong
  <2> SUFFICES ASSUME NEW i \in 5 .. 12
               PROVE  s[i] = t[i]
    OBVIOUS
  <2>1. i - 4 \in 1 .. 18 /\ i - 4 \in 1 .. 8 /\ 4 + (i - 4) = i
    OBVIOUS
  <2> QED
    BY <1>4, <2>1
\* and if the check digits are right, the remainders are the same.
<1>7. (3 \notin wrong /\ 4 \notin wrong) => mod97Remainder(u) = mod97Remainder(v)
  <2> SUFFICES ASSUME 3 \notin wrong, 4 \notin wrong
               PROVE  mod97Remainder(u) = mod97Remainder(v)
    OBVIOUS
  <2>1. s[3] = t[3] /\ s[4] = t[4]
    OBVIOUS
  <2>2. CheckNumber(a) \div 10 = CheckNumber(b) \div 10 /\ CheckNumber(a) % 10 = CheckNumber(b) % 10
    BY <1>1, <2>1 DEF IsIban
  <2>3. CheckNumber(a) \in 2 .. 98 /\ CheckNumber(b) \in 2 .. 98
    BY CheckIsOne
  <2>4. CheckNumber(a) = CheckNumber(b)
    BY <2>2, <2>3
  <2>5. /\ CheckNumber(a) = 98 - mod97Remainder(u) /\ CheckNumber(b) = 98 - mod97Remainder(v)
        /\ mod97Remainder(u) \in 0 .. 96 /\ mod97Remainder(v) \in 0 .. 96
    <3>1. \A w \in Seq(0 .. 35) : mod97Remainder(w) \in 0 .. 96
      <4> SUFFICES ASSUME NEW w \in Seq(0 .. 35)
                   PROVE  mod97Remainder(w) \in 0 .. 96
        OBVIOUS
      <4>1. PICK r : Remainders(r, w) /\ mod97Remainder(w) = r[Len(w)]
        BY RemainderUnfolds
      <4>2. Len(w) \in 0 .. Len(w)
        OBVIOUS
      <4> QED
        BY <4>1, <4>2, RemainderFacts
    <3>2. u \in Seq(0 .. 35) /\ v \in Seq(0 .. 35)
      BY <1>2 DEF IsSummed
    <3> QED
      BY <3>1, <3>2 DEF CheckNumber, u, v
  <2>6. PICK x \in 0 .. 96, y \in 0 .. 96 : x = mod97Remainder(u) /\ y = mod97Remainder(v)
    BY <2>5
  <2>7. 98 - x = 98 - y
    BY <2>4, <2>5, <2>6
  <2>8. x = y
    BY <2>7
  <2> QED
    BY <2>6, <2>8
<1>8. /\ u \in Seq(0 .. 35) /\ v \in Seq(0 .. 35) /\ Len(u) = Len(v)
      /\ Len(u) = 22
  BY <1>2 DEF IsSummed
\* Where the two differ: only in wrong places.
<1>9. ASSUME NEW i \in 1 .. 22, u[i] # v[i]
      PROVE  i + 4 \in wrong /\ i \in 9 .. 18
  <2>1. i \in 9 .. 18
    BY <1>4, <1>9
  <2>2. i \in 1 .. 18 /\ 4 + i = i + 4 /\ i + 4 \in 1 .. 22
    BY <2>1
  <2> QED
    BY <1>4, <1>9, <2>1, <2>2
<1>10. ASSUME NEW i \in 13 .. 22
       PROVE  i - 4 \in 9 .. 18 /\ i - 4 \in 1 .. 22 /\ u[i - 4] = s[i] /\ v[i - 4] = t[i]
  <2>1. i - 4 \in 1 .. 18 /\ 4 + (i - 4) = i /\ i - 4 \in 9 .. 18 /\ i - 4 \in 1 .. 22
    OBVIOUS
  <2> QED
    BY <1>4, <2>1
<1>11. CASE \E i \in 1 .. 22 : wrong = {i}
  <2>1. PICK i \in 1 .. 22 : wrong = {i}
    BY <1>11
  <2> HIDE DEF wrong
  <2>2. i \in 13 .. 22
    BY <1>5, <1>6, <2>1
  <2>3. mod97Remainder(u) = mod97Remainder(v)
    <3>1. 3 \notin wrong /\ 4 \notin wrong
      BY <2>1, <2>2
    <3> QED
      BY <1>7, <3>1
  <2>4. s[i] # t[i]
    BY <2>1 DEF wrong
  <2>5. \A j \in 1 .. 22 : j # i - 4 => u[j] = v[j]
    BY <1>9, <2>1
  <2>6. /\ i - 4 \in 1 .. Len(u) /\ u[i - 4] \in Digits /\ v[i - 4] \in Digits
        /\ u[i - 4] # v[i - 4]
    BY <1>4, <1>8, <1>10, <2>2, <2>4
  <2>7. \A j \in 1 .. Len(u) : j # i - 4 => u[j] = v[j]
    BY <1>8, <2>5
  <2> QED
    BY <1>8, <2>3, <2>6, <2>7, SlipChanges
<1>12. CASE \E i \in 1 .. 21 : wrong = {i, i + 1} /\ s[i] = t[i + 1] /\ s[i + 1] = t[i]
  <2>1. PICK i \in 1 .. 21 : wrong = {i, i + 1} /\ s[i] = t[i + 1] /\ s[i + 1] = t[i]
    BY <1>12
  <2> HIDE DEF wrong
  <2>2. i \in 13 .. 22 /\ i + 1 \in 13 .. 22
    BY <1>5, <1>6, <2>1
  <2>3. mod97Remainder(u) = mod97Remainder(v)
    <3>1. 3 \notin wrong /\ 4 \notin wrong
      BY <2>1, <2>2
    <3> QED
      BY <1>7, <3>1
  <2>4. s[i] # t[i]
    BY <2>1 DEF wrong
  <2>5. \A j \in 1 .. 22 : j \notin {i - 4, i - 3} => u[j] = v[j]
    BY <1>9, <2>1
  <2>6. u[i - 4] = s[i] /\ v[i - 4] = t[i] /\ u[i - 3] = s[i + 1] /\ v[i - 3] = t[i + 1]
        /\ i - 4 \in 9 .. 18 /\ i - 3 \in 9 .. 18
    <3>1. (i + 1) - 4 = i - 3
      OBVIOUS
    <3> QED
      BY <1>10, <2>2, <3>1
  <2>7. PICK k \in 1 .. Len(u) - 1 : k = i - 4 /\ k + 1 = i - 3
    BY <1>8, <2>6
  <2>8. /\ u[k] \in Digits /\ v[k] \in Digits /\ u[k] # v[k]
        /\ u[k] = v[k + 1] /\ u[k + 1] = v[k]
    BY <1>4, <2>1, <2>4, <2>6, <2>7
  <2>9. \A j \in 1 .. Len(u) : j \notin {k, k + 1} => u[j] = v[j]
    <3>1. {k, k + 1} = {i - 4, i - 3}
      BY <2>7
    <3> QED
      BY <1>8, <2>5, <3>1
  <2>10. u \in Seq(0 .. 35) /\ v \in Seq(0 .. 35) /\ Len(u) = Len(v)
    BY <1>8
  <2> QED
    BY <2>3, <2>8, <2>9, <2>10, SwapChanges
<1> QED
  BY <1>3, <1>11, <1>12

\* After i characters of s, of which some are spaces, at[i] of e have been seen.
Skips(at, m, n, s, e) ==
    /\ m \in Nat /\ n \in Nat
    /\ s \in Seq((0 .. 35) \cup {Space}) /\ Len(s) = m
    /\ e \in Seq(0 .. 35) /\ Len(e) = n
    /\ at \in [0 .. m -> 0 .. n] /\ at[0] = 0 /\ at[m] = n
    /\ \A i \in 1 .. m :
          \/ s[i] = Space /\ at[i] = at[i - 1]
          \/ s[i] = e[at[i]] /\ at[i] = at[i - 1] + 1

\* Then Normalize takes the spaces out.
LEMMA NormalizeSkips ==
    ASSUME NEW at, NEW m, NEW n, NEW s, NEW e, Skips(at, m, n, s, e)
    PROVE  Normalize(s) = e
<1>1. /\ s \in Seq((0 .. 35) \cup {Space}) /\ e \in Seq(0 .. 35)
      /\ at \in [0 .. Len(s) -> 0 .. Len(e)] /\ at[0] = 0 /\ at[Len(s)] = Len(e)
      /\ \A i \in 1 .. Len(s) :
              \/ s[i] = Space /\ at[i] = at[i - 1]
              \/ s[i] = e[at[i]] /\ at[i] = at[i - 1] + 1
  BY DEF Skips
<1> QED
  BY <1>1, NormalizeKeeps

\* What is typed without spaces and in upper case stays.
LEMMA NormalSelf ==
    ASSUME NEW n \in Nat, NEW s \in Seq(0 .. 35), Len(s) = n
    PROVE  Normalize(s) = s
<1> DEFINE at == [i \in 0 .. n |-> i]
<1>1. s \in Seq((0 .. 35) \cup {Space})
  OBVIOUS
<1>2. at \in [0 .. n -> 0 .. n] /\ at[0] = 0 /\ at[n] = n
  OBVIOUS
<1>3. \A i \in 1 .. n : s[i] = s[at[i]] /\ at[i] = at[i - 1] + 1
  OBVIOUS
<1> HIDE DEF at
<1>4. Skips(at, n, n, s, s)
  BY <1>1, <1>2, <1>3 DEF Skips
<1> QED
  BY <1>4, NormalizeSkips

\* f is s in blocks of four.
Blocks(f, m, n, s) ==
    /\ m \in Nat /\ n \in Nat /\ n > 0 /\ m = n + (n - 1) \div 4
    /\ s \in Seq(0 .. 35) /\ Len(s) = n
    /\ f = [i \in 1 .. m |-> IF i % 5 = 0 THEN Space ELSE s[i - i \div 5]]

\* The character of a block is the next one of s, or a space.
LEMMA BlockSteps ==
    ASSUME NEW n \in Nat, n > 0, NEW m \in Nat, m = n + (n - 1) \div 4
    PROVE  /\ m - m \div 5 = n
           /\ \A i \in 0 .. m : i - i \div 5 \in 0 .. n
           /\ \A i \in 1 .. m :
                i - i \div 5 = IF i % 5 = 0 THEN (i - 1) - (i - 1) \div 5
                               ELSE (i - 1) - (i - 1) \div 5 + 1
           /\ \A i \in 1 .. m : i % 5 # 0 => i - i \div 5 \in 1 .. n
<1>1. m - m \div 5 = n
  OBVIOUS
<1>2. \A i \in 0 .. m : i - i \div 5 \in 0 .. n
  OBVIOUS
<1>3. ASSUME NEW i \in 1 .. m
      PROVE  i - i \div 5 = IF i % 5 = 0 THEN (i - 1) - (i - 1) \div 5
                               ELSE (i - 1) - (i - 1) \div 5 + 1
  OBVIOUS
<1>4. \A i \in 1 .. m : i % 5 # 0 => i - i \div 5 \in 1 .. n
  OBVIOUS
<1> QED
  BY <1>1, <1>2, <1>3, <1>4

\* Normalize takes the spaces of Format out again.
LEMMA BlocksNormal ==
    ASSUME NEW m, NEW n, NEW f, NEW s, Blocks(f, m, n, s)
    PROVE  Normalize(f) = s
<1> DEFINE S == (0 .. 35) \cup {Space}
           at == [i \in 0 .. m |-> i - i \div 5]
<1>1. m \in Nat /\ n \in Nat /\ n > 0 /\ m = n + (n - 1) \div 4
  BY DEF Blocks
<1>2. s \in Seq(0 .. 35) /\ Len(s) = n /\ \A i \in 1 .. n : s[i] \in 0 .. 35
  BY Characters DEF Blocks
<1>3. /\ m - m \div 5 = n
      /\ \A i \in 0 .. m : i - i \div 5 \in 0 .. n
      /\ \A i \in 1 .. m :
           i - i \div 5 = IF i % 5 = 0 THEN (i - 1) - (i - 1) \div 5
                          ELSE (i - 1) - (i - 1) \div 5 + 1
      /\ \A i \in 1 .. m : i % 5 # 0 => i - i \div 5 \in 1 .. n
  BY <1>1, BlockSteps
<1>4. f \in [1 .. m -> S]
  BY <1>2, <1>3 DEF Blocks
<1>5. f \in Seq(S) /\ Len(f) = m
  <2> HIDE DEF S
  <2> QED
    BY <1>1, <1>4, OfLength
<1>6. at \in [0 .. m -> 0 .. n] /\ at[0] = 0 /\ at[m] = n
  BY <1>1, <1>3
<1>7. ASSUME NEW i \in 1 .. m
      PROVE  \/ f[i] = Space /\ at[i] = at[i - 1]
             \/ f[i] = s[at[i]] /\ at[i] = at[i - 1] + 1
  <2>1. i \in 0 .. m /\ i - 1 \in 0 .. m
    BY <1>1
  <2>2. f[i] = (IF i % 5 = 0 THEN Space ELSE s[at[i]])
    BY <2>1 DEF Blocks
  <2>3. at[i] = IF i % 5 = 0 THEN at[i - 1] ELSE at[i - 1] + 1
    BY <1>3, <2>1
  <2> QED
    BY <2>2, <2>3
<1> HIDE DEF at
<1>8. Skips(at, m, n, f, s)
  BY <1>1, <1>2, <1>5, <1>6, <1>7 DEF Skips
<1> QED
  BY <1>8, NormalizeSkips

\* An IBAN is what Normalize makes of it, typed in one piece or in blocks.
LEMMA IbanNormal ==
    ASSUME NEW s \in Seq(0 .. 35), Len(s) # 0
    PROVE  Normalize(s) = s /\ Normalize(Format(s)) = s
<1>1. PICK n \in Nat : n = Len(s)
  OBVIOUS
<1>2. Normalize(s) = s
  BY <1>1, NormalSelf
<1>3. PICK m \in Nat : m = n + (n - 1) \div 4
  BY <1>1
<1>4. Blocks(Format(s), m, n, s)
  BY <1>1, <1>2, <1>3 DEF Blocks, Format
<1> QED
  BY <1>2, <1>4, BlocksNormal
\* From m on, s holds the characters of v,
Holds(s, m, l, v) ==
    v \in Seq(0 .. 35) /\ Len(v) = l /\ \A i \in 1 .. l : s[i + m - 1] = v[i]

\* or l characters of S.
AllIn(s, m, l, S) == l # 0 /\ \A i \in 1 .. l : s[i + m - 1] \in S

\* A piece of a sequence is the sequence that holds the same characters.
LEMMA PartIs ==
    ASSUME NEW w, NEW s, NEW m, NEW l, NEW v, IsPart(w, s, m, l), Holds(s, m, l, v)
    PROVE  w = v
<1>1. /\ v \in Seq(0 .. 35) /\ w \in Seq(0 .. 35) /\ Len(w) = Len(v)
      /\ \A i \in 1 .. Len(w) : w[i] = v[i]
  BY DEF IsPart, Holds
<1> QED
  BY <1>1, SeqEqual

\* A piece of letters is all letters,
LEMMA PartOfLetters ==
    ASSUME NEW w, NEW s, NEW m, NEW l \in Nat, IsPart(w, s, m, l), AllIn(s, m, l, Letters)
    PROVE  isAllLetters(w)
<1>1. w # <<>> /\ DOMAIN w = 1 .. l /\ \A i \in 1 .. l : w[i] \in Letters
  BY DEF IsPart, AllIn
<1> QED
  BY <1>1 DEF isAllLetters

\* a piece of digits all digits.
LEMMA PartOfDigits ==
    ASSUME NEW w, NEW s, NEW m, NEW l \in Nat, IsPart(w, s, m, l), AllIn(s, m, l, Digits)
    PROVE  isAllDigits(w)
<1>1. w # <<>> /\ DOMAIN w = 1 .. l /\ \A i \in 1 .. l : w[i] \in Digits
  BY DEF IsPart, AllIn
<1> QED
  BY <1>1 DEF isAllDigits

\* The four pieces of an IBAN.
LEMMA IbanPieces ==
    ASSUME NumbersAssumption, NEW number \in [1 .. 10 -> Digits],
           NEW s, IsIban(s, number)
    PROVE  /\ Part(s, 1, 2) = CountryIE
           /\ Part(s, 3, 4) = <<CheckNumber(number) \div 10, CheckNumber(number) % 10>>
           /\ Part(s, 5, Len(s)) = Bban(number)
           /\ Part(s, 5, 8) = BankCode
<1>1. PICK k \in Nat, a \in Nat, b \in Nat, c \in Nat, d \in Nat, e \in Nat, f \in Nat, g \in Nat :
         k = 22 /\ a = 1 /\ b = 2 /\ c = 3 /\ d = 4 /\ e = 5 /\ f = 8 /\ g = 18
  OBVIOUS
<1>2. s \in Seq(0 .. 35) /\ Len(s) = k
  BY <1>1 DEF IsIban
<1>3. /\ a \in 1 .. k /\ b \in a .. k /\ b = b - a + 1
      /\ c \in 1 .. k /\ d \in c .. k /\ b = d - c + 1
      /\ e \in 1 .. k /\ k \in e .. k /\ g = k - e + 1
      /\ f \in e .. k /\ d = f - e + 1
  BY <1>1
<1>4. /\ IsPart(Part(s, a, b), s, a, b) /\ IsPart(Part(s, c, d), s, c, b)
      /\ IsPart(Part(s, e, k), s, e, g) /\ IsPart(Part(s, e, f), s, e, d)
  BY <1>2, <1>3, PartShape
<1>5. Part(s, a, b) = CountryIE
  <2>1. CountryIE \in Seq(0 .. 35) /\ Len(CountryIE) = b /\ CountryIE[1] = 18 /\ CountryIE[2] = 14
    <3>1. CountryIE \in Seq(0 .. 35) /\ Len(CountryIE) = 2 /\ CountryIE[1] = 18 /\ CountryIE[2] = 14
      BY Pair DEF CountryIE
    <3> HIDE DEF CountryIE
    <3> QED
      BY <1>1, <3>1
  <2>2. ASSUME NEW i \in 1 .. b PROVE s[i + a - 1] = CountryIE[i]
    <3>1. (i = 1 \/ i = 2) /\ i + a - 1 = i
      BY <1>1
    <3> QED
      BY <2>1, <3>1 DEF IsIban
  <2>3. Holds(s, a, b, CountryIE)
    BY <2>1, <2>2 DEF Holds
  <2> QED
    BY <1>4, <2>3, PartIs
<1>6. Part(s, c, d) = <<CheckNumber(number) \div 10, CheckNumber(number) % 10>>
  <2> DEFINE x == CheckNumber(number) \div 10
             y == CheckNumber(number) % 10
             v == <<x, y>>
  <2>1. x \in 0 .. 35 /\ y \in 0 .. 35
    BY CheckIsOne DEF Digits
  <2>2. s[3] = x /\ s[4] = y
    BY DEF IsIban
  <2> HIDE DEF x, y
  <2>3. v \in Seq(0 .. 35) /\ Len(v) = 2 /\ v[1] = x /\ v[2] = y
    BY <2>1, Pair
  <2> HIDE DEF v
  <2>4. ASSUME NEW i \in 1 .. b PROVE s[i + c - 1] = v[i]
    <3>1. (i = 1 /\ i + c - 1 = 3) \/ (i = 2 /\ i + c - 1 = 4)
      BY <1>1
    <3> QED
      BY <2>2, <2>3, <3>1
  <2>5. Len(v) = b
    BY <1>1, <2>3
  <2>6. Holds(s, c, b, v)
    BY <2>3, <2>4, <2>5 DEF Holds
  <2>7. Part(s, c, d) = v
    BY <1>4, <2>6, PartIs
  <2> QED
    BY <2>7 DEF v, x, y
<1>7. Part(s, e, k) = Bban(number)
  <2>1. Bban(number) \in Seq(0 .. 35) /\ Len(Bban(number)) = g
    BY <1>1, BbanShape DEF IsBban
  <2>2. ASSUME NEW i \in 1 .. g PROVE s[i + e - 1] = Bban(number)[i]
    <3>1. i \in 1 .. 18 /\ i + e - 1 = 4 + i
      BY <1>1
    <3> QED
      BY <3>1 DEF IsIban
  <2>3. Holds(s, e, g, Bban(number))
    BY <2>1, <2>2 DEF Holds
  <2> QED
    BY <1>4, <2>3, PartIs
<1>8. Part(s, e, f) = BankCode
  <2>1. BankCode \in Seq(0 .. 35) /\ Len(BankCode) = d
    <3>1. BankCode \in [1 .. d -> 0 .. 35]
      BY <1>1 DEF NumbersAssumption, Letters
    <3> QED
      BY <3>1, OfLength
  <2>2. ASSUME NEW i \in 1 .. d PROVE s[i + e - 1] = BankCode[i]
    <3>1. i \in 1 .. 4 /\ i \in 1 .. 18 /\ i + e - 1 = 4 + i
      BY <1>1
    <3>2. Bban(number)[i] = BankCode[i]
      BY <3>1, BbanShape DEF IsBban
    <3> QED
      BY <3>1, <3>2 DEF IsIban
  <2>3. Holds(s, e, d, BankCode)
    BY <2>1, <2>2 DEF Holds
  <2> QED
    BY <1>4, <2>3, PartIs
<1> QED
  BY <1>1, <1>2, <1>5, <1>6, <1>7, <1>8

\* Every character is a digit or a letter.
LEMMA CharactersAllowed ==
    ASSUME NEW s \in Seq(0 .. 35)
    PROVE  isAllLettersOrDigits(s)
<1>1. DOMAIN s = 1 .. Len(s) /\ \A i \in 1 .. Len(s) : s[i] \in 0 .. 35
  BY Characters
<1>2. 0 .. 35 = Digits \cup Letters
  BY DEF Digits, Letters
<1> QED
  BY <1>1, <1>2 DEF isAllLettersOrDigits

\* The fields of the BBAN are what Validate asks of them.
LEMMA BbanFields ==
    ASSUME NumbersAssumption, NEW number \in [1 .. 10 -> Digits]
    PROVE  /\ isAllLettersOrDigits(Bban(number))
           /\ isAllLetters(Part(Bban(number), 1, 4))
           /\ isAllDigits(Part(Bban(number), 5, 10))
           /\ isAllDigits(Part(Bban(number), 11, 18))
<1> DEFINE s == Bban(number)
<1>1. IsBban(s, number)
  BY BbanShape
<1> HIDE DEF s
<1>2. PICK k \in Nat, a \in Nat, b \in Nat, c \in Nat, d \in Nat, e \in Nat, f \in Nat, g \in Nat :
         k = 18 /\ a = 1 /\ b = 4 /\ c = 5 /\ d = 10 /\ e = 11 /\ f = 6 /\ g = 8
  OBVIOUS
<1>3. s \in Seq(0 .. 35) /\ Len(s) = k
  BY <1>1, <1>2 DEF IsBban
<1>4. /\ a \in 1 .. k /\ b \in a .. k /\ b = b - a + 1
      /\ c \in 1 .. k /\ d \in c .. k /\ f = d - c + 1
      /\ e \in 1 .. k /\ k \in e .. k /\ g = k - e + 1
      /\ b # 0 /\ f # 0 /\ g # 0
  BY <1>2
<1>5. /\ IsPart(Part(s, a, b), s, a, b) /\ IsPart(Part(s, c, d), s, c, f)
      /\ IsPart(Part(s, e, k), s, e, g)
  BY <1>3, <1>4, PartShape
<1>6. \A i \in 5 .. 18 : s[i] \in Digits
  <2> SUFFICES ASSUME NEW i \in 5 .. 18
               PROVE  s[i] \in Digits
    OBVIOUS
  <2>1. CASE i \in 5 .. 8
    BY <1>1, <2>1 DEF IsBban, Digits
  <2>2. CASE i \in 9 .. 18
    <3>1. i - 8 \in 1 .. 10
      BY <2>2
    <3> QED
      BY <1>1, <2>2, <3>1 DEF IsBban
  <2> QED
    BY <2>1, <2>2
<1>7. isAllLetters(Part(s, a, b))
  <2>1. ASSUME NEW i \in 1 .. b PROVE s[i + a - 1] \in Letters
    <3>1. i \in 1 .. 4 /\ i + a - 1 = i
      BY <1>2
    <3> QED
      BY <1>1, <3>1 DEF IsBban
  <2>2. AllIn(s, a, b, Letters)
    BY <1>4, <2>1 DEF AllIn
  <2> QED
    BY <1>5, <2>2, PartOfLetters
<1>8. isAllDigits(Part(s, c, d))
  <2>1. ASSUME NEW i \in 1 .. f PROVE s[i + c - 1] \in Digits
    <3>1. i + c - 1 \in 5 .. 18
      BY <1>2
    <3> QED
      BY <1>6, <3>1
  <2>2. AllIn(s, c, f, Digits)
    BY <1>4, <2>1 DEF AllIn
  <2> QED
    BY <1>5, <2>2, PartOfDigits
<1>9. isAllDigits(Part(s, e, k))
  <2>1. ASSUME NEW i \in 1 .. g PROVE s[i + e - 1] \in Digits
    <3>1. i + e - 1 \in 5 .. 18
      BY <1>2
    <3> QED
      BY <1>6, <3>1
  <2>2. AllIn(s, e, g, Digits)
    BY <1>4, <2>1 DEF AllIn
  <2> QED
    BY <1>5, <2>2, PartOfDigits
<1>10. isAllLettersOrDigits(s)
  BY <1>3, CharactersAllowed
<1> QED
  BY <1>2, <1>7, <1>8, <1>9, <1>10 DEF s

\* What Generate makes, Validate accepts.
LEMMA IbanValid ==
    ASSUME NumbersAssumption, NEW number \in [1 .. 10 -> Digits],
           NEW s, IsIban(s, number)
    PROVE  Validate(s)
<1> DEFINE x == CheckNumber(number) \div 10
           y == CheckNumber(number) % 10
           country == Part(s, 1, 2)
           check == Part(s, 3, 4)
           bban == Part(s, 5, Len(s))
<1>1. s \in Seq(0 .. 35) /\ Len(s) = 22 /\ Len(s) >= 4 /\ Len(s) # 0
  BY DEF IsIban
<1>2. Normalize(s) = s
  BY <1>1, IbanNormal
<1>3. country = CountryIE /\ check = <<x, y>> /\ bban = Bban(number)
  BY IbanPieces
<1>4. isAllLetters(country)
  <2>1. CountryIE # <<>> /\ \A i \in DOMAIN CountryIE : CountryIE[i] \in Letters
    BY DEF CountryIE, Letters
  <2> QED
    BY <1>3, <2>1 DEF isAllLetters
<1>5. x \in Digits /\ y \in Digits /\ mod97Remainder(Summed(number, x, y)) = 1
  BY CheckIsOne
<1> HIDE DEF x, y
<1>6. isAllDigits(check)
  <2>1. <<x, y>> # <<>> /\ \A i \in DOMAIN <<x, y>> : <<x, y>>[i] \in Digits
    BY <1>5
  <2> QED
    BY <1>3, <2>1 DEF isAllDigits
<1>7. Glue(Glue(bban, country), check) = Summed(number, x, y)
  BY <1>3 DEF Summed
<1>8. mod97Remainder(bban \o country \o check) = 1
  BY <1>5, <1>7 DEF Glue
<1>9. /\ isAllLettersOrDigits(bban)
      /\ isAllLetters(SubSeq(bban, 1, 4))
      /\ isAllDigits(SubSeq(bban, 5, 10))
      /\ isAllDigits(SubSeq(bban, 11, 18))
  BY <1>3, BbanFields DEF Part
<1>10. Len(s) = IELength
  BY <1>1 DEF IELength
<1> QED
  BY <1>1, <1>2, <1>4, <1>6, <1>8, <1>9, <1>10 DEF Validate, Part

\* Two numbers have two IBANs.
LEMMA IbanTells ==
    ASSUME NumbersAssumption,
           NEW a \in [1 .. 10 -> Digits], NEW b \in [1 .. 10 -> Digits],
           ibanOf(a) = ibanOf(b)
    PROVE  a = b
<1> DEFINE s == ibanOf(a)
<1>1. IsIban(s, a) /\ IsIban(s, b)
  BY IbanShape
<1> HIDE DEF s
<1>2. \A i \in 1 .. 18 : Bban(a)[i] = Bban(b)[i]
  BY <1>1 DEF IsIban
<1> QED
  BY <1>2, SameBban

-----------------------------------------------------------------------------
(***************************************************************************)
(* The IBANs of the accounts.                                              *)
(***************************************************************************)
\* An account number is ten digits.
LEMMA NumbersDrawn ==
    ASSUME IndInv, NEW u \in Opened
    PROVE  accounts[u].number \in [1 .. 10 -> Digits]
<1>1. accounts[u] \in Row
  BY DEF IndInv, Types, Opened
<1> QED
  BY <1>1, NumbersAssumption DEF Row, NumbersAssumption

\* An IBAN is not the empty string.
LEMMA NotEmpty ==
    ASSUME NEW s \in Seq(0 .. 35), Len(s) = 22
    PROVE  s # <<>>
<1>1. PICK n \in Nat : n = 22
  OBVIOUS
<1>2. Len(s) = n /\ 1 \in 1 .. n
  BY <1>1
<1>3. DOMAIN s = 1 .. n
  BY <1>2
<1>4. 1 \in DOMAIN s /\ 1 \notin DOMAIN <<>>
  BY <1>2, <1>3
<1> QED
  BY <1>4

\* What the lookup answers for the IBAN of an open account.
LEMMA IbanResolves ==
    ASSUME IndInv, NEW u \in Opened, IbanServed(u)
    PROVE  ResolveAccountByIban(Format(accounts[u].iban)) = u
<1> DEFINE number == accounts[u].number
           s == accounts[u].iban
           found == getAccountByIBAN(s)
<1>1. number \in [1 .. 10 -> Digits] /\ s = ibanOf(number)
  BY NumbersDrawn DEF IbanServed
<1> HIDE DEF number
<1>2. IsIban(s, number)
  BY <1>1, NumbersAssumption, IbanShape
<1>3. \A v \in Opened : accounts[v].iban = s => v = u
  <2> SUFFICES ASSUME NEW v \in Opened, accounts[v].iban = s
               PROVE  v = u
    OBVIOUS
  <2>1. s # <<>>
    <3>1. s \in Seq(0 .. 35) /\ Len(s) = 22
      BY <1>2 DEF IsIban
    <3> QED
      BY <3>1, NotEmpty
  <2>2. ibanOf(accounts[v].number) = ibanOf(number) /\ accounts[v].number \in [1 .. 10 -> Digits]
    BY <1>1, <2>1, NumbersDrawn DEF IndInv, IbansMade, IbanServed
  <2>3. accounts[v].number = number
    BY <1>1, <2>2, NumbersAssumption, IbanTells
  <2> QED
    BY <2>3 DEF IndInv, IbansMade, number
<1> HIDE DEF s
<1>4. s \in Seq(0 .. 35) /\ Len(s) # 0 /\ Len(s) = IELength
  BY <1>2 DEF IsIban, IELength
<1>5. Normalize(Format(s)) = s
  BY <1>4, IbanNormal
<1>6. Validate(s)
  BY <1>1, <1>2, NumbersAssumption, IbanValid
<1>7. Part(s, 1, 2) = CountryIE /\ Part(s, 5, 8) = BankCode
  BY <1>1, <1>2, NumbersAssumption, IbanPieces
<1>8. SubSeq(s, 1, 2) = CountryIE /\ SubSeq(s, 5, 8) = BankCode
  BY <1>7 DEF Part
<1>9. u \in found
  BY DEF getAccountByIBAN, s
<1>10. found # {} /\ (CHOOSE v \in Opened : accounts[v].iban = s) = u
  BY <1>3, <1>9 DEF s
<1>11. ResolveAccountByIban(Format(s)) = u
  BY <1>4, <1>5, <1>6, <1>8, <1>10 DEF ResolveAccountByIban
<1> QED
  BY <1>11 DEF s

-----------------------------------------------------------------------------
(***************************************************************************)
(* The theorems.                                                           *)
(***************************************************************************)

\* Every reachable state of accounts-svc satisfies the inductive invariant.
THEOREM SpecIndInv == Spec => []IndInv
<1> QED BY InitIndInv, NextIndInv, PTL DEF Spec

\* handleUserActivated, redelivered after any crash, opens one account per
\* user and announces it once; what it marked or the group committed without
\* an error has an account and a ledger account.
THEOREM AccountsAreProvisionedOnce == Spec => []ProvisionedOnce
<1>1. ASSUME IndInv PROVE ProvisionedOnce
  <2>1. \A u \in Users \ DOMAIN Legacy :
          Cardinality({i \in DOMAIN created : created[i] = u}) = IF u \in Opened THEN 1 ELSE 0
    BY <1>1 DEF IndInv, AnnouncedOnce, Announcements
  <2>2. DOMAIN log = 1 .. Len(log)
    BY <1>1 DEF IndInv, Types
  <2>3. \A i \in 1 .. Len(log) :
          i \in processed \/ (i <= committed /\ i \notin lapsed) => Provisioned(log[i].user)
    BY <1>1 DEF IndInv, Passed
  <2> QED BY <2>1, <2>2, <2>3 DEF ProvisionedOnce
<1> QED BY <1>1, SpecIndInv, PTL

\* tryCreateAccount's ON CONFLICT DO NOTHING and updateAccountStatus's row lock:
\* no step reopens a closed account or changes an account's number.
THEOREM DecisionsAreKept == Spec => AccountsAreKept
<1> DEFINE Kept == \A u \in Opened :
             /\ accounts[u].status = "closed" => accounts'[u].status = "closed"
             /\ accounts'[u].number = accounts[u].number
<1>1. ASSUME IndInv, [Next]_vars PROVE [Kept]_vars
  <2>1. CASE UNCHANGED accounts
    BY <2>1
  <2>2. CASE createAccountForUser
    BY <1>1, <2>2, CreateIndInv
  <2>3. CASE backfillIBANs
    <3>1. \A u \in Opened : accounts'[u].number = accounts[u].number
      BY <1>1, <2>3, UpdateIndInv
    <3>2. PICK w \in Opened : accounts' = [accounts EXCEPT ![w].iban = ibanOf(accounts[w].number)]
      BY <2>3 DEF backfillIBANs
    <3>3. \A u \in Opened : u \in Users /\ accounts[u] \in Row
      BY <1>1 DEF IndInv, Types, Opened
    <3>4. \A u \in Opened : accounts'[u].status = accounts[u].status
      BY <1>1, <3>2, <3>3 DEF IndInv, Types, Row
    <3> QED BY <3>1, <3>4
  <2>4. ASSUME NEW w \in Users, NEW s \in Statuses, updateAccountStatus(w, s)
        PROVE  Kept
    <3>1. \A u \in Opened : accounts'[u].number = accounts[u].number
      BY <1>1, <2>4, UpdateIndInv
    <3>2. \A u \in Users : u # w => accounts'[u] = accounts[u]
      BY <1>1, <2>4 DEF updateAccountStatus, IndInv, Types
    <3>3. accounts[w].status # "closed"
      BY <2>4 DEF updateAccountStatus
    <3> QED BY <3>1, <3>2, <3>3 DEF Opened
  <2>5. CASE Serve \/ Crash \/ Restart \/ runUserActivatedConsumer
    BY <1>1, <2>1, <2>5, ProcessIndInv
  <2>6. CASE isEventProcessed \/ createLedgerAccountForAccount \/ markEventProcessed
    BY <1>1, <2>1, <2>6, HandleIndInv
  <2>7. CASE HandlerFails \/ DrawsExhausted \/ CommitMessages
    BY <1>1, <2>1, <2>7, DoneIndInv
  <2>8. CASE \E u \in Users : PublishEvent(u)
    <3>1. UNCHANGED accounts
      BY <2>8 DEF PublishEvent, tables
    <3> QED BY <2>1, <3>1
  <2>9. CASE UNCHANGED vars
    BY <2>9 DEF vars
  <2> QED BY <1>1, <2>2, <2>3, <2>4, <2>5, <2>6, <2>7, <2>8, <2>9 DEF Next, Consume
<1> QED BY <1>1, SpecIndInv, PTL DEF Spec, AccountsAreKept

\* What a served account shows is its own: the IBAN that Generate makes of its
\* account number, and a number nobody else has.
ServedIbansAreOwn ==
    proc = "up" => \A u \in Opened :
        /\ accounts[u].iban = ibanOf(accounts[u].number)
        /\ \A v \in Opened \ {u} : accounts[v].number # accounts[u].number

\* While the service answers requests, backfillIBANs has reached every account
\* from before the column, and tryCreateAccount's draws and redeliveries have
\* mixed up neither numbers nor IBANs.
THEOREM IbansAreOwn == Spec => []ServedIbansAreOwn
<1>1. ASSUME IndInv PROVE ServedIbansAreOwn
  BY <1>1 DEF IndInv, IbansMade, IbanServed, ServedIbansAreOwn
<1> QED BY <1>1, SpecIndInv, PTL
\* What Generate made and backfillIBANs filled in passes Validate, is found by
\* ResolveAccountByIban in blocks of four, and is told by its check digits from
\* whatever one wrong character or two swapped ones make of another's.
THEOREM IbansAreSound == Spec => []IbansSound
<1>1. ASSUME IndInv PROVE IbansSound
  <2> SUFFICES ASSUME proc = "up", NEW u \in Opened
               PROVE  /\ Validate(accounts[u].iban)
                      /\ ResolveAccountByIban(Format(accounts[u].iban)) = u
                      /\ \A v \in Opened \ {u} : ~OneSlip(accounts[u].iban, accounts[v].iban)
    BY DEF IbansSound
  <2>1. \A v \in Opened :
           accounts[v].number \in [1 .. 10 -> Digits] /\ IbanServed(v)
    BY <1>1, NumbersDrawn DEF IndInv, IbansMade
  <2>2. Validate(accounts[u].iban)
    <3>1. IsIban(accounts[u].iban, accounts[u].number)
      BY <2>1, NumbersAssumption, IbanShape DEF IbanServed
    <3> QED
      BY <2>1, <3>1, NumbersAssumption, IbanValid
  <2>3. ResolveAccountByIban(Format(accounts[u].iban)) = u
    BY <1>1, <2>1, IbanResolves
  <2>4. ASSUME NEW v \in Opened \ {u}, OneSlip(accounts[u].iban, accounts[v].iban)
        PROVE  FALSE
    <3>1. accounts[u].number # accounts[v].number
      BY <1>1 DEF IndInv, IbansMade
    <3>2. OneSlip(ibanOf(accounts[u].number), ibanOf(accounts[v].number))
      BY <2>1, <2>4 DEF IbanServed
    <3> QED
      BY <2>1, <3>1, <3>2, NumbersAssumption, NoSlip
  <2> QED
    BY <2>2, <2>3, <2>4
<1> QED BY <1>1, SpecIndInv, PTL
=============================================================================

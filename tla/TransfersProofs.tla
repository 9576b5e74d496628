-------------------------- MODULE TransfersProofs ---------------------------
(***************************************************************************)
(* Proofs about Transfers for any number of keys, requests, handlers and   *)
(* reconcilers.                                                            *)
(***************************************************************************)
EXTENDS Transfers, TLAPS, FiniteSetTheorems

\* The answers of createTransferHandler.
Outcomes == {"none", "created", "accepted", "replayed", "key_reused", "refused"}

\* What TypeOK leaves open: the domains of reply and outbox.
Shape ==
    /\ reply \in [Handlers -> [outcome : Outcomes, status : Statuses]]
    /\ outbox \in [Keys -> Seq(Events)]

\* A key has a row exactly when it has a status, and the row is the request
\* of that key whose INSERT won.
RowsFollowStatus ==
    \A k \in Keys :
        /\ status[k] = "none" => row[k] = NoRow
        /\ status[k] # "none" => row[k] \in Requests /\ row[k].key = k

\* The handler between the INSERT and its answer is alone on its transfer,
\* which is its own and pending, and it sends one call at most.
FlightOwnsRow ==
    /\ \A h \in Handlers : hpc[h] \in InFlight =>
          /\ row[hreq[h].key] = hreq[h]
          /\ status[hreq[h].key] = "pending"
    /\ \A h, g \in Handlers :
          (hpc[h] \in InFlight /\ hpc[g] \in InFlight /\
           hreq[h].key = hreq[g].key) => h = g
    /\ \A h \in Handlers :
          hpc[h] \in InFlight \ {"await"} => call[hreq[h].key] = "none"

\* A call is made for a pending row only, and the row is not resolved while it
\* runs unless it has gone stale; a posting is an answered call's, or a late
\* one's.
CallsFollowRows ==
    \A k \in Keys :
        /\ status[k] = "none" => call[k] = "none"
        /\ call[k] = "sent" => ~Posted(k) /\ (status[k] = "pending" \/ k \in stale)
        /\ Posted(k) => call[k] \in {"ok", "ledger_internal_error", "late"}
        /\ call[k] = "ok" => Posted(k)
        /\ call[k] = "late" => k \in stale

\* A row old enough for the reconciler has no request in flight any more.
StaleIsQuiet ==
    \A k \in stale :
        /\ status[k] # "none"
        /\ \A h \in Handlers : hreq[h].key = k => hpc[h] \notin InFlight

\* What a reconciler holds is stale, so the ledger's answer is still true when
\* it is written, unless a late call was executed in between.
ReconcilersHoldStale ==
    \A r \in Reconcilers :
        /\ todo[r] \subseteq stale
        /\ rpc[r] = "write" =>
              /\ current[r] \in stale
              /\ found[r] => Posted(current[r])
              /\ ~found[r] /\ Posted(current[r]) => call[current[r]] = "late"

\* A failure the ledger does not contradict now and, the two named cases
\* aside, never will.
Excused(k, why) ==
    \/ ~Posted(k) /\ call[k] # "sent"
    \/ why = "ledger_internal_error" /\ call[k] = "ledger_internal_error"
    \/ why = "timeout_unresolved" /\ call[k] \in {"sent", "late"}

\* The journal holds one record per posted transfer, that of its row.
JournalFollowsRows ==
    /\ \A j \in journal :
          /\ j.ref \in Keys
          /\ j.from = row[j.ref].sender
          /\ j.to = row[j.ref].recipient
          /\ j.amount = row[j.ref].amount
    /\ \A i, j \in journal : i.ref = j.ref => i = j

\* What the status says of the ledger.
VerdictsAreTrue ==
    \A k \in Keys :
        /\ status[k] = "completed" => Posted(k)
        /\ status[k] = "rejected" => ~Posted(k) /\ call[k] # "sent"
        /\ status[k] = "failed" => Excused(k, reason[k])

\* Outcomes are set with the answer; a status kept for a replay is that of
\* an existing row.
RepliesFollowSteps ==
    \A h \in Handlers :
        /\ hpc[h] # "done" => reply[h].outcome = "none"
        /\ hpc[h] = "replay" =>
              /\ status[hreq[h].key] # "none"
              /\ reply[h].status \in Terminal =>
                    reply[h].status = status[hreq[h].key]

\* The inductive invariant.
IndInv ==
    /\ TypeOK
    /\ Shape
    /\ RowsFollowStatus
    /\ FlightOwnsRow
    /\ CallsFollowRows
    /\ StaleIsQuiet
    /\ ReconcilersHoldStale
    /\ JournalFollowsRows
    /\ VerdictsAreTrue
    /\ OneVerdict
    /\ RepliesFollowSteps
    /\ RepliesAreOwn

-----------------------------------------------------------------------------
\* NoRequest is a request, and every request has its key among Keys.
LEMMA RequestFacts ==
    /\ NoRequest \in Requests
    /\ \A q \in Requests : q.key \in Keys /\ q # NoRow
  BY TransfersAssumption DEF NoRequest, TransferRequest, NoRow

\* Empty table, no calls, no work.
LEMMA InitIndInv == Init => IndInv
<1> SUFFICES ASSUME Init PROVE IndInv
  OBVIOUS
<1> USE RequestFacts DEF Init
<1>1. TypeOK
  BY TransfersAssumption DEF TypeOK, NoReply, Statuses, Reasons, HandlerSteps, CallStates
<1>2. Shape
  BY DEF Shape, NoReply, Statuses, Outcomes
<1>3. \A k \in Keys : ~Posted(k)
  BY DEF Posted, Ldg!Tagged
<1>4. /\ RowsFollowStatus
      /\ CallsFollowRows
      /\ VerdictsAreTrue
      /\ JournalFollowsRows
      /\ OneVerdict
  BY <1>3 DEF RowsFollowStatus, CallsFollowRows, VerdictsAreTrue,
              JournalFollowsRows, OneVerdict, Terminal
<1>5. FlightOwnsRow /\ StaleIsQuiet /\ ReconcilersHoldStale
  BY DEF FlightOwnsRow, StaleIsQuiet, ReconcilersHoldStale, InFlight
<1>6. RepliesFollowSteps /\ RepliesAreOwn
  BY DEF RepliesFollowSteps, RepliesAreOwn, NoReply
<1> QED BY <1>1, <1>2, <1>4, <1>5, <1>6 DEF IndInv

\* The parts that speak of the tables only.
LEMMA TablesUnchanged ==
    ASSUME IndInv, UNCHANGED <<ledger, table, stale, call, worker>>
    PROVE  /\ RowsFollowStatus'
           /\ CallsFollowRows'
           /\ ReconcilersHoldStale'
           /\ JournalFollowsRows'
           /\ VerdictsAreTrue'
           /\ OneVerdict'
  BY DEF IndInv, ledger, table, worker, RowsFollowStatus, CallsFollowRows,
         ReconcilersHoldStale, JournalFollowsRows, VerdictsAreTrue, OneVerdict,
         Excused, Posted, Ldg!Tagged

\* A new request is not in flight before its INSERT.
LEMMA ReceiveIndInv ==
    ASSUME IndInv, NEW h \in Handlers, NEW q \in Requests, Receive(h, q)
    PROVE  IndInv'
<1> USE RequestFacts DEF IndInv, Receive
<1>1. TypeOK' /\ Shape'
  BY TransfersAssumption DEF TypeOK, Shape, ledger, table, worker, HandlerSteps
<1>2. FlightOwnsRow' /\ StaleIsQuiet'
  BY DEF TypeOK, FlightOwnsRow, StaleIsQuiet, table, InFlight
<1>3. RepliesFollowSteps' /\ RepliesAreOwn'
  BY DEF TypeOK, Shape, RepliesFollowSteps, RepliesAreOwn, table
<1> QED BY <1>1, <1>2, <1>3, TablesUnchanged

\* The status read is that of the row under the request's key.
LEMMA LookupIndInv ==
    ASSUME IndInv, NEW h \in Handlers, Lookup(h)
    PROVE  IndInv'
<1> USE RequestFacts DEF IndInv, Lookup
<1>1. TypeOK' /\ Shape'
  BY ZenonT(40) DEF TypeOK, Shape, ledger, table, worker, HandlerSteps
<1>2. FlightOwnsRow' /\ StaleIsQuiet'
  BY DEF TypeOK, FlightOwnsRow, StaleIsQuiet, table, InFlight
<1>3. RepliesFollowSteps' /\ RepliesAreOwn'
  BY DEF TypeOK, Shape, RepliesFollowSteps, RepliesAreOwn, table, Terminal
<1> QED BY <1>1, <1>2, <1>3, TablesUnchanged

\* A handler that moves on without touching the tables.
LEMMA GoToIndInv ==
    ASSUME IndInv, NEW h \in Handlers,
           NEW step \in {"insert", "settle", "reject"},
           GoTo(h, step), hpc[h] # "done",
           step # "insert" => hpc[h] = "fraud",
           UNCHANGED <<ledger, table, stale, call, worker>>
    PROVE  IndInv'
<1> USE RequestFacts DEF IndInv, GoTo
<1>1. TypeOK' /\ Shape'
  BY DEF TypeOK, Shape, ledger, table, worker, HandlerSteps
<1>2. FlightOwnsRow' /\ StaleIsQuiet'
  BY DEF TypeOK, FlightOwnsRow, StaleIsQuiet, table, InFlight
<1>3. RepliesFollowSteps' /\ RepliesAreOwn'
  BY DEF TypeOK, Shape, RepliesFollowSteps, RepliesAreOwn, table
<1> QED BY <1>1, <1>2, <1>3, TablesUnchanged

\* A handler that answers without touching the tables: the answer has to be
\* about the row of its own request.
LEMMA AnswerIndInv ==
    ASSUME IndInv, NEW h \in Handlers, NEW outcome \in Outcomes, NEW st \in Statuses,
           Answer(h, outcome, st), hpc[h] # "done",
           outcome \in {"created", "accepted", "replayed"} =>
               /\ row[hreq[h].key] = hreq[h]
               /\ st \in Terminal => st = status[hreq[h].key],
           UNCHANGED <<ledger, table, stale, call, worker>>
    PROVE  IndInv'
<1> USE RequestFacts DEF IndInv, Answer
<1>1. /\ hpc' \in [Handlers -> HandlerSteps]
      /\ reply' \in [Handlers -> [outcome : Outcomes, status : Statuses]]
      /\ \A g \in Handlers : reply'[g] = IF g = h
            THEN [outcome |-> outcome, status |-> st] ELSE reply[g]
  BY DEF TypeOK, Shape, HandlerSteps
<1>2. TypeOK' /\ Shape'
  BY <1>1 DEF TypeOK, Shape, ledger, table, worker
<1>3. FlightOwnsRow' /\ StaleIsQuiet'
  BY DEF TypeOK, FlightOwnsRow, StaleIsQuiet, table, InFlight
<1>4. RepliesFollowSteps' /\ RepliesAreOwn'
  BY <1>1 DEF TypeOK, RepliesFollowSteps, RepliesAreOwn, table
<1> QED BY <1>2, <1>3, <1>4, TablesUnchanged

\* A replay answers with the row only when it is this very request's: the
\* key matches by RowsFollowStatus, the rest was compared.
LEMMA ReplayIndInv ==
    ASSUME IndInv, NEW h \in Handlers, Replay(h)
    PROVE  IndInv'
<1>1. /\ hpc[h] = "replay"
      /\ UNCHANGED <<ledger, table, stale, call, worker>>
      /\ reply[h].status \in Statuses
  BY DEF Replay, IndInv, TypeOK
<1>2. CASE SameRequest(hreq[h], row[hreq[h].key])
  <2>1. Answer(h, "replayed", reply[h].status)
    BY <1>2 DEF Replay
  <2>2. hreq[h] \in TransferRequest /\ row[hreq[h].key] \in TransferRequest
    BY <1>1, RequestFacts, TransfersAssumption
       DEF IndInv, TypeOK, RepliesFollowSteps, RowsFollowStatus
  <2>3. row[hreq[h].key].key = hreq[h].key
    BY <1>1, RequestFacts DEF IndInv, TypeOK, RepliesFollowSteps, RowsFollowStatus
  <2>4. row[hreq[h].key] = hreq[h]
    BY <1>2, <2>2, <2>3 DEF SameRequest, TransferRequest
  <2>5. reply[h].status \in Terminal => reply[h].status = status[hreq[h].key]
    BY <1>1 DEF IndInv, RepliesFollowSteps
  <2> QED BY <1>1, <2>1, <2>4, <2>5, AnswerIndInv DEF Outcomes
<1>3. CASE ~SameRequest(hreq[h], row[hreq[h].key])
  <2>1. Answer(h, "key_reused", "none")
    BY <1>3 DEF Replay
  <2> QED BY <1>1, <2>1, AnswerIndInv DEF Statuses, Outcomes
<1> QED BY <1>2, <1>3

\* Validation either lets the request on to its INSERT or refuses it.
LEMMA ValidateIndInv ==
    ASSUME IndInv, NEW h \in Handlers, Validate(h)
    PROVE  IndInv'
<1>1. hpc[h] = "validate" /\ UNCHANGED <<ledger, table, stale, call, worker>>
  BY DEF Validate
<1>2. CASE GoTo(h, "insert")
  BY <1>1, <1>2, GoToIndInv
<1>3. CASE Answer(h, "refused", "none")
  BY <1>1, <1>3, AnswerIndInv DEF Statuses, Outcomes
<1> QED BY <1>2, <1>3 DEF Validate

\* The row of a request in flight is its own, and pending.
LEMMA AcceptedIndInv ==
    ASSUME IndInv, NEW h \in Handlers, hpc[h] \in InFlight,
           Answer(h, "accepted", "pending"),
           UNCHANGED <<ledger, table, stale, call, worker>>
    PROVE  IndInv'
<1>1. row[hreq[h].key] = hreq[h] /\ hpc[h] # "done"
  BY DEF IndInv, FlightOwnsRow, InFlight
<1>2. "pending" \in Statuses \ Terminal
  BY DEF Statuses, Terminal
<1> QED BY <1>1, <1>2, AnswerIndInv DEF Outcomes

\* The fraud verdict keeps the request in flight, or leaves the row pending.
LEMMA CheckFraudIndInv ==
    ASSUME IndInv, NEW h \in Handlers, CheckFraud(h)
    PROVE  IndInv'
<1>1. /\ hpc[h] = "fraud" /\ hpc[h] \in InFlight
      /\ UNCHANGED <<ledger, table, stale, call, worker>>
  BY DEF CheckFraud, InFlight
<1>2. CASE GoTo(h, "settle")
  BY <1>1, <1>2, GoToIndInv
<1>3. CASE GoTo(h, "reject")
  BY <1>1, <1>3, GoToIndInv
<1>4. CASE Answer(h, "accepted", "pending")
  BY <1>1, <1>4, AcceptedIndInv
<1> QED BY <1>2, <1>3, <1>4 DEF CheckFraud

\* A lost answer leaves the row pending and the call where it is.
LEMMA SettleUncertainIndInv ==
    ASSUME IndInv, NEW h \in Handlers, SettleUncertain(h)
    PROVE  IndInv'
  BY AcceptedIndInv DEF SettleUncertain, InFlight

\* A crash forgets the request, not what it wrote.
LEMMA StopIndInv ==
    ASSUME IndInv, NEW h \in Handlers, Stop(h)
    PROVE  IndInv'
<1> USE RequestFacts DEF IndInv, Stop
<1>1. /\ hpc' \in [Handlers -> HandlerSteps]
      /\ hreq' \in [Handlers -> Requests]
      /\ reply' \in [Handlers -> [outcome : Outcomes, status : Statuses]]
      /\ \A g \in Handlers : reply'[g] = IF g = h THEN NoReply ELSE reply[g]
  BY DEF TypeOK, Shape, HandlerSteps, NoReply, Statuses, Outcomes
<1>2. TypeOK' /\ Shape'
  BY <1>1 DEF TypeOK, Shape, ledger, table, worker
<1>3. FlightOwnsRow' /\ StaleIsQuiet'
  BY DEF TypeOK, FlightOwnsRow, StaleIsQuiet, table, InFlight
<1>4. RepliesFollowSteps' /\ RepliesAreOwn'
  BY <1>1 DEF TypeOK, RepliesFollowSteps, RepliesAreOwn, table, NoReply
<1> QED BY <1>2, <1>3, <1>4, TablesUnchanged

-----------------------------------------------------------------------------
\* The INSERT that wins makes the request's row, on which nobody else is.
LEMMA InsertIndInv ==
    ASSUME IndInv, NEW h \in Handlers, Insert(h)
    PROVE  IndInv'
<1> DEFINE k == hreq[h].key
<1> USE RequestFacts DEF IndInv, Insert, GoTo
<1>1. k \in Keys /\ hpc[h] = "insert" /\ UNCHANGED <<ledger, stale, call, worker>>
  BY DEF TypeOK
<1>2. CASE status[k] = "none"
  <2>1. /\ row' = [row EXCEPT ![k] = hreq[h]]
        /\ status' = [status EXCEPT ![k] = "pending"]
        /\ UNCHANGED <<reason, outbox, hreq, reply, received>>
        /\ hpc' = [hpc EXCEPT ![h] = "fraud"]
    BY <1>2
  <2>2. ~Posted(k) /\ call[k] = "none" /\ k \notin stale
    BY <1>1, <1>2 DEF CallsFollowRows, StaleIsQuiet
  <2>3. \A x \in Keys : Posted(x)' = Posted(x)
    BY <1>1 DEF Posted, Ldg!Tagged, ledger
  <2>4. \A j \in journal : j.ref # k
    BY <2>2, <1>1, TransfersAssumption DEF Posted, Ldg!Tagged, NoRef
  <2>5. TypeOK' /\ Shape'
    BY <1>1, <2>1 DEF TypeOK, Shape, ledger, worker, HandlerSteps, Statuses
  <2>6. RowsFollowStatus' /\ OneVerdict' /\ VerdictsAreTrue' /\ CallsFollowRows'
    <3>1. RowsFollowStatus'
      BY <1>1, <2>1 DEF TypeOK, RowsFollowStatus
    <3>2. OneVerdict'
      BY <1>1, <1>2, <2>1 DEF TypeOK, OneVerdict, Terminal
    <3>3. VerdictsAreTrue'
      BY <1>1, <2>1, <2>3 DEF TypeOK, VerdictsAreTrue, Excused
    <3>4. CallsFollowRows'
      BY <1>1, <2>1, <2>2, <2>3 DEF TypeOK, CallsFollowRows
    <3> QED BY <3>1, <3>2, <3>3, <3>4
  <2>7. FlightOwnsRow'
    <3>1. \A g \in Handlers : hpc[g] \in InFlight => hreq[g].key # k
      BY <1>2 DEF FlightOwnsRow
    <3>2. \A g \in Handlers : hpc'[g] \in InFlight => g = h \/ hpc[g] \in InFlight
      BY <2>1 DEF TypeOK
    <3> QED BY <1>1, <2>1, <2>2, <3>1, <3>2 DEF TypeOK, FlightOwnsRow, InFlight
  <2>8. StaleIsQuiet'
    BY <1>1, <2>1, <2>2 DEF TypeOK, StaleIsQuiet
  <2>9. ReconcilersHoldStale' /\ JournalFollowsRows'
    BY <1>1, <2>1, <2>3, <2>4
       DEF TypeOK, ReconcilersHoldStale, JournalFollowsRows, ledger, worker
  <2>10. RepliesFollowSteps' /\ RepliesAreOwn'
    BY <1>1, <1>2, <2>1
       DEF TypeOK, RepliesFollowSteps, RepliesAreOwn, RowsFollowStatus, Terminal
  <2> QED BY <2>5, <2>6, <2>7, <2>8, <2>9, <2>10
<1>3. CASE status[k] # "none"
  <2>1. /\ UNCHANGED <<ledger, table, stale, call, worker, hreq, reply, received>>
        /\ hpc' = [hpc EXCEPT ![h] = "lookup"]
    BY <1>1, <1>3
  <2>2. TypeOK' /\ Shape'
    BY <2>1 DEF TypeOK, Shape, ledger, table, worker, HandlerSteps
  <2>3. FlightOwnsRow' /\ StaleIsQuiet'
    BY <2>1 DEF TypeOK, FlightOwnsRow, StaleIsQuiet, table, InFlight
  <2>4. RepliesFollowSteps' /\ RepliesAreOwn'
    BY <1>1, <2>1 DEF TypeOK, RepliesFollowSteps, RepliesAreOwn, table
  <2> QED BY <2>1, <2>2, <2>3, <2>4, TablesUnchanged
<1> QED BY <1>2, <1>3

\* A verdict on a pending row whose call is over or late, when it tells the
\* truth about the ledger.
LEMMA MarkTables ==
    ASSUME IndInv, NEW k \in Keys, NEW st \in Terminal, NEW why \in Reasons,
           Mark(k, st, why), status[k] = "pending",
           call[k] # "sent" \/ k \in stale,
           st = "completed" => Posted(k),
           st = "rejected" => ~Posted(k) /\ call[k] # "sent",
           st = "failed" => Excused(k, why),
           UNCHANGED <<ledger, stale, call>>
    PROVE  /\ status' \in [Keys -> Statuses]
           /\ reason' \in [Keys -> Reasons]
           /\ outbox' \in [Keys -> Seq(Events)]
           /\ RowsFollowStatus'
           /\ CallsFollowRows'
           /\ JournalFollowsRows'
           /\ VerdictsAreTrue'
           /\ OneVerdict'
<1> USE DEF IndInv, Mark
<1>1. EventFor(st) \in Events
  BY DEF EventFor, Events, Terminal
<1>2. \A x \in Keys : Posted(x)' = Posted(x)
  BY DEF Posted, Ldg!Tagged, ledger
<1>3. status' \in [Keys -> Statuses] /\ reason' \in [Keys -> Reasons]
  BY DEF TypeOK, Statuses
<1>4. outbox' \in [Keys -> Seq(Events)]
  BY <1>1 DEF Shape
<1>5. RowsFollowStatus' /\ CallsFollowRows' /\ VerdictsAreTrue'
  <2>1. \A x \in Keys \ {k} : status'[x] = status[x] /\ reason'[x] = reason[x]
    BY DEF TypeOK
  <2>2. status'[k] = st /\ reason'[k] = why /\ UNCHANGED <<row, call, stale>>
    BY DEF TypeOK
  <2>3. RowsFollowStatus'
    BY <2>1, <2>2 DEF RowsFollowStatus, Terminal
  <2>4. CallsFollowRows'
    BY <1>2, <2>1, <2>2 DEF CallsFollowRows, Terminal
  <2>5. VerdictsAreTrue'
    BY <1>2, <2>1, <2>2 DEF VerdictsAreTrue, Excused
  <2> QED BY <2>3, <2>4, <2>5
<1>6. JournalFollowsRows'
  BY DEF JournalFollowsRows, ledger
<1>7. outbox[k] = <<>>
  BY DEF OneVerdict, Terminal
<1>8. OneVerdict'
  <2>1. outbox'[k] = <<EventFor(st)>> /\ status'[k] = st
    BY <1>1, <1>7 DEF Shape, TypeOK
  <2>2. \A x \in Keys \ {k} : outbox'[x] = outbox[x] /\ status'[x] = status[x]
    BY DEF Shape, TypeOK
  <2> QED BY <2>1, <2>2 DEF OneVerdict
<1> QED BY <1>3, <1>4, <1>5, <1>6, <1>8

\* The handler whose request is in flight gives the verdict and answers.
LEMMA VerdictIndInv ==
    ASSUME IndInv, NEW h \in Handlers, NEW st \in Terminal, NEW why \in Reasons,
           hpc[h] \in InFlight,
           Mark(hreq[h].key, st, why), Answer(h, "created", st),
           call[hreq[h].key] # "sent",
           st = "completed" => Posted(hreq[h].key),
           st = "rejected" => ~Posted(hreq[h].key),
           st = "failed" => Excused(hreq[h].key, why),
           UNCHANGED <<ledger, stale, call, worker>>
    PROVE  IndInv'
<1> DEFINE k == hreq[h].key
<1>1. k \in Keys
  BY RequestFacts DEF IndInv, TypeOK
<1>2. status[k] = "pending" /\ row[k] = hreq[h]
  BY DEF IndInv, FlightOwnsRow
<1> HIDE DEF k
<1>3. /\ status' \in [Keys -> Statuses]
      /\ reason' \in [Keys -> Reasons]
      /\ outbox' \in [Keys -> Seq(Events)]
      /\ RowsFollowStatus' /\ CallsFollowRows' /\ JournalFollowsRows'
      /\ VerdictsAreTrue' /\ OneVerdict'
  BY <1>1, <1>2, MarkTables DEF k
<1>4. /\ status' = [status EXCEPT ![k] = st] /\ row' = row
      /\ hpc' = [hpc EXCEPT ![h] = "done"]
      /\ reply' = [reply EXCEPT ![h] = [outcome |-> "created", status |-> st]]
      /\ UNCHANGED <<hreq, received>>
  BY DEF Mark, Answer, k
<1> USE DEF IndInv
<1>5. /\ hpc' \in [Handlers -> HandlerSteps]
      /\ reply' \in [Handlers -> [outcome : Outcomes, status : Statuses]]
      /\ \A g \in Handlers : reply'[g] = IF g = h
            THEN [outcome |-> "created", status |-> st] ELSE reply[g]
  BY <1>4 DEF TypeOK, Shape, HandlerSteps, Outcomes, Statuses
<1>6. TypeOK' /\ Shape'
  BY <1>3, <1>4, <1>5 DEF TypeOK, Shape, ledger, worker
<1>7. FlightOwnsRow'
  <2>1. \A g \in Handlers : hpc'[g] \in InFlight => hpc[g] \in InFlight /\ g # h
    BY <1>4 DEF TypeOK, InFlight
  <2>2. \A g \in Handlers : hpc'[g] \in InFlight => hreq[g].key # k /\ hpc'[g] = hpc[g]
    BY <1>4, <2>1 DEF FlightOwnsRow, k, TypeOK
  <2> QED BY <1>4, <2>1, <2>2, RequestFacts DEF FlightOwnsRow, TypeOK
<1>8. StaleIsQuiet'
  BY <1>1, <1>4 DEF StaleIsQuiet, TypeOK, InFlight, Terminal
<1>9. ReconcilersHoldStale'
  BY DEF ReconcilersHoldStale, worker, ledger, Posted, Ldg!Tagged
<1>10. RepliesFollowSteps'
  BY <1>1, <1>2, <1>4, <1>5 DEF RepliesFollowSteps, TypeOK, Terminal
<1>11. RepliesAreOwn'
  BY <1>1, <1>2, <1>4, <1>5 DEF RepliesAreOwn, TypeOK, Terminal, k
<1> QED BY <1>3, <1>6, <1>7, <1>8, <1>9, <1>10, <1>11

\* A rejected transfer was never sent to the ledger.
LEMMA MarkRejectedIndInv ==
    ASSUME IndInv, NEW h \in Handlers, MarkRejected(h)
    PROVE  IndInv'
<1>1. call[hreq[h].key] = "none" /\ hpc[h] \in InFlight
  BY DEF IndInv, MarkRejected, FlightOwnsRow, InFlight
<1>2. ~Posted(hreq[h].key)
  BY <1>1, RequestFacts DEF IndInv, TypeOK, CallsFollowRows
<1>3. "rejected" \in Terminal /\ "fraud_rule" \in Reasons
  BY DEF Terminal, Reasons
<1> QED BY <1>1, <1>2, <1>3, VerdictIndInv DEF MarkRejected

\* The ledger's answer tells whether the money moved, codes.Internal aside.
LEMMA SettleIndInv ==
    ASSUME IndInv, NEW h \in Handlers, Settle(h)
    PROVE  IndInv'
<1> DEFINE k == hreq[h].key
<1>1. k \in Keys /\ hpc[h] \in InFlight /\ UNCHANGED <<ledger, stale, call, worker>>
  BY RequestFacts DEF IndInv, TypeOK, Settle, InFlight
<1>2. CASE call[k] = "ok" /\ Mark(k, "completed", "none") /\ Answer(h, "created", "completed")
  <2>1. Posted(k)
    BY <1>1, <1>2 DEF IndInv, CallsFollowRows
  <2>2. "completed" \in Terminal /\ "none" \in Reasons
    BY DEF Terminal, Reasons
  <2> QED BY <1>1, <1>2, <2>1, <2>2, VerdictIndInv
<1>3. CASE call[k] \in LedgerReasons /\ Mark(k, "failed", call[k]) /\ Answer(h, "created", "failed")
  <2>1. Excused(k, call[k])
    BY <1>1, <1>3 DEF IndInv, CallsFollowRows, LedgerReasons, Excused
  <2>2. "failed" \in Terminal /\ call[k] \in Reasons /\ call[k] # "sent"
    BY <1>3 DEF Terminal, Reasons, LedgerReasons
  <2> QED BY <1>1, <1>3, <2>1, <2>2, VerdictIndInv
<1> QED BY <1>2, <1>3 DEF Settle

\* The call of a request in flight is its transfer's first.
LEMMA SendExecuteIndInv ==
    ASSUME IndInv, NEW h \in Handlers, SendExecute(h)
    PROVE  IndInv'
<1> DEFINE k == hreq[h].key
<1> USE RequestFacts DEF IndInv
<1>1. /\ hpc[h] = "settle" /\ call' = [call EXCEPT ![k] = "sent"]
      /\ hpc' = [hpc EXCEPT ![h] = "await"]
      /\ UNCHANGED <<ledger, table, stale, worker, hreq, reply, received>>
  BY DEF SendExecute, GoTo
<1>2. /\ k \in Keys /\ call[k] = "none" /\ status[k] = "pending" /\ k \notin stale
      /\ ~Posted(k)
  BY <1>1 DEF TypeOK, FlightOwnsRow, InFlight, StaleIsQuiet, CallsFollowRows
<1>3. \A x \in Keys : Posted(x)' = Posted(x)
  BY <1>1 DEF Posted, Ldg!Tagged, ledger
<1>4. TypeOK' /\ Shape'
  BY <1>1, <1>2 DEF TypeOK, Shape, ledger, table, worker, HandlerSteps, CallStates
<1>a. \A x \in Keys : call'[x] = IF x = k THEN "sent" ELSE call[x]
  BY <1>1 DEF TypeOK
<1> HIDE DEF k
<1>5. RowsFollowStatus' /\ JournalFollowsRows' /\ OneVerdict' /\ VerdictsAreTrue'
  <2>1. RowsFollowStatus' /\ JournalFollowsRows' /\ OneVerdict'
    BY <1>1 DEF RowsFollowStatus, JournalFollowsRows, OneVerdict, ledger, table
  <2>2. VerdictsAreTrue'
    BY <1>1, <1>2, <1>3, <1>a DEF VerdictsAreTrue, Excused, table
  <2> QED BY <2>1, <2>2
<1>6. CallsFollowRows'
  BY <1>1, <1>2, <1>3, <1>a DEF CallsFollowRows, table
<1>7. FlightOwnsRow'
  BY <1>1, <1>2 DEF TypeOK, FlightOwnsRow, table, InFlight, k
<1>8. StaleIsQuiet'
  BY <1>1, <1>2 DEF TypeOK, StaleIsQuiet, table, InFlight, k
<1>9. ReconcilersHoldStale'
  <2>1. ASSUME NEW r \in Reconcilers
        PROVE  /\ todo[r] \subseteq Keys
               /\ rpc[r] = "write" => current[r] \in Keys
    BY DEF TypeOK, ReconcilersHoldStale
  <2> QED BY <1>1, <1>2, <1>3, <1>a, <2>1 DEF ReconcilersHoldStale, worker, table
<1>10. RepliesFollowSteps' /\ RepliesAreOwn'
  BY <1>1 DEF TypeOK, RepliesFollowSteps, RepliesAreOwn, table
<1> QED BY <1>4, <1>5, <1>6, <1>7, <1>8, <1>9, <1>10

-----------------------------------------------------------------------------
\* A posting is the first of its transfer and is made from its row.
LEMMA LedgerPostsIndInv ==
    ASSUME IndInv, NEW k \in Keys, LedgerPosts(k)
    PROVE  IndInv'
<1> DEFINE rec == Ldg!Record(Cardinality(journal) + 1, Payment(k))
<1> USE RequestFacts DEF IndInv
<1>1. /\ call[k] = "sent"
      /\ journal' = journal \cup {rec} /\ rows' = rows
      /\ sum' = Ldg!Moved(sum, Payment(k))
      /\ UNCHANGED <<row, status, reason, outbox, stale, hpc, hreq, reply, received,
                     rpc, todo, current, found>>
  BY DEF LedgerPosts, Ldg!Post, table, handler, worker
<1>2. PICK answer : /\ answer \in {"ok", "ledger_internal_error", "late"}
                    /\ answer = "late" <=> k \in stale
                    /\ call' = [call EXCEPT ![k] = answer]
  <2>1. CASE k \in stale
    BY <2>1 DEF LedgerPosts
  <2>2. CASE k \notin stale
    BY <2>2 DEF LedgerPosts
  <2> QED BY <2>1, <2>2
<1>3. /\ status[k] # "none" /\ ~Posted(k)
      /\ status[k] = "pending" \/ k \in stale
      /\ row[k] \in Requests /\ row[k] \in TransferRequest
  <2>1. ~Posted(k) /\ status[k] # "none" /\ (status[k] = "pending" \/ k \in stale)
    BY <1>1 DEF CallsFollowRows, StaleIsQuiet
  <2> QED BY <2>1, TransfersAssumption DEF RowsFollowStatus
<1>a. \A x \in Keys : call'[x] = IF x = k THEN answer ELSE call[x]
  BY <1>2 DEF TypeOK
<1>4. /\ rec.ref = k /\ rec.from = row[k].sender
      /\ rec.to = row[k].recipient /\ rec.amount = row[k].amount
  BY DEF Ldg!Record, Payment
<1>5. \A j \in journal : j.ref # k
  BY <1>3, TransfersAssumption DEF Posted, Ldg!Tagged, NoRef
<1> HIDE DEF rec
<1>6. \A x \in Keys : Posted(x)' = (Posted(x) \/ x = k)
  BY <1>1, <1>4, TransfersAssumption DEF Posted, Ldg!Tagged, NoRef
<1>7. TypeOK' /\ Shape'
  <2>1. sum' \in [Accounts -> Int]
    <3>1. Payment(k).amount \in Int
      BY <1>3, TransfersAssumption DEF Payment, TransferRequest
    <3> QED BY <1>1, <3>1 DEF TypeOK, Ldg!Moved
  <2>2. \A j \in journal' : j.ref \in Keys /\ j.amount \in Amounts
    BY <1>1, <1>3, <1>4 DEF TypeOK, TransferRequest
  <2>3. call' \in [Keys -> CallStates]
    BY <1>2 DEF TypeOK, CallStates, LedgerReasons
  <2> QED BY <1>1, <2>1, <2>2, <2>3 DEF TypeOK, Shape
<1>8. RowsFollowStatus' /\ OneVerdict' /\ RepliesFollowSteps' /\ RepliesAreOwn'
  BY <1>1 DEF RowsFollowStatus, OneVerdict, RepliesFollowSteps, RepliesAreOwn
<1>9. FlightOwnsRow' /\ StaleIsQuiet'
  BY <1>1, <1>2 DEF TypeOK, FlightOwnsRow, StaleIsQuiet
<1>10. CallsFollowRows'
  BY <1>1, <1>2, <1>3, <1>6, <1>a DEF CallsFollowRows
<1>11. ReconcilersHoldStale'
  <2>1. ASSUME NEW r \in Reconcilers, rpc[r] = "write"
        PROVE  current[r] \in Keys /\ current[r] \in stale
    BY <2>1 DEF TypeOK, ReconcilersHoldStale
  <2> QED BY <1>1, <1>2, <1>3, <1>6, <1>a, <2>1 DEF ReconcilersHoldStale
<1>12. JournalFollowsRows'
  BY <1>1, <1>4, <1>5 DEF JournalFollowsRows
<1>13. VerdictsAreTrue'
  <2>1. ASSUME NEW x \in Keys, x # k
        PROVE  Posted(x)' = Posted(x) /\ call'[x] = call[x]
    <3>1. Posted(x)' <=> Posted(x)
      BY <1>6, <2>1, Zenon DEF Posted
    <3>2. call'[x] = call[x]
      BY <1>a, <2>1
    <3>3. Posted(x)' \in BOOLEAN /\ Posted(x) \in BOOLEAN
      BY DEF Posted
    <3> QED BY <3>1, <3>2, <3>3
  <2>2. /\ status[k] = "completed" => Posted(k)'
        /\ status[k] # "rejected"
        /\ status[k] = "failed" => Excused(k, reason[k])'
    <3>1. status[k] = "failed" => reason[k] = "timeout_unresolved" /\ k \in stale
      BY <1>1, <1>3 DEF VerdictsAreTrue, Excused
    <3>2. status[k] = "failed" => call'[k] = "late"
      BY <1>2, <1>a, <3>1
    <3>3. status[k] = "failed" => Excused(k, reason[k])'
      BY <1>1, <3>1, <3>2 DEF Excused
    <3>4. Posted(k)'
      BY <1>6
    <3>5. status[k] # "rejected"
      BY <1>1 DEF VerdictsAreTrue
    <3> QED BY <3>3, <3>4, <3>5
  <2>3. ASSUME NEW x \in Keys, x # k
        PROVE  /\ status[x] = "completed" => Posted(x)'
               /\ status[x] = "rejected" => ~Posted(x)' /\ call'[x] # "sent"
               /\ status[x] = "failed" => Excused(x, reason[x])'
    BY <1>1, <2>1, <2>3 DEF VerdictsAreTrue, Excused
  <2> QED BY <1>1, <2>2, <2>3 DEF VerdictsAreTrue
<1> QED BY <1>7, <1>8, <1>9, <1>10, <1>11, <1>12, <1>13

\* Any other end of the call leaves the journal alone.
LEMMA LedgerDoesNotIndInv ==
    ASSUME IndInv, NEW k \in Keys, LedgerDoesNot(k)
    PROVE  IndInv'
<1> USE RequestFacts DEF IndInv
<1>1. /\ call[k] = "sent"
      /\ UNCHANGED <<ledger, row, status, reason, outbox, stale, hpc, hreq, reply,
                     received, rpc, todo, current, found>>
  BY DEF LedgerDoesNot, table, handler, worker
<1>2. PICK answer \in LedgerReasons \cup {"lost"} : call' = [call EXCEPT ![k] = answer]
  BY DEF LedgerDoesNot, Refusals, LedgerReasons
<1>3. answer # "sent" /\ answer # "ok" /\ answer \in CallStates
  BY DEF LedgerReasons, CallStates
<1>4. status[k] # "none" /\ ~Posted(k)
  BY <1>1 DEF CallsFollowRows
<1>5. \A x \in Keys : Posted(x)' = Posted(x)
  BY <1>1 DEF Posted, Ldg!Tagged, ledger
<1>a. \A x \in Keys : call'[x] = IF x = k THEN answer ELSE call[x]
  BY <1>2 DEF TypeOK
<1>6. TypeOK' /\ Shape'
  BY <1>1, <1>2, <1>3 DEF TypeOK, Shape, ledger
<1>7. RowsFollowStatus' /\ OneVerdict' /\ RepliesFollowSteps' /\ RepliesAreOwn'
  BY <1>1 DEF RowsFollowStatus, OneVerdict, RepliesFollowSteps, RepliesAreOwn
<1>8. FlightOwnsRow' /\ StaleIsQuiet'
  BY <1>1, <1>2 DEF TypeOK, FlightOwnsRow, StaleIsQuiet
<1>b. answer # "late"
  BY <1>2 DEF LedgerReasons
<1>9. CallsFollowRows'
  BY <1>1, <1>3, <1>4, <1>5, <1>a, <1>b DEF CallsFollowRows
<1>10. ReconcilersHoldStale' /\ JournalFollowsRows' /\ VerdictsAreTrue'
  <2>1. ASSUME NEW r \in Reconcilers, rpc[r] = "write"
        PROVE  current[r] \in Keys
    BY <2>1 DEF TypeOK, ReconcilersHoldStale
  <2>2. ReconcilersHoldStale'
    BY <1>1, <1>4, <1>5, <1>a, <2>1 DEF ReconcilersHoldStale
  <2>3. JournalFollowsRows'
    BY <1>1 DEF JournalFollowsRows, ledger
  <2>4. VerdictsAreTrue'
    BY <1>1, <1>3, <1>4, <1>5, <1>a DEF VerdictsAreTrue, Excused
  <2> QED BY <2>2, <2>3, <2>4
<1> QED BY <1>6, <1>7, <1>8, <1>9, <1>10

\* The request's own deadlines are over by then, its call may not be.
LEMMA GrowStaleIndInv ==
    ASSUME IndInv, NEW k \in Keys, GrowStale(k)
    PROVE  IndInv'
<1> USE DEF IndInv
<1>1. /\ status[k] = "pending" /\ stale' = stale \cup {k}
      /\ \A h \in Handlers : hreq[h].key = k => hpc[h] \notin InFlight
      /\ UNCHANGED <<ledger, row, status, reason, outbox, call, hpc, hreq, reply,
                     received, rpc, todo, current, found>>
  BY DEF GrowStale, table, handler, worker
<1>2. \A x : Posted(x)' = Posted(x)
  BY <1>1 DEF Posted, Ldg!Tagged, ledger
<1>3. TypeOK' /\ Shape'
  BY <1>1 DEF TypeOK, Shape, ledger
<1>4. RowsFollowStatus' /\ OneVerdict' /\ RepliesFollowSteps' /\ RepliesAreOwn'
  BY <1>1 DEF RowsFollowStatus, OneVerdict, RepliesFollowSteps, RepliesAreOwn
<1>5. FlightOwnsRow' /\ StaleIsQuiet'
  BY <1>1 DEF FlightOwnsRow, StaleIsQuiet
<1>6. CallsFollowRows' /\ VerdictsAreTrue'
  BY <1>1, <1>2 DEF CallsFollowRows, VerdictsAreTrue, Excused
<1>7. ReconcilersHoldStale' /\ JournalFollowsRows'
  BY <1>1, <1>2 DEF ReconcilersHoldStale, JournalFollowsRows, ledger
<1> QED BY <1>3, <1>4, <1>5, <1>6, <1>7

\* A reconciler that only reads.
LEMMA ReconcilerReads ==
    ASSUME IndInv, NEW r \in Reconcilers,
           ListStale(r) \/ AskLedger(r) \/ SkipTransfer(r) \/ RestartReconciler(r)
    PROVE  IndInv'
<1> USE DEF IndInv
<1>1. UNCHANGED <<ledger, row, status, reason, outbox, stale, call, hpc, hreq, reply,
                  received>>
  BY DEF ListStale, AskLedger, SkipTransfer, RestartReconciler, table, handler
<1>2. \A x : Posted(x)' = Posted(x)
  BY <1>1 DEF Posted, Ldg!Tagged, ledger
<1>3. /\ rpc' \in [Reconcilers -> {"idle", "pick", "write"}]
      /\ todo' \in [Reconcilers -> SUBSET Keys]
      /\ current' \in [Reconcilers -> Keys \cup {NoKey}]
      /\ found' \in [Reconcilers -> BOOLEAN]
      /\ ReconcilersHoldStale'
  <2>1. CASE ListStale(r)
    BY <1>1, <1>2, <2>1 DEF ListStale, TypeOK, ReconcilersHoldStale
  <2>2. CASE AskLedger(r)
    <3>1. PICK k \in todo[r] : /\ current' = [current EXCEPT ![r] = k]
                               /\ found' = [found EXCEPT ![r] = Posted(k)]
                               /\ todo' = [todo EXCEPT ![r] = @ \ {k}]
      BY <2>2 DEF AskLedger, Posted
    <3>2. k \in Keys /\ k \in stale /\ rpc' = [rpc EXCEPT ![r] = "write"]
      BY <2>2 DEF AskLedger, TypeOK, ReconcilersHoldStale
    <3>3. Posted(k) \in BOOLEAN
      BY DEF Posted
    <3> QED BY <1>1, <1>2, <3>1, <3>2, <3>3 DEF TypeOK, ReconcilersHoldStale
  <2>3. CASE SkipTransfer(r)
    <3>1. /\ current' = [current EXCEPT ![r] = NoKey]
          /\ found' = [found EXCEPT ![r] = FALSE]
          /\ rpc' = [rpc EXCEPT ![r] = IF todo'[r] = {} THEN "idle" ELSE "pick"]
      BY <2>3 DEF SkipTransfer
    <3>2. /\ todo' \in [Reconcilers -> SUBSET Keys]
          /\ \A x \in Reconcilers : todo'[x] \subseteq todo[x]
      BY <2>3 DEF SkipTransfer, TypeOK
    <3> QED BY <1>1, <1>2, <3>1, <3>2 DEF TypeOK, ReconcilersHoldStale
  <2>4. CASE RestartReconciler(r)
    BY <1>1, <1>2, <2>4 DEF RestartReconciler, TypeOK, ReconcilersHoldStale
  <2> QED BY <2>1, <2>2, <2>3, <2>4
<1>4. TypeOK' /\ Shape'
  BY <1>1, <1>3 DEF TypeOK, Shape, ledger
<1>5. RowsFollowStatus' /\ OneVerdict' /\ RepliesFollowSteps' /\ RepliesAreOwn'
  BY <1>1 DEF RowsFollowStatus, OneVerdict, RepliesFollowSteps, RepliesAreOwn
<1>6. FlightOwnsRow' /\ StaleIsQuiet' /\ JournalFollowsRows'
  BY <1>1 DEF FlightOwnsRow, StaleIsQuiet, JournalFollowsRows, ledger
<1>7. CallsFollowRows' /\ VerdictsAreTrue'
  BY <1>1, <1>2 DEF CallsFollowRows, VerdictsAreTrue, Excused
<1> QED BY <1>3, <1>4, <1>5, <1>6, <1>7

\* What the ledger said still holds when it is written, unless a late call was
\* executed in between: the row is stale, so no handler can resolve it.
LEMMA ReconcileIndInv ==
    ASSUME IndInv, NEW r \in Reconcilers, Reconcile(r)
    PROVE  IndInv'
<1> DEFINE k == current[r]
<1> USE DEF IndInv
<1>1. /\ rpc[r] = "write"
      /\ rpc' = [rpc EXCEPT ![r] = IF todo[r] = {} THEN "idle" ELSE "pick"]
      /\ current' = [current EXCEPT ![r] = NoKey]
      /\ found' = [found EXCEPT ![r] = FALSE]
      /\ UNCHANGED <<ledger, stale, call, todo, hpc, hreq, reply, received>>
  BY DEF Reconcile, handler
<1>2. /\ k \in stale /\ k \in Keys
      /\ found[r] => Posted(k)
      /\ ~found[r] => Excused(k, "timeout_unresolved")
  BY <1>1 DEF ReconcilersHoldStale, TypeOK, Excused
<1>3. \A x : Posted(x)' = Posted(x)
  BY <1>1 DEF Posted, Ldg!Tagged, ledger
<1>4. /\ rpc' \in [Reconcilers -> {"idle", "pick", "write"}]
      /\ current' \in [Reconcilers -> Keys \cup {NoKey}]
      /\ found' \in [Reconcilers -> BOOLEAN]
      /\ ReconcilersHoldStale'
  BY <1>1, <1>3 DEF TypeOK, ReconcilersHoldStale
<1>5. CASE status[k] = "pending"
  <2>1. PICK st \in {"completed", "failed"}, why \in {"none", "timeout_unresolved"} :
          /\ Mark(k, st, why)
          /\ st = "completed" <=> found[r]
          /\ st = "failed" => why = "timeout_unresolved"
    BY <1>5 DEF Reconcile, MarkIfPending
  <2>2. st \in Terminal /\ why \in Reasons
    BY DEF Terminal, Reasons
  <2>3. /\ status' \in [Keys -> Statuses]
        /\ reason' \in [Keys -> Reasons]
        /\ outbox' \in [Keys -> Seq(Events)]
        /\ RowsFollowStatus' /\ CallsFollowRows' /\ JournalFollowsRows'
        /\ VerdictsAreTrue' /\ OneVerdict'
    <3> HIDE DEF k
    <3> QED BY <1>1, <1>2, <1>5, <2>1, <2>2, MarkTables
  <2>4. status' = [status EXCEPT ![k] = st] /\ row' = row
    BY <2>1 DEF Mark
  <2>5. TypeOK' /\ Shape'
    BY <1>1, <1>4, <2>3, <2>4 DEF TypeOK, Shape, ledger
  <2>6. \A h \in Handlers : hpc[h] \in InFlight => hreq[h].key # k
    BY <1>2 DEF StaleIsQuiet
  <2>7. FlightOwnsRow' /\ StaleIsQuiet'
    BY <1>1, <1>2, <2>2, <2>4, <2>6, RequestFacts
       DEF TypeOK, FlightOwnsRow, StaleIsQuiet, Terminal
  <2>8. RepliesFollowSteps' /\ RepliesAreOwn'
    BY <1>1, <1>2, <1>5, <2>2, <2>4, RequestFacts
       DEF TypeOK, RepliesFollowSteps, RepliesAreOwn, Terminal
  <2> QED BY <1>4, <2>3, <2>5, <2>7, <2>8
<1>6. CASE status[k] # "pending"
  <2>1. UNCHANGED <<row, status, reason, outbox>>
    BY <1>6 DEF Reconcile, MarkIfPending, table
  <2>2. TypeOK' /\ Shape'
    BY <1>1, <1>4, <2>1 DEF TypeOK, Shape, ledger
  <2>3. RowsFollowStatus' /\ OneVerdict' /\ RepliesFollowSteps' /\ RepliesAreOwn'
    BY <1>1, <2>1 DEF RowsFollowStatus, OneVerdict, RepliesFollowSteps, RepliesAreOwn
  <2>4. FlightOwnsRow' /\ StaleIsQuiet' /\ JournalFollowsRows'
    BY <1>1, <2>1 DEF FlightOwnsRow, StaleIsQuiet, JournalFollowsRows, ledger
  <2>5. CallsFollowRows' /\ VerdictsAreTrue'
    BY <1>1, <1>3, <2>1 DEF CallsFollowRows, VerdictsAreTrue, Excused
  <2> QED BY <1>4, <2>2, <2>3, <2>4, <2>5
<1> QED BY <1>5, <1>6

-----------------------------------------------------------------------------
\* Every step preserves the inductive invariant.
LEMMA NextIndInv == IndInv /\ [Next]_vars => IndInv'
<1> SUFFICES ASSUME IndInv, [Next]_vars PROVE IndInv'
  OBVIOUS
<1>1. ASSUME NEW h \in Handlers, NEW q \in Requests, Receive(h, q) PROVE IndInv'
  BY <1>1, ReceiveIndInv
<1>2. ASSUME NEW h \in Handlers, HandlerStep(h) PROVE IndInv'
  BY <1>2, LookupIndInv, ReplayIndInv, ValidateIndInv, InsertIndInv,
     CheckFraudIndInv, MarkRejectedIndInv, SendExecuteIndInv, SettleIndInv,
     SettleUncertainIndInv, StopIndInv
     DEF HandlerStep
<1>3. ASSUME NEW k \in Keys, LedgerStep(k) \/ GrowStale(k) PROVE IndInv'
  BY <1>3, LedgerPostsIndInv, LedgerDoesNotIndInv, GrowStaleIndInv DEF LedgerStep
<1>4. ASSUME NEW r \in Reconcilers,
             \/ ListStale(r) \/ AskLedger(r) \/ Reconcile(r)
             \/ SkipTransfer(r) \/ RestartReconciler(r)
      PROVE  IndInv'
  BY <1>4, ReconcilerReads, ReconcileIndInv
<1>5. CASE UNCHANGED vars
  <2>1. UNCHANGED <<ledger, table, stale, call, worker>> /\ UNCHANGED <<hpc, hreq, reply, received>>
    BY <1>5 DEF vars, handler
  <2>2. TypeOK' /\ Shape'
    BY <2>1 DEF IndInv, TypeOK, Shape, ledger, table, worker
  <2>3. FlightOwnsRow' /\ StaleIsQuiet' /\ RepliesFollowSteps' /\ RepliesAreOwn'
    BY <2>1 DEF IndInv, FlightOwnsRow, StaleIsQuiet, RepliesFollowSteps,
                RepliesAreOwn, table
  <2> QED BY <2>1, <2>2, <2>3, TablesUnchanged DEF IndInv
<1> QED BY <1>1, <1>2, <1>3, <1>4, <1>5 DEF Next

\* The inductive invariant holds of every reachable state.
THEOREM SpecIndInv == Spec => []IndInv
  BY InitIndInv, NextIndInv, PTL DEF Spec

\* A transfer with one record at most has at most one.
LEMMA SettledOnceFollows == IndInv => SettledOnce
<1> SUFFICES ASSUME IndInv, NEW k \in Keys PROVE Cardinality(Ldg!Tagged(k)) <= 1
  BY DEF SettledOnce
<1>1. CASE Ldg!Tagged(k) = {}
  BY <1>1, FS_EmptySet
<1>2. CASE Ldg!Tagged(k) # {}
  <2>1. PICK j : j \in Ldg!Tagged(k)
    BY <1>2
  <2>2. Ldg!Tagged(k) = {j}
    BY <2>1 DEF IndInv, JournalFollowsRows, Ldg!Tagged
  <2> QED BY <2>2, FS_Singleton
<1> QED BY <1>1, <1>2

\* Every variable keeps its type.
THEOREM TypeCorrect == Spec => []TypeOK
<1>1. IndInv => TypeOK
  BY DEF IndInv
<1> QED BY <1>1, SpecIndInv, PTL

\* Status and ledger agree: posted at most once, completed only with exactly
\* the row's money moved, rejected without it for good, and failed without it
\* for good unless the ledger answered codes.Internal or the worker asked
\* while the call was still running.
THEOREM SagaIsSound == Spec => []StatusMatchesLedger
<1>1. IndInv => CompletedMoved
  BY TransfersAssumption
     DEF IndInv, CompletedMoved, VerdictsAreTrue, JournalFollowsRows, Posted,
         Ldg!Tagged
<1>2. IndInv => FailedUnmoved
  BY DEF IndInv, FailedUnmoved, VerdictsAreTrue, Excused
<1>3. IndInv => StatusMatchesLedger
  BY <1>1, <1>2, SettledOnceFollows DEF StatusMatchesLedger
<1> QED BY <1>3, SpecIndInv, PTL

\* One outbox event per resolved transfer, the one of its final status.
THEOREM VerdictIsUnique == Spec => []OneVerdict
<1>1. IndInv => OneVerdict
  BY DEF IndInv
<1> QED BY <1>1, SpecIndInv, PTL

\* A client is answered about its own transfer and never contradicted later.
THEOREM RepliesAreSound == Spec => []RepliesAreOwn
<1>1. IndInv => RepliesAreOwn
  BY DEF IndInv
<1> QED BY <1>1, SpecIndInv, PTL
=============================================================================

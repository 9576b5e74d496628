---------------------------- MODULE LedgerProofs ----------------------------
(***************************************************************************)
(* Theorems about Ledger for every set of accounts, references, advisory   *)
(* keys, workers and requests, and every number of calls.                  *)
(***************************************************************************)
EXTENDS Ledger, TLAPS

USE DEF Ids

\* A request is a posting or a rebuild; either way its fields are typed.
LEMMA RequestFields ==
    ASSUME NEW p \in Requests
    PROVE  /\ p.from \in Accounts
           /\ p.to \in Accounts
           /\ p.amount \in Int
           /\ p.ref \in Refs \cup {NoRef}
           /\ p.op \in {"transfer", "deposit", "reverse", "rebuild"}
           /\ p.op # "rebuild" => p \in Abs!Posting
           /\ WellFormed(p)
  <1>1. p \in Abs!Posting \/ p \in Rebuild
    BY LedgerAssumption
  <1>2. CASE p \in Abs!Posting
    BY <1>2, LedgerAssumption DEF Abs!Posting, Abs!Ops
  <1>3. CASE p \in Rebuild
    BY <1>3, LedgerAssumption DEF Rebuild
  <1>4. QED
    BY <1>1, <1>2, <1>3

\* The two rows a call locks are its two accounts, the smaller first.
LEMMA LockOrderFacts ==
    ASSUME NEW p \in Requests
    PROVE  /\ First(p) \in Accounts
           /\ Second(p) \in Accounts
           /\ {First(p), Second(p)} = {p.from, p.to}
           /\ First(p) <= Second(p)
  <1>1. p.from \in Accounts /\ p.to \in Accounts
    BY RequestFields
  <1>2. p.from \in Nat /\ p.to \in Nat
    BY <1>1, LedgerAssumption
  <1>3. CASE p.to < p.from
    BY <1>1, <1>2, <1>3 DEF First, Second, LockOrder
  <1>4. CASE ~(p.to < p.from)
    BY <1>1, <1>2, <1>4 DEF First, Second, LockOrder
  <1>5. QED
    BY <1>3, <1>4

\* A balanced pair keeps every account's sum an integer.
LEMMA MovedType ==
    ASSUME NEW s \in [Accounts -> Int], NEW p \in Requests
    PROVE  Abs!Moved(s, p) \in [Accounts -> Int]
    BY RequestFields DEF Abs!Moved

-----------------------------------------------------------------------------
(***************************************************************************)
(* The inductive invariant.  TypeOK alone is not inductive: COMMIT inserts *)
(* a record of the worker's request, so it must be known that a worker at  *)
(* "post" serves a posting and drew a transaction id.                      *)
(***************************************************************************)

\* Where each kind of request can be in its transaction.
Control ==
    \A w \in Workers :
        /\ pc[w] \in Active => txid[w] \in 1 .. started /\ req[w].amount > 0
        /\ pc[w] \in {"reflock", "lookup"} =>
             Unchecked(req[w]) /\ req[w].ref \in Refs
        /\ pc[w] \in {"lock2", "post"} => req[w].op # "rebuild"
        /\ pc[w] = "write" => req[w].op = "rebuild"
        /\ pc[w] = "sum" => ~Unchecked(req[w])

\* The row locks a worker holds at each step, and that those rows exist.
RowsHeld ==
    \A w \in Workers :
        /\ pc[w] \in {"lock2", "sum", "post", "write"} =>
             rowLock[First(req[w])] = w /\ First(req[w]) \in rows
        /\ pc[w] \in {"sum", "post"} /\ req[w].op # "rebuild" =>
             rowLock[Second(req[w])] = w /\ Second(req[w]) \in rows

\* From the lookup on, a deposit or reversal holds its reference's advisory
\* lock, and after the lookup nobody has posted that reference.
RefHeld ==
    \A w \in Workers :
        /\ pc[w] = "lookup" => refLock[HashText[req[w].ref]] = w
        /\ /\ pc[w] \in {"lock1", "lock2", "post"}
           /\ Unchecked(req[w])
           /\ req[w].ref # NoRef
           => /\ refLock[HashText[req[w].ref]] = w
              /\ \A j \in journal : j.ref = req[w].ref => j.op = "transfer"

\* What a worker read under its locks is still true when it commits.
ReadsHold ==
    \A w \in Workers :
        /\ pc[w] = "write" => seen[w] = sum[req[w].from]
        /\ pc[w] = "post" /\ req[w].op = "transfer" =>
             sum[req[w].from] >= req[w].amount

\* Transaction ids are fresh: those of running calls differ from one
\* another and from every committed one.
FreshIds ==
    /\ \A j \in journal : j.id \in 1 .. started
    /\ \A w \in Workers : pc[w] \in Active =>
         \A j \in journal : j.id # txid[w]
    /\ \A v, w \in Workers :
         pc[v] \in Active /\ pc[w] \in Active /\ txid[v] = txid[w] => v = w

-----------------------------------------------------------------------------
\* No call is open and the genesis row is the only one.
LEMMA InitType == Init => TypeOK /\ Control
  <1>1. NoRequest \in Requests
    BY LedgerAssumption DEF NoRequest
  <1>2. QED
    BY <1>1, LedgerAssumption
    DEF Init, TypeOK, Control, Active, Steps, Outcomes, NoReply, Refusals

\* Every step keeps the state well typed.
LEMMA NextType == TypeOK /\ Control /\ [Next]_vars => TypeOK' /\ Control'
  <1> SUFFICES ASSUME TypeOK, Control, [Next]_vars
               PROVE  TypeOK' /\ Control'
    OBVIOUS
  <1> USE LedgerAssumption DEF TypeOK, Control, Active, Steps, Outcomes, Refusals, bank
  <1>1. ASSUME NEW w \in Workers, NEW p \in Requests, Begin(w, p)
        PROVE  TypeOK' /\ Control'
    <2>1. p.amount \in Int /\ p.ref \in Refs \cup {NoRef}
      BY RequestFields
    <2>2. CASE p.amount <= 0
      <3>1. Answer(w, "invalid_amount", 0)
        BY <1>1, <2>2 DEF Begin
      <3>2. QED
        BY <1>1, <3>1 DEF Begin, Answer
    <2>3. CASE ~(p.amount <= 0)
      <3>1. pc' = [pc EXCEPT ![w] = Entry(p)] /\ reply' = reply
        BY <1>1, <2>3 DEF Begin
      <3>2. Entry(p) = "lock1" \/ (Entry(p) = "reflock" /\ Unchecked(p) /\ p.ref \in Refs)
        BY <2>1 DEF Entry
      <3>3. TypeOK'
        BY <1>1, <3>1, <3>2 DEF Begin
      <3>4. Control'
        BY <1>1, <2>1, <2>3, <3>1, <3>2 DEF Begin
      <3>5. QED
        BY <3>3, <3>4
    <2>4. QED
      BY <2>2, <2>3
  <1>2. ASSUME NEW w \in Workers, AcquireRefLock(w) PROVE TypeOK' /\ Control'
    BY <1>2 DEF AcquireRefLock, GoTo
  <1>3. ASSUME NEW w \in Workers, LookupFound(w) PROVE TypeOK' /\ Control'
    BY <1>3 DEF LookupFound, GetTransactionByReference, Abs!Tagged,
                Abs!JournalRecord, Answer, Release
  <1>4. ASSUME NEW w \in Workers, LookupNothing(w) PROVE TypeOK' /\ Control'
    BY <1>4 DEF LookupNothing, GoTo
  <1>5. ASSUME NEW w \in Workers, LockFirst(w) PROVE TypeOK' /\ Control'
    <2>1. First(req[w]) \in Accounts
      BY LockOrderFacts
    <2>2. CASE req[w].op = "rebuild"
      BY <1>5, <2>1, <2>2 DEF LockFirst, LockRow, GoTo, Unchecked
    <2>3. CASE req[w].op # "rebuild"
      BY <1>5, <2>1, <2>3 DEF LockFirst, LockRow, GoTo
    <2>4. QED
      BY <2>2, <2>3
  <1>6. ASSUME NEW w \in Workers, LockSecond(w) PROVE TypeOK' /\ Control'
    BY <1>6, LockOrderFacts DEF LockSecond, LockRow, GoTo
  <1>7. ASSUME NEW w \in Workers, RowMissing(w) PROVE TypeOK' /\ Control'
    BY <1>7 DEF RowMissing, Refuse, Answer, Release
  <1>8. ASSUME NEW w \in Workers, CheckBalance(w) PROVE TypeOK' /\ Control'
    <2>1. CASE Covered(w)
      <3>1. GoTo(w, "post") /\ UNCHANGED <<bank, cache, seen, rowLock, refLock>>
        BY <1>8, <2>1 DEF CheckBalance
      <3>2. QED
        BY <1>8, <3>1 DEF CheckBalance, GoTo
    <2>2. CASE ~Covered(w)
      <3>1. Refuse(w, "insufficient_funds")
        BY <1>8, <2>2 DEF CheckBalance
      <3>2. QED
        BY <3>1 DEF Refuse, Answer, Release
    <2>3. QED
      BY <2>1, <2>2
  <1>9. ASSUME NEW w \in Workers, Commit(w) PROVE TypeOK' /\ Control'
    <2>1. sum' \in [Accounts -> Int] /\ cache' \in [Accounts -> Int]
      BY <1>9, MovedType DEF Commit
    <2>2. Abs!Record(txid[w], req[w]) \in Abs!JournalRecord
      <3>1. req[w] \in Abs!Posting /\ txid[w] \in Ids
        BY <1>9, RequestFields DEF Commit
      <3>2. QED
        BY <3>1 DEF Abs!Record, Abs!JournalRecord, Abs!Posting
    <2>3. journal' \subseteq Abs!JournalRecord
      BY <1>9, <2>2 DEF Commit
    <2>4. PICK outcome \in {"ok", "internal"}, tx \in 0 .. MaxCalls : Answer(w, outcome, tx)
      BY <1>9 DEF Commit
    <2>5. QED
      BY <1>9, <2>1, <2>3, <2>4 DEF Commit, Answer, Release
  <1>10. ASSUME NEW w \in Workers, SumForRebuild(w) PROVE TypeOK' /\ Control'
    BY <1>10, RequestFields DEF SumForRebuild, GoTo
  <1>11. ASSUME NEW w \in Workers, CommitRebuild(w) PROVE TypeOK' /\ Control'
    BY <1>11, RequestFields DEF CommitRebuild, Answer, Release
  <1>12. ASSUME NEW w \in Workers, Return(w) PROVE TypeOK' /\ Control'
    BY <1>12 DEF Return, NoReply, NoRequest
  <1>13. ASSUME NEW w \in Workers, Abort(w) PROVE TypeOK' /\ Control'
    BY <1>13 DEF Abort, Refuse, Answer, Release
  <1>14. ASSUME NEW a \in Accounts, CreateLedgerAccount(a) PROVE TypeOK' /\ Control'
    BY <1>14 DEF CreateLedgerAccount
  <1>15. CASE UNCHANGED vars
    BY <1>15 DEF vars
  <1>16. QED
    BY <1>1, <1>2, <1>3, <1>4, <1>5, <1>6, <1>7, <1>8, <1>9, <1>10, <1>11,
       <1>12, <1>13, <1>14, <1>15 DEF Next, Step

\* The ledger's state stays well typed: amounts stay integers, locks name
\* live workers and every answer is one of the RPC layer's outcomes.
THEOREM LedgerTypeOK == Spec => []TypeOK
  BY InitType, NextType, PTL DEF Spec

-----------------------------------------------------------------------------
(***************************************************************************)
(* Locks.                                                                  *)
(***************************************************************************)

\* Every way a call ends: it is "done" and holds nothing; the locks of the
\* others are untouched.
Ends(w) ==
    /\ pc' = [pc EXCEPT ![w] = "done"]
    /\ Release(w)
    /\ UNCHANGED <<rows, req, txid, seen, started>>

\* Steps that end a transaction leave its worker with nothing to hold.
LEMMA EndingSteps ==
    ASSUME TypeOK, NEW w \in Workers,
           \/ LookupFound(w) \/ RowMissing(w) \/ Abort(w)
           \/ Commit(w) \/ CommitRebuild(w)
           \/ CheckBalance(w) /\ ~Covered(w)
    PROVE  Ends(w)
    BY DEF LookupFound, RowMissing, Abort, Commit, CommitRebuild,
           CheckBalance, Refuse, Answer, Ends, bank

\* The row locks a transaction took stay its own until it ends, so no two
\* postings touching an account overlap between their reads and COMMIT.
LEMMA NextRowsHeld ==
    TypeOK /\ Control /\ RowsHeld /\ [Next]_vars => RowsHeld'
  <1> SUFFICES ASSUME TypeOK, Control, RowsHeld, [Next]_vars
               PROVE  RowsHeld'
    OBVIOUS
  <1> USE LedgerAssumption DEF TypeOK, RowsHeld, bank
  <1>1. \A w \in Workers : First(req[w]) \in Accounts /\ Second(req[w]) \in Accounts
    BY LockOrderFacts
  <1>2. ASSUME NEW w \in Workers, Ends(w) PROVE RowsHeld'
    BY <1>1, <1>2 DEF Ends, Release
  <1>3. ASSUME NEW w \in Workers, NEW p \in Requests, Begin(w, p) PROVE RowsHeld'
    <2>1. pc'[w] \notin {"lock2", "sum", "post", "write"}
      BY <1>3 DEF Begin, Answer, Entry
    <2>2. \A v \in Workers \ {w} : pc'[v] = pc[v] /\ req'[v] = req[v]
      BY <1>3 DEF Begin, Answer
    <2>3. rows' = rows /\ rowLock' = rowLock
      BY <1>3 DEF Begin
    <2>4. QED
      BY <2>1, <2>2, <2>3
  <1>4. ASSUME NEW w \in Workers, AcquireRefLock(w) PROVE RowsHeld'
    BY <1>4 DEF AcquireRefLock, GoTo
  <1>5. ASSUME NEW w \in Workers, LookupNothing(w) PROVE RowsHeld'
    BY <1>5 DEF LookupNothing, GoTo
  <1>6. ASSUME NEW w \in Workers, LockFirst(w) PROVE RowsHeld'
    BY <1>1, <1>6 DEF LockFirst, LockRow, GoTo
  <1>7. ASSUME NEW w \in Workers, LockSecond(w) PROVE RowsHeld'
    BY <1>1, <1>7 DEF LockSecond, LockRow, GoTo
  <1>8. ASSUME NEW w \in Workers, CheckBalance(w), Covered(w) PROVE RowsHeld'
    BY <1>8 DEF CheckBalance, GoTo
  <1>9. ASSUME NEW w \in Workers, SumForRebuild(w) PROVE RowsHeld'
    BY <1>9 DEF SumForRebuild, GoTo
  <1>10. ASSUME NEW w \in Workers, Return(w) PROVE RowsHeld'
    BY <1>10 DEF Return
  <1>11. ASSUME NEW a \in Accounts, CreateLedgerAccount(a) PROVE RowsHeld'
    BY <1>11 DEF CreateLedgerAccount
  <1>12. CASE UNCHANGED vars
    BY <1>12 DEF vars
  <1>13. QED
    BY EndingSteps, <1>2, <1>3, <1>4, <1>5, <1>6, <1>7, <1>8, <1>9, <1>10,
       <1>11, <1>12 DEF Next, Step

\* At most one transaction holds a reference's key between its lookup and
\* COMMIT, so what the lookup found (nothing) stays true until then.
LEMMA NextRefHeld ==
    TypeOK /\ Control /\ RefHeld /\ [Next]_vars => RefHeld'
  <1> SUFFICES ASSUME TypeOK, Control, RefHeld, [Next]_vars
               PROVE  RefHeld'
    OBVIOUS
  <1> USE LedgerAssumption DEF TypeOK, RefHeld, bank, Unchecked
  <1>0. \A w \in Workers : req[w].ref # NoRef => HashText[req[w].ref] \in Keys
    BY RequestFields
  <1>a. ASSUME NEW w \in Workers, NEW v \in Workers, v # w, Ends(w),
               req[v].ref # NoRef, refLock[HashText[req[v].ref]] = v
        PROVE  refLock'[HashText[req'[v].ref]] = v
    BY <1>0, <1>a DEF Ends, Release
  <1>b. ASSUME NEW w \in Workers, Ends(w) PROVE pc'[w] = "done"
    BY <1>b DEF Ends
  <1>c. ASSUME NEW w \in Workers, Ends(w), NEW v \in Workers, v # w
        PROVE  pc'[v] = pc[v] /\ req'[v] = req[v]
    BY <1>c DEF Ends
  <1>1. ASSUME NEW w \in Workers, Ends(w), journal' = journal PROVE RefHeld'
    BY <1>1, <1>a, <1>b, <1>c DEF Control
  <1>2. ASSUME NEW w \in Workers, Commit(w) PROVE RefHeld'
    <2>1. Ends(w) /\ journal' = journal \cup {Abs!Record(txid[w], req[w])}
      BY <1>2, EndingSteps DEF Commit
    <2>2. ASSUME NEW v \in Workers, v # w,
                 pc[v] \in {"lock1", "lock2", "post"},
                 Unchecked(req[v]), req[v].ref # NoRef,
                 req[w].ref = req[v].ref
          PROVE  req[w].op = "transfer"
      BY <1>2, <2>2, RequestFields DEF Commit, Control
    <2>3. QED
      BY <1>a, <1>b, <1>c, <2>1, <2>2 DEF Control, Abs!Record
  <1>3. ASSUME NEW w \in Workers, NEW p \in Requests, Begin(w, p) PROVE RefHeld'
    BY <1>3 DEF Begin, Answer, Entry
  <1>4. ASSUME NEW w \in Workers, AcquireRefLock(w) PROVE RefHeld'
    BY <1>4 DEF AcquireRefLock, GoTo, Control
  <1>5. ASSUME NEW w \in Workers, LookupNothing(w) PROVE RefHeld'
    <2>1. \A j \in journal : j.ref # req[w].ref
      <3>1. req[w].ref # NoRef
        BY <1>5 DEF LookupNothing, Control
      <3>2. ASSUME NEW j \in journal, j.ref = req[w].ref
            PROVE  j.id \in GetTransactionByReference(req[w].ref)
        BY <3>1, <3>2 DEF GetTransactionByReference, Abs!Tagged
      <3>3. QED
        BY <1>5, <3>2 DEF LookupNothing
    <2>2. QED
      BY <1>5, <2>1 DEF LookupNothing, GoTo
  <1>6. ASSUME NEW w \in Workers, LockFirst(w) PROVE RefHeld'
    BY <1>6 DEF LockFirst, LockRow, GoTo
  <1>7. ASSUME NEW w \in Workers, LockSecond(w) PROVE RefHeld'
    BY <1>7 DEF LockSecond, LockRow, GoTo
  <1>8. ASSUME NEW w \in Workers, CheckBalance(w), Covered(w) PROVE RefHeld'
    BY <1>8 DEF CheckBalance, GoTo
  <1>9. ASSUME NEW w \in Workers, SumForRebuild(w) PROVE RefHeld'
    BY <1>9 DEF SumForRebuild, GoTo
  <1>10. ASSUME NEW w \in Workers, Return(w) PROVE RefHeld'
    BY <1>10 DEF Return
  <1>11. ASSUME NEW a \in Accounts, CreateLedgerAccount(a) PROVE RefHeld'
    BY <1>11 DEF CreateLedgerAccount
  <1>12. CASE UNCHANGED vars
    BY <1>12 DEF vars
  <1>13. QED
    BY EndingSteps, <1>1, <1>2, <1>3, <1>4, <1>5, <1>6, <1>7, <1>8, <1>9, <1>10,
       <1>11, <1>12
    DEF Next, Step, LookupFound, RowMissing, Abort, Refuse, CommitRebuild, CheckBalance

-----------------------------------------------------------------------------
(***************************************************************************)
(* Reads, the cache, solvency and once-only references.                    *)
(***************************************************************************)

\* A worker between its read and its COMMIT shares no account with the
\* worker that commits now.
LEMMA DisjointCommits ==
    ASSUME TypeOK, Control, RowsHeld,
           NEW w \in Workers, pc[w] = "post",
           NEW v \in Workers, v # w, pc[v] \in {"post", "write"}
    PROVE  req[v].from \notin {req[w].from, req[w].to}
  <1>1. {First(req[w]), Second(req[w])} = {req[w].from, req[w].to}
    BY LockOrderFacts DEF TypeOK
  <1>2. rowLock[req[w].from] = w /\ rowLock[req[w].to] = w
    BY <1>1 DEF RowsHeld, Control
  <1>3. rowLock[req[v].from] = v
    <2>1. CASE pc[v] = "post"
      <3>1. {First(req[v]), Second(req[v])} = {req[v].from, req[v].to}
        BY LockOrderFacts DEF TypeOK
      <3>2. rowLock[First(req[v])] = v /\ rowLock[Second(req[v])] = v
        BY <2>1 DEF RowsHeld, Control
      <3>3. QED
        BY <3>1, <3>2
    <2>2. CASE pc[v] = "write"
      <3>1. req[v].from = req[v].to
        BY <2>2, RequestFields DEF Control, TypeOK, WellFormed
      <3>2. First(req[v]) = req[v].from
        BY <3>1, LockOrderFacts DEF TypeOK
      <3>3. QED
        BY <2>2, <3>2 DEF RowsHeld
    <2>3. QED
      BY <2>1, <2>2
  <1>4. QED
    BY <1>2, <1>3

\* A posting leaves the sums of the accounts it does not name alone.
LEMMA MovedElsewhere ==
    ASSUME NEW s \in [Accounts -> Int], NEW p \in Requests,
           NEW a \in Accounts, a \notin {p.from, p.to}
    PROVE  Abs!Moved(s, p)[a] = s[a]
    BY RequestFields DEF Abs!Moved

\* What was read under the row locks is still true at COMMIT.
LEMMA NextReadsHold ==
    TypeOK /\ Control /\ RowsHeld /\ ReadsHold /\ [Next]_vars => ReadsHold'
  <1> SUFFICES ASSUME TypeOK, Control, RowsHeld, ReadsHold, [Next]_vars
               PROVE  ReadsHold'
    OBVIOUS
  <1> USE DEF TypeOK, ReadsHold, bank
  <1>1. ASSUME NEW w \in Workers, Ends(w), sum' = sum PROVE ReadsHold'
    BY <1>1 DEF Ends
  <1>2. ASSUME NEW w \in Workers, Commit(w) PROVE ReadsHold'
    <2>1. Ends(w) /\ sum' = Abs!Moved(sum, req[w])
      BY <1>2, EndingSteps DEF Commit
    <2>2. ASSUME NEW v \in Workers, v # w, pc[v] \in {"post", "write"}
          PROVE  sum'[req[v].from] = sum[req[v].from]
      BY <1>2, <2>1, <2>2, DisjointCommits, MovedElsewhere, RequestFields
      DEF Commit
    <2>3. QED
      BY <2>1, <2>2 DEF Ends
  <1>3. ASSUME NEW w \in Workers, NEW p \in Requests, Begin(w, p) PROVE ReadsHold'
    BY <1>3 DEF Begin, Answer, Entry
  <1>4. ASSUME NEW w \in Workers, AcquireRefLock(w) PROVE ReadsHold'
    BY <1>4 DEF AcquireRefLock, GoTo
  <1>5. ASSUME NEW w \in Workers, LookupNothing(w) PROVE ReadsHold'
    BY <1>5 DEF LookupNothing, GoTo
  <1>6. ASSUME NEW w \in Workers, LockFirst(w) PROVE ReadsHold'
    BY <1>6 DEF LockFirst, LockRow, GoTo
  <1>7. ASSUME NEW w \in Workers, LockSecond(w) PROVE ReadsHold'
    BY <1>7 DEF LockSecond, LockRow, GoTo, Unchecked
  <1>8. ASSUME NEW w \in Workers, CheckBalance(w), Covered(w) PROVE ReadsHold'
    BY <1>8 DEF CheckBalance, GoTo, Covered
  <1>9. ASSUME NEW w \in Workers, SumForRebuild(w) PROVE ReadsHold'
    BY <1>9 DEF SumForRebuild, GoTo
  <1>10. ASSUME NEW w \in Workers, Return(w) PROVE ReadsHold'
    BY <1>10 DEF Return
  <1>11. ASSUME NEW a \in Accounts, CreateLedgerAccount(a) PROVE ReadsHold'
    BY <1>11 DEF CreateLedgerAccount
  <1>12. CASE UNCHANGED vars
    BY <1>12 DEF vars
  <1>13. QED
    BY EndingSteps, <1>1, <1>2, <1>3, <1>4, <1>5, <1>6, <1>7, <1>8, <1>9,
       <1>10, <1>11, <1>12
    DEF Next, Step, LookupFound, RowMissing, Abort, Refuse, CommitRebuild,
        CheckBalance

\* Every step but the two COMMITs leaves the balances and the journal alone.
LEMMA OnlyCommits ==
    ASSUME [Next]_vars, ~ \E w \in Workers : Commit(w)
    PROVE  sum' = sum /\ journal' = journal
    BY DEF Next, Step, vars, bank, Begin, AcquireRefLock, LookupFound,
           LookupNothing, LockFirst, LockSecond, LockRow, RowMissing,
           CheckBalance, SumForRebuild, CommitRebuild, Return, Abort, Refuse,
           CreateLedgerAccount

\* Nothing but a commit writes a cached balance or the entries log.
LEMMA OnlyCommitsWriteCache ==
    ASSUME [Next]_vars, ~ \E w \in Workers : Commit(w) \/ CommitRebuild(w)
    PROVE  cache' = cache
    BY DEF Next, Step, vars, bank, Begin, AcquireRefLock, LookupFound,
           LookupNothing, LockFirst, LockSecond, LockRow, RowMissing,
           CheckBalance, SumForRebuild, Return, Abort, Refuse,
           CreateLedgerAccount

\* The cache is right for every account, its row created yet or not.
CacheIsSum == \A a \in Accounts : cache[a] = sum[a]

\* Every step preserves CacheIsSum.
LEMMA NextCache ==
    TypeOK /\ ReadsHold /\ CacheIsSum /\ [Next]_vars => CacheIsSum'
  <1> SUFFICES ASSUME TypeOK, ReadsHold, CacheIsSum, [Next]_vars
               PROVE  CacheIsSum'
    OBVIOUS
  <1> USE DEF CacheIsSum
  <1>1. ASSUME NEW w \in Workers, Commit(w) PROVE CacheIsSum'
    BY <1>1 DEF Commit, Abs!Moved, TypeOK
  <1>2. ASSUME NEW w \in Workers, CommitRebuild(w) PROVE CacheIsSum'
    BY <1>2 DEF CommitRebuild, ReadsHold, TypeOK, bank
  <1>3. CASE ~ \E w \in Workers : Commit(w) \/ CommitRebuild(w)
    BY <1>3, OnlyCommits, OnlyCommitsWriteCache
  <1>4. QED
    BY <1>1, <1>2, <1>3

\* Every step preserves Solvent.
LEMMA NextSolvent ==
    TypeOK /\ Control /\ ReadsHold /\ Solvent /\ [Next]_vars => Solvent'
  <1> SUFFICES ASSUME TypeOK, Control, ReadsHold, Solvent, [Next]_vars
               PROVE  Solvent'
    OBVIOUS
  <1>1. ASSUME NEW w \in Workers, Commit(w) PROVE Solvent'
    <2> DEFINE p == req[w]
    <2>1. /\ p \in Requests /\ p.amount > 0 /\ p.amount \in Int
          /\ p.op \in {"transfer", "deposit", "reverse"} /\ WellFormed(p)
      BY <1>1, RequestFields DEF Commit, Control, TypeOK, Active, Steps
    <2>2. /\ \A a \in Accounts : sum'[a] = sum[a] - (IF a = p.from THEN p.amount ELSE 0)
                                                  + (IF a = p.to THEN p.amount ELSE 0)
          /\ journal' = journal \cup {Abs!Record(txid[w], p)}
      BY <1>1 DEF Commit, Abs!Moved, TypeOK
    <2>3. \A a \in Accounts : sum[a] \in Int
      BY DEF TypeOK
    <2>4. p.op = "transfer" => sum[p.from] >= p.amount
      BY <1>1 DEF Commit, ReadsHold
    <2>5. SUFFICES ASSUME NEW a \in Accounts \ {Genesis}, sum'[a] < 0
                   PROVE  \E j \in journal' : j.op = "reverse" /\ j.from = a
      BY DEF Solvent
    <2>6. CASE p.op = "reverse" /\ p.from = a
      <3>1. Abs!Record(txid[w], p) \in journal'
        BY <2>2
      <3>2. Abs!Record(txid[w], p).op = "reverse" /\ Abs!Record(txid[w], p).from = a
        BY <2>6 DEF Abs!Record
      <3>3. QED
        BY <3>1, <3>2
    <2>7. CASE ~(p.op = "reverse" /\ p.from = a)
      <3>1. sum[a] < 0
        <4>1. CASE a # p.from
          BY <2>1, <2>2, <2>3, <2>5, <4>1
        <4>2. CASE a = p.from
          <5>1. p.op = "transfer"
            BY <2>1, <2>5, <2>7, <4>2 DEF WellFormed
          <5>2. sum'[a] \in Int /\ sum'[a] >= 0
            <6> DEFINE amt == p.amount
                       cr == IF a = p.to THEN p.amount ELSE 0
            <6>1. sum'[a] = sum[a] - amt + cr
              BY <2>2, <4>2
            <6>2. sum[a] >= amt /\ sum[a] \in Int /\ amt \in Int /\ cr \in Int /\ cr >= 0
              BY <2>1, <2>3, <2>4, <4>2, <5>1
            <6> HIDE DEF amt, cr
            <6>3. QED
              BY <6>1, <6>2
          <5>3. QED
            BY <2>5, <5>2
        <4>3. QED
          BY <4>1, <4>2
      <3>2. QED
        BY <2>2, <3>1 DEF Solvent
    <2>8. QED
      BY <2>6, <2>7
  <1>2. CASE ~ \E w \in Workers : Commit(w)
    BY <1>2, OnlyCommits DEF Solvent
  <1>3. QED
    BY <1>1, <1>2

\* Every step preserves OncePerReference.
LEMMA NextOncePerReference ==
    TypeOK /\ Control /\ RefHeld /\ OncePerReference /\ [Next]_vars
        => OncePerReference'
  <1> SUFFICES ASSUME TypeOK, Control, RefHeld, OncePerReference, [Next]_vars
               PROVE  OncePerReference'
    OBVIOUS
  <1>1. ASSUME NEW w \in Workers, Commit(w) PROVE OncePerReference'
    <2>1. journal' = journal \cup {Abs!Record(txid[w], req[w])}
      BY <1>1 DEF Commit
    <2>2. ASSUME NEW j \in journal, j.ref = req[w].ref, j.ref # NoRef,
                 j.op # "transfer", req[w].op # "transfer"
          PROVE  FALSE
      BY <1>1, <2>2, RequestFields DEF Commit, RefHeld, Control, Unchecked, TypeOK
    <2>3. QED
      BY <2>1, <2>2 DEF OncePerReference, Abs!Record
  <1>2. CASE ~ \E w \in Workers : Commit(w)
    BY <1>2, OnlyCommits DEF OncePerReference
  <1>3. QED
    BY <1>1, <1>2

-----------------------------------------------------------------------------
(***************************************************************************)
(* The conjunction is inductive, and the properties of Ledger follow.      *)
(***************************************************************************)
IndInv ==
    /\ TypeOK
    /\ Control
    /\ RowsHeld
    /\ RefHeld
    /\ ReadsHold
    /\ CacheIsSum
    /\ Solvent
    /\ OncePerReference

\* The inductive invariant holds initially.
LEMMA InitIndInv == Init => IndInv
  <1> SUFFICES ASSUME Init PROVE IndInv
    OBVIOUS
  <1>1. TypeOK /\ Control
    BY InitType
  <1>2. RowsHeld /\ RefHeld /\ ReadsHold
    BY DEF Init, RowsHeld, RefHeld, ReadsHold
  <1>3. CacheIsSum /\ Solvent /\ OncePerReference
    BY DEF Init, CacheIsSum, Solvent, OncePerReference
  <1>4. QED
    BY <1>1, <1>2, <1>3 DEF IndInv

\* Every step preserves the inductive invariant.
LEMMA NextIndInv == IndInv /\ [Next]_vars => IndInv'
    BY NextType, NextRowsHeld, NextRefHeld, NextReadsHold, NextCache,
       NextSolvent, NextOncePerReference DEF IndInv

\* The inductive invariant holds throughout.
LEMMA SpecIndInv == Spec => []IndInv
    BY InitIndInv, NextIndInv, PTL DEF Spec

\* getBalance never disagrees with the entries log, however transfers,
\* deposits, reversals and rebuildBalance calls interleave, abort or lose
\* their acknowledgements.
THEOREM LedgerCacheMatchesLog == Spec => []CacheMatchesLog
  <1>1. IndInv => CacheMatchesLog
    BY DEF IndInv, TypeOK, CacheIsSum, CacheMatchesLog, GetBalance
  <1>2. QED
    BY <1>1, SpecIndInv, PTL

\* executeTransfer never overdraws an account: only genesis and the accounts
\* of reversed deposits can be negative, for any number of concurrent calls.
THEOREM LedgerSolvent == Spec => []Solvent
  <1>1. IndInv => Solvent
    BY DEF IndInv
  <1>2. QED
    BY <1>1, SpecIndInv, PTL

\* deposit and reverseDeposit are idempotent on their reference for every
\* hash function, colliding or not, and any number of concurrent retries.
THEOREM LedgerOncePerReference == Spec => []OncePerReference
  <1>1. IndInv => OncePerReference
    BY DEF IndInv
  <1>2. QED
    BY <1>1, SpecIndInv, PTL

-----------------------------------------------------------------------------
(***************************************************************************)
(* Ledger implements Bank.                                                 *)
(***************************************************************************)
LEMMA InitFreshIds == Init => FreshIds
    BY DEF Init, FreshIds, Active

\* Transaction ids stay fresh: the next one is above every recorded one.
LEMMA NextFreshIds ==
    TypeOK /\ Control /\ FreshIds /\ [Next]_vars => FreshIds'
  <1> SUFFICES ASSUME TypeOK, Control, FreshIds, [Next]_vars
               PROVE  FreshIds'
    OBVIOUS
  <1> USE LedgerAssumption DEF TypeOK, FreshIds
  <1>1. ASSUME NEW w \in Workers, NEW p \in Requests, Begin(w, p)
        PROVE  FreshIds'
    <2>1. /\ journal' = journal
          /\ started' = started + 1
          /\ txid' = [txid EXCEPT ![w] = started + 1]
      BY <1>1 DEF Begin, bank
    <2>2. \A v \in Workers \ {w} : pc'[v] = pc[v] /\ txid'[v] = txid[v]
      BY <1>1 DEF Begin, Answer
    <2>3. \A v \in Workers : pc[v] \in Active => txid[v] <= started
      BY DEF Control
    <2>4. txid'[w] = started + 1
      BY <2>1
    <2>5. \A j \in journal' : j.id \in 1 .. started' /\ j.id # txid'[w]
      BY <2>1, <2>4
    <2>6. \A v \in Workers \ {w} : pc'[v] \in Active => txid'[v] # txid'[w]
      BY <2>2, <2>3, <2>4
    <2>7. QED
      BY <2>1, <2>2, <2>5, <2>6
  <1>2. ASSUME NEW w \in Workers, Commit(w) PROVE FreshIds'
    <2>1. /\ journal' = journal \cup {Abs!Record(txid[w], req[w])}
          /\ Abs!Record(txid[w], req[w]).id = txid[w]
          /\ pc' = [pc EXCEPT ![w] = "done"]
          /\ txid' = txid /\ started' = started
      BY <1>2 DEF Commit, Answer, Abs!Record
    <2>2. pc[w] \in Active /\ txid[w] \in 1 .. started /\ pc'[w] \notin Active
      BY <1>2, <2>1 DEF Commit, Control, Active, Steps
    <2>3. QED
      BY <2>1, <2>2
  <1>3. ASSUME journal' = journal, started' = started,
               \A v \in Workers : pc'[v] \in Active =>
                   pc[v] \in Active /\ txid'[v] = txid[v]
        PROVE  FreshIds'
    BY <1>3
  <1>4. ASSUME NEW w \in Workers, Ends(w), journal' = journal PROVE FreshIds'
    BY <1>3, <1>4 DEF Ends, Active, Steps
  <1>5. ASSUME NEW w \in Workers, NEW next \in Steps, GoTo(w, next),
               pc[w] \in Active, journal' = journal
        PROVE  FreshIds'
    BY <1>3, <1>5 DEF GoTo
  <1>6. ASSUME NEW w \in Workers, Return(w) PROVE FreshIds'
    BY <1>3, <1>6 DEF Return, Active, Steps, bank
  <1>7. ASSUME NEW a \in Accounts, CreateLedgerAccount(a) PROVE FreshIds'
    BY <1>3, <1>7 DEF CreateLedgerAccount
  <1>8. CASE UNCHANGED vars
    BY <1>3, <1>8 DEF vars
  <1>9. ASSUME NEW w \in Workers, Step(w) PROVE FreshIds'
    <2>1. CASE \/ LookupFound(w) \/ RowMissing(w) \/ CommitRebuild(w)
               \/ CheckBalance(w) /\ ~Covered(w)
      BY <1>4, <2>1, EndingSteps
      DEF LookupFound, RowMissing, CommitRebuild, CheckBalance, Refuse, bank
    <2>2. CASE \/ AcquireRefLock(w) \/ LookupNothing(w)
               \/ LockFirst(w) \/ LockSecond(w)
               \/ SumForRebuild(w)
               \/ CheckBalance(w) /\ Covered(w)
      BY <1>5, <2>2
      DEF AcquireRefLock, LookupNothing, LockFirst, LockSecond, LockRow,
          CheckBalance, SumForRebuild, bank, Active, Steps
    <2>3. QED
      BY <1>2, <1>6, <1>9, <2>1, <2>2 DEF Step
  <1>10. ASSUME NEW w \in Workers, Abort(w) PROVE FreshIds'
    BY <1>4, <1>10, EndingSteps DEF Abort, Refuse, bank
  <1>11. QED
    BY <1>1, <1>7, <1>8, <1>9, <1>10 DEF Next

\* A COMMIT is one atomic posting that Bank accepts; no other step moves
\* money, and only createLedgerAccount opens an account.
LEMMA NextImplementsBank ==
    IndInv /\ FreshIds /\ [Next]_vars => [Abs!BankNext]_(Abs!bankVars)
  <1> SUFFICES ASSUME IndInv, FreshIds, [Next]_vars
               PROVE  Abs!BankNext \/ UNCHANGED Abs!bankVars
    OBVIOUS
  <1> USE DEF IndInv
  <1>1. ASSUME NEW w \in Workers, Commit(w) PROVE Abs!BankNext
    <2>1. req[w] \in Abs!Posting /\ txid[w] \in Ids
      BY <1>1, RequestFields, LedgerAssumption
      DEF Commit, Control, TypeOK, Active, Steps
    <2>2. {req[w].from, req[w].to} \subseteq rows
      <3>1. {First(req[w]), Second(req[w])} = {req[w].from, req[w].to}
        BY LockOrderFacts DEF TypeOK
      <3>2. First(req[w]) \in rows /\ Second(req[w]) \in rows
        BY <1>1 DEF Commit, RowsHeld, Control
      <3>3. QED
        BY <3>1, <3>2
    <2>3. req[w].amount > 0
      BY <1>1 DEF Commit, Control, Active, Steps
    <2>4. req[w].op = "transfer" => sum[req[w].from] >= req[w].amount
      BY <1>1 DEF Commit, ReadsHold
    <2>5. req[w].op # "transfer" => Abs!TagsOf(req[w].ref) = {}
      BY <1>1, RequestFields
      DEF Commit, RefHeld, Control, TypeOK, Unchecked, Abs!TagsOf, Abs!Tagged
    <2>6. \A j \in journal : j.id # txid[w]
      BY <1>1 DEF Commit, FreshIds, Active, Steps
    <2>7. Abs!Post(txid[w], req[w])
      BY <1>1, <2>2, <2>3, <2>4, <2>5, <2>6
      DEF Commit, Abs!Post, Abs!Accepts
    <2>8. QED
      BY <2>1, <2>7 DEF Abs!BankNext
  <1>2. ASSUME NEW a \in Accounts, CreateLedgerAccount(a) PROVE Abs!BankNext
    BY <1>2 DEF CreateLedgerAccount, Abs!BankNext, Abs!OpenAccount
  <1>3. CASE /\ ~ \E w \in Workers : Commit(w)
             /\ ~ \E a \in Accounts : CreateLedgerAccount(a)
    <2>1. sum' = sum /\ journal' = journal
      BY <1>3, OnlyCommits
    <2>2. rows' = rows
      BY <1>3
      DEF Next, Step, vars, bank, Begin, AcquireRefLock, LookupFound,
          LookupNothing, LockFirst, LockSecond, LockRow, RowMissing,
          CheckBalance, SumForRebuild, CommitRebuild, Return, Abort, Refuse
    <2>3. QED
      BY <2>1, <2>2 DEF Abs!bankVars
  <1>4. QED
    BY <1>1, <1>2, <1>3

\* ledger-svc's interleaved, locked, abortable transactions implement the
\* atomic bank its callers program against.
THEOREM LedgerImplementsBank == Spec => ImplementsBank
  <1>1. Init => Abs!BankInit
    BY DEF Init, Abs!BankInit
  <1>2. IndInv => TypeOK /\ Control
    BY DEF IndInv
  <1>3. QED
    BY <1>1, <1>2, SpecIndInv, InitFreshIds, NextFreshIds,
       NextImplementsBank, PTL
    DEF Spec, ImplementsBank, Abs!BankSpec

-----------------------------------------------------------------------------
(***************************************************************************)
(* Answers.  A call that was answered keeps its transaction id until the   *)
(* response is sent, and no later call draws the same one.                 *)
(***************************************************************************)
TakenIds ==
    /\ \A w \in Workers : pc[w] # "idle" => txid[w] \in 1 .. started
    /\ \A v, w \in Workers :
         pc[v] # "idle" /\ pc[w] # "idle" /\ txid[v] = txid[w] => v = w

\* What is proved of the answers.
Answered == TakenIds /\ ReplyHonest

\* A step of one call that stays open, or of none.
LEMMA QuietAnswers ==
    ASSUME Answered, UNCHANGED <<txid, reply, req, journal, started>>,
           \A v \in Workers : (pc'[v] = "done" => pc[v] = "done")
                              /\ (pc'[v] # "idle" => pc[v] # "idle")
    PROVE  Answered'
  BY DEF Answered, TakenIds, ReplyHonest

\* A call is answered without writing anything: an OK names what the journal
\* holds, a refusal has nothing in it.
LEMMA AnswerKept ==
    ASSUME TypeOK, Control, FreshIds, Answered, NEW w \in Workers, pc[w] \in Active,
           NEW outcome \in Outcomes, NEW tx, Answer(w, outcome, tx),
           UNCHANGED <<txid, req, journal, started>>,
           outcome = "ok" /\ req[w].op # "rebuild" =>
              \E j \in journal : j.id = tx /\ j.ref = req[w].ref
    PROVE  Answered'
<1>1. /\ pc'[w] = "done" /\ \A v \in Workers : v # w => pc'[v] = pc[v]
      /\ reply'[w].outcome = outcome /\ reply'[w].tx = tx
      /\ \A v \in Workers : v # w => reply'[v] = reply[v]
  BY DEF Answer, TypeOK
<1>2. pc[w] # "idle" /\ \A j \in journal : j.id # txid[w]
  BY DEF Active, FreshIds
<1>3. TakenIds'
  BY <1>1, <1>2 DEF Answered, TakenIds
<1>4. ReplyHonest'
  BY <1>1, <1>2 DEF Answered, ReplyHonest
<1> QED BY <1>3, <1>4 DEF Answered

\* A COMMIT adds a record no other call's refusal has to account for.
LEMMA CommitAnswered ==
    ASSUME TypeOK, Control, FreshIds, Answered, NEW w \in Workers, Commit(w)
    PROVE  Answered'
<1>1. /\ journal' = journal \cup {Abs!Record(txid[w], req[w])} /\ UNCHANGED <<req, txid, started>>
      /\ Answer(w, "ok", txid[w]) \/ Answer(w, "internal", 0)
      /\ pc[w] = "post"
  BY DEF Commit
<1>2. Abs!Record(txid[w], req[w]).id = txid[w] /\ Abs!Record(txid[w], req[w]).ref = req[w].ref
  BY DEF Abs!Record
<1>3. /\ pc'[w] = "done" /\ \A v \in Workers : v # w => pc'[v] = pc[v] /\ reply'[v] = reply[v]
      /\ \/ reply'[w].outcome = "ok" /\ reply'[w].tx = txid[w]
         \/ reply'[w].outcome = "internal"
  BY <1>1 DEF Answer, TypeOK
<1>4. TakenIds'
  BY <1>1, <1>3 DEF Answered, TakenIds
<1>5. ASSUME NEW v \in Workers, v # w, pc[v] = "done" PROVE txid[v] # txid[w]
  BY <1>1, <1>5 DEF Answered, TakenIds
<1>6. ReplyHonest'
  BY <1>1, <1>2, <1>3, <1>5 DEF Answered, ReplyHonest, Refusals
<1> QED BY <1>4, <1>6 DEF Answered

\* Every step keeps the answers honest.
LEMMA NextAnswered ==
    ASSUME TypeOK, Control, FreshIds, Answered, [Next]_vars
    PROVE  Answered'
<1> USE DEF bank
<1>1. ASSUME NEW w \in Workers, NEW p \in Requests, Begin(w, p) PROVE Answered'
  <2>1. /\ journal' = journal /\ started' = started + 1 /\ txid' = [txid EXCEPT ![w] = started + 1]
        /\ req' = [req EXCEPT ![w] = p] /\ pc[w] = "idle" /\ started \in Nat
    BY <1>1, LedgerAssumption DEF Begin, TypeOK
  <2>2. /\ \A v \in Workers : v # w => /\ txid'[v] = txid[v] /\ req'[v] = req[v]
                                       /\ pc'[v] = pc[v] /\ reply'[v] = reply[v]
        /\ txid'[w] = started + 1
    BY <1>1, <2>1 DEF Begin, Answer, TypeOK
  <2>3. \A v \in Workers : v # w /\ pc'[v] # "idle" => txid'[v] \in 1 .. started
    BY <2>2 DEF Answered, TakenIds
  <2>4. TakenIds'
    <3>1. \A v \in Workers : pc'[v] # "idle" => txid'[v] \in 1 .. started'
      BY <2>1, <2>2, <2>3
    <3>2. \A v \in Workers : v # w /\ pc'[v] # "idle" => txid'[v] # txid'[w]
      BY <2>1, <2>2, <2>3
    <3>3. \A u, v \in Workers : u # w /\ v # w /\ pc'[u] # "idle" /\ pc'[v] # "idle"
                               /\ txid'[u] = txid'[v] => u = v
      BY <2>2 DEF Answered, TakenIds
    <3> QED BY <3>1, <3>2, <3>3 DEF TakenIds
  <2>5. pc'[w] = "done" => reply'[w].outcome = "invalid_amount"
    <3>1. Entry(p) # "done"
      BY DEF Entry
    <3>2. CASE p.amount <= 0
      BY <1>1, <3>2 DEF Begin, Answer, TypeOK
    <3>3. CASE ~(p.amount <= 0)
      BY <1>1, <3>1, <3>3 DEF Begin, TypeOK
    <3> QED BY <3>2, <3>3
  <2>6. \A j \in journal : j.id # started + 1
    BY <2>1 DEF FreshIds
  <2>7. ReplyHonest'
    BY <2>1, <2>2, <2>5, <2>6 DEF Answered, ReplyHonest
  <2> QED BY <2>4, <2>7 DEF Answered
<1>2. ASSUME NEW w \in Workers, NEW outcome \in Refusals \cup {"internal"},
             pc[w] \in Active, Refuse(w, outcome)
      PROVE  Answered'
  <2>1. Answer(w, outcome, 0) /\ UNCHANGED <<txid, req, journal, started>>
    BY <1>2 DEF Refuse
  <2>2. outcome \in Outcomes /\ outcome # "ok"
    BY DEF Outcomes, Refusals
  <2> QED BY <1>2, <2>1, <2>2, AnswerKept
<1>3. ASSUME NEW w \in Workers, NEW step \in Active, pc[w] \in Active, GoTo(w, step),
             journal' = journal
      PROVE  Answered'
  <2>1. /\ pc'[w] # "done" /\ pc[w] # "idle" /\ \A v \in Workers : v # w => pc'[v] = pc[v]
        /\ UNCHANGED <<txid, reply, req, started>>
    BY <1>3 DEF GoTo, Active, TypeOK
  <2> QED BY <1>3, <2>1, QuietAnswers
<1>4. ASSUME NEW w \in Workers, LookupFound(w) PROVE Answered'
  <2>1. PICK tx \in GetTransactionByReference(req[w].ref) : Answer(w, "ok", tx)
    BY <1>4 DEF LookupFound
  <2>2. \E j \in journal : j.id = tx /\ j.ref = req[w].ref
    BY DEF GetTransactionByReference, Abs!Tagged
  <2>3. pc[w] \in Active /\ UNCHANGED <<txid, req, journal, started>> /\ "ok" \in Outcomes
    BY <1>4 DEF LookupFound, Active, Steps, Outcomes
  <2> QED BY <2>1, <2>2, <2>3, AnswerKept
<1>5. ASSUME NEW w \in Workers, CommitRebuild(w) PROVE Answered'
  <2>1. PICK outcome \in {"ok", "internal"} : Answer(w, outcome, 0)
    BY <1>5 DEF CommitRebuild
  <2>2. /\ pc[w] \in Active /\ UNCHANGED <<txid, req, journal, started>> /\ outcome \in Outcomes
        /\ req[w].op = "rebuild"
    BY <1>5 DEF CommitRebuild, Active, Steps, Outcomes, Control
  <2> QED BY <2>1, <2>2, AnswerKept
<1>6. ASSUME NEW w \in Workers, Return(w) PROVE Answered'
  BY <1>6 DEF Return, Answered, TakenIds, ReplyHonest, TypeOK
<1>7. ASSUME NEW w \in Workers, RowMissing(w) \/ Abort(w) PROVE Answered'
  BY <1>2, <1>7 DEF RowMissing, Abort, Active, Steps, Refusals
<1>8. ASSUME NEW w \in Workers, CheckBalance(w) PROVE Answered'
  <2>1. CASE Covered(w)
    BY <1>3, <1>8, <2>1 DEF CheckBalance, Active, Steps
  <2>2. CASE ~Covered(w)
    BY <1>2, <1>8, <2>2 DEF CheckBalance, Active, Steps, Refusals
  <2> QED BY <2>1, <2>2
<1>9. ASSUME NEW w \in Workers,
             \/ AcquireRefLock(w) \/ LookupNothing(w) \/ LockFirst(w) \/ LockSecond(w)
             \/ SumForRebuild(w)
      PROVE  Answered'
  <2>1. /\ pc[w] \in Active /\ journal' = journal
        /\ \E step \in {"lookup", "lock1", "lock2", "sum", "post", "write"} : GoTo(w, step)
    BY <1>9 DEF AcquireRefLock, LookupNothing, LockFirst, LockSecond, LockRow, SumForRebuild,
         Active, Steps
  <2> QED BY <1>3, <2>1 DEF Active, Steps
<1>10. ASSUME NEW a \in Accounts, CreateLedgerAccount(a) PROVE Answered'
  BY <1>10, QuietAnswers DEF CreateLedgerAccount
<1>11. CASE UNCHANGED vars
  BY <1>11, QuietAnswers DEF vars
<1>12. ASSUME NEW w \in Workers, Commit(w) PROVE Answered'
  BY <1>12, CommitAnswered
<1> QED BY <1>1, <1>4, <1>5, <1>6, <1>7, <1>8, <1>9, <1>10, <1>11, <1>12 DEF Next, Step

\* An OK answer always names a committed transaction with the caller's
\* reference, and a refused call moved nothing, however many calls run, abort
\* and are retried meanwhile.
THEOREM LedgerReplyHonest == Spec => []ReplyHonest
<1>1. Init => Answered
  BY DEF Init, Answered, TakenIds, ReplyHonest
<1>2. TypeOK /\ Control /\ FreshIds /\ Answered /\ [Next]_vars => Answered'
  BY NextAnswered
<1>3. IndInv => TypeOK /\ Control
  BY DEF IndInv
<1>4. Answered => ReplyHonest
  BY DEF Answered
<1> QED BY <1>1, <1>2, <1>3, <1>4, SpecIndInv, InitFreshIds, NextFreshIds, PTL DEF Spec
=============================================================================

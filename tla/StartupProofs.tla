--------------------------- MODULE StartupProofs ---------------------------
(***************************************************************************)
(* Proofs about Startup for any number of processes, releases, legacy rows *)
(* and faults: a process that serves is ready, and one that gave up had a  *)
(* reason to.                                                              *)
(***************************************************************************)
EXTENDS Startup, TLAPS

Places == {"down", "writable", "migrate", "lock", "check", "mark", "run", "clear",
           "backfill", "update", "serve", "fatal"}

\* What an attempt may fail with.
Errors == {"dirty", "connect", "standby", "read-only", "lock timeout", "unexpected EOF",
           "admin shutdown", "connection reset"}

Process == [at : Places, stage : Nat, left : Nat, session : BOOLEAN,
            lost : BOOLEAN, todo : SUBSET Legacy, why : {None, "budget"} \cup Errors]

Schema == [version : Nat, dirty : BOOLEAN, applied : Nat]

\* The types of the cluster, the schemas and the processes.
Types ==
    /\ service \in [Instances -> Services]
    /\ route \in {"leader", "standby", "down"}
    /\ schema \in [Services -> Schema]
    /\ missing \subseteq Legacy
    /\ lock \in [Services -> Instances \cup {None}]
    /\ inst \in [Instances -> Process]
    /\ interrupted \subseteq Services

\* A process is at the stage its main() has there.
Staged(i) ==
    /\ inst[i].at = "down" => inst[i].stage = 0
    /\ inst[i].at = "writable" => inst[i].stage = 1
    /\ inst[i].at \in {"migrate", "lock", "check", "mark", "run", "clear"} => inst[i].stage = 2
    /\ inst[i].at \in {"backfill", "update"} =>
          inst[i].stage = 3 /\ service[i] = "accounts"

\* A migration session needs the leader, and has the lock of its schema once it
\* does more than wait for it.  Without a session there was a failover.
Locked(i) ==
    /\ inst[i].session =>
          /\ inst[i].at \in {"lock", "check", "mark", "run", "clear"}
          /\ inst[i].at # "lock" => lock[service[i]] = i
          /\ route = "leader"
    /\ ~inst[i].session /\ inst[i].at \in {"lock", "check", "mark", "run", "clear"} =>
          inst[i].lost

\* What golang-migrate did to the schema so far, while its session lives.
Migrating(i) ==
    inst[i].session =>
        /\ inst[i].at = "mark" => ~Own(i).dirty /\ Pending(i)
        /\ inst[i].at = "run" => Own(i).dirty /\ Own(i).applied + 1 = Own(i).version
        /\ inst[i].at = "clear" => Own(i).dirty /\ Own(i).applied = Own(i).version

\* A dirty schema is being migrated, or its migration was cut off.
SchemaSound(s) ==
    /\ schema[s].version <= Target[s]
    /\ ~schema[s].dirty => schema[s].applied = schema[s].version
    /\ schema[s].dirty => \/ s \in interrupted
                          \/ \E i \in Instances : service[i] = s /\ MidMigration(i)

Migrated(s) == schema[s].applied = Target[s] /\ ~schema[s].dirty

\* The stages after the migrations have the whole schema, and a backfill
\* still has every row without an IBAN on its list.
Backfilling(i) ==
    /\ inst[i].at \in {"backfill", "update", "serve"} => Migrated(service[i])
    /\ inst[i].at = "update" => missing \subseteq inst[i].todo

\* The inductive invariant.
IndInv ==
    /\ Types
    /\ \A i \in Instances : Staged(i)
    /\ \A i \in Instances : Locked(i)
    /\ \A i \in Instances : Migrating(i)
    /\ \A s \in Services : SchemaSound(s)
    /\ \A i \in Instances : Backfilling(i)
    /\ ServingIsReady
    /\ FatalIsEarned

\* ServingIsReady and FatalIsEarned, of one process.
Ready(i) ==
    inst[i].at = "serve" => Migrated(service[i]) /\ (service[i] = "accounts" => missing = {})

Earned(i) ==
    inst[i].at = "fatal" =>
        \/ inst[i].why = "budget"
        \/ inst[i].why = "dirty" /\ service[i] \in interrupted
        \/ inst[i].why \in {"admin shutdown", "connection reset"} /\ inst[i].lost

-----------------------------------------------------------------------------
(***************************************************************************)
(* Steps of one process that leave the schemas alone.                      *)
(***************************************************************************)

\* The properties hold of every process.
LEMMA OfEach ==
    /\ ServingIsReady <=> \A i \in Instances : Ready(i)
    /\ FatalIsEarned <=> \A i \in Instances : Earned(i)
  BY DEF ServingIsReady, FatalIsEarned, Ready, Earned, Migrated, Own

\* The same of the next state.
LEMMA OfEachNext ==
    /\ ServingIsReady' <=> \A i \in Instances : Ready(i)'
    /\ FatalIsEarned' <=> \A i \in Instances : Earned(i)'
  BY DEF ServingIsReady, FatalIsEarned, Ready, Earned, Migrated, Own

\* One process changes; the others keep their locks.
LEMMA Settle ==
    ASSUME IndInv, NEW i \in Instances, NEW R \in Process, inst' = [inst EXCEPT ![i] = R],
           UNCHANGED <<service, route, schema, missing, interrupted>>,
           lock' \in [Services -> Instances \cup {None}],
           \A j \in Instances \ {i} : lock[service[j]] = j => lock'[service[j]] = j,
           ~MidMigration(i),
           Staged(i)', Locked(i)', Migrating(i)', Backfilling(i)', Ready(i)', Earned(i)'
    PROVE  IndInv'
<1>1. /\ inst' \in [Instances -> Process] /\ inst'[i] = R
      /\ \A j \in Instances \ {i} : inst'[j] = inst[j]
  BY DEF IndInv, Types
<1>2. Types'
  BY <1>1 DEF IndInv, Types
<1>3. ASSUME NEW j \in Instances \ {i}
      PROVE  Staged(j)' /\ Locked(j)' /\ Migrating(j)' /\ Backfilling(j)' /\ Ready(j)' /\ Earned(j)'
  <2>1. Staged(j) /\ Locked(j) /\ Migrating(j) /\ Backfilling(j) /\ Ready(j) /\ Earned(j)
    BY OfEach DEF IndInv
  <2>2. inst'[j] = inst[j]
    BY <1>1
  <2>3. Staged(j)' /\ Backfilling(j)'
    BY <2>1, <2>2 DEF Staged, Backfilling, Migrated
  <2>4. Ready(j)' /\ Earned(j)'
    BY <2>1, <2>2 DEF Ready, Earned, Migrated
  <2>5. Locked(j)'
    BY <2>1, <2>2 DEF Locked
  <2>6. Migrating(j)'
    BY <2>1, <2>2 DEF Migrating, Own, Pending
  <2> QED BY <2>3, <2>4, <2>5, <2>6
<1>4. ASSUME NEW s \in Services PROVE SchemaSound(s)'
  <2>1. SchemaSound(s)
    BY DEF IndInv
  <2>2. ASSUME NEW j \in Instances, service[j] = s, MidMigration(j)
        PROVE  \E k \in Instances : service'[k] = s /\ MidMigration(k)'
    <3>1. j # i /\ inst'[j] = inst[j]
      BY <1>1, <2>2
    <3> QED BY <2>2, <3>1 DEF MidMigration
  <2> QED BY <2>1, <2>2 DEF SchemaSound
<1> QED BY <1>2, <1>3, <1>4, OfEachNext DEF IndInv

\* A process that ends up without a session, at a place it is entitled to.
LEMMA Landed ==
    ASSUME IndInv, NEW i \in Instances, NEW R \in Process, inst' = [inst EXCEPT ![i] = R],
           UNCHANGED <<service, route, schema, missing, interrupted>>,
           lock' \in [Services -> Instances \cup {None}],
           \A j \in Instances \ {i} : lock[service[j]] = j => lock'[service[j]] = j,
           ~MidMigration(i), ~R.session,
           \/ R.at = "down" /\ R.stage = 0
           \/ R.at = "writable" /\ R.stage = 1
           \/ R.at = "migrate" /\ R.stage = 2
           \/ R.at = "backfill" /\ R.stage = 3 /\ service[i] = "accounts" /\ Migrated(service[i])
           \/ /\ R.at = "update" /\ R.stage = 3 /\ service[i] = "accounts"
              /\ Migrated(service[i]) /\ missing \subseteq R.todo
           \/ R.at = "serve" /\ Migrated(service[i]) /\ (service[i] = "accounts" => missing = {})
           \/ /\ R.at = "fatal"
              /\ \/ R.why = "budget"
                 \/ R.why = "dirty" /\ service[i] \in interrupted
                 \/ R.why \in {"admin shutdown", "connection reset"} /\ R.lost
    PROVE  IndInv'
<1>1. inst'[i] = R
  BY DEF IndInv, Types
<1>2. Staged(i)'
  BY <1>1 DEF Staged
<1>3. Locked(i)' /\ Migrating(i)'
  BY <1>1 DEF Locked, Migrating
<1>4. Backfilling(i)' /\ Ready(i)'
  BY <1>1 DEF Backfilling, Ready, Migrated
<1>5. Earned(i)'
  BY <1>1 DEF Earned
<1> QED BY <1>2, <1>3, <1>4, <1>5, Settle

\* The stages of the six main() functions.
LEMMA MainStages ==
    ASSUME NEW s \in Services
    PROVE  /\ Len(main(s)) = IF s = "accounts" THEN 3 ELSE 2
           /\ main(s)[1] = "writable" /\ main(s)[2] = "migrate"
           /\ s = "accounts" => main(s)[3] = "backfill"
<1>1. CASE s = "accounts"
  BY <1>1 DEF main, mainAccounts
<1>2. CASE s = "auth"
  BY <1>2 DEF main, mainAuth
<1>3. CASE s = "fraud"
  BY <1>3 DEF main, mainFraud
<1>4. CASE s = "ledger"
  BY <1>4 DEF main, mainLedger
<1>5. CASE s = "notifications"
  BY <1>5 DEF main, mainNotifications
<1>6. CASE s = "transfers"
  BY <1>6 DEF main, mainTransfers
<1> QED BY <1>1, <1>2, <1>3, <1>4, <1>5, <1>6 DEF Services

\* A process that tries its stage again.
LEMMA ProcessRetries ==
    ASSUME NEW R \in Process, R.left # 0, NEW at \in Places, NEW g,
           g = [R EXCEPT !.at = at, !.session = FALSE, !.lost = FALSE, !.left = R.left - 1]
    PROVE  g \in Process /\ ~g.session /\ g.at = at /\ g.stage = R.stage
<1>1. R.left \in Nat
  BY DEF Process
<1>2. R.left - 1 \in Nat
  BY <1>1
<1>3. g \in Process
  BY <1>2 DEF Process
<1>4. ~g.session /\ g.at = at /\ g.stage = R.stage
  BY DEF Process
<1> QED BY <1>3, <1>4

\* Where a failed attempt may leave a process.
Fallen(i, err, slow, R) ==
    /\ R \in Process /\ ~R.session
    /\ \/ R.at = "fatal" /\ R.why = "budget"
       \/ /\ R.at = "fatal" /\ R.why = err /\ ~slow /\ R.lost = inst[i].lost
          /\ err \notin {"connect", "standby", "read-only", "unexpected EOF"}
       \/ /\ inst[i].at = "writable" /\ R.at = "writable" /\ R.stage = 1
       \/ /\ inst[i].at \in {"migrate", "lock", "check", "mark", "run", "clear"}
          /\ R.at = "migrate" /\ R.stage = 2
       \/ /\ inst[i].at \in {"backfill", "update"} /\ R.at = "backfill" /\ R.stage = 3
          /\ service[i] = "accounts"

\* The three outcomes of a failed attempt.
LEMMA AfterFacts ==
    ASSUME IndInv, NEW i \in Instances, NEW slow \in BOOLEAN, NEW R,
           NEW err \in Errors,
           inst[i].at \in {"writable", "migrate", "lock", "check", "mark", "run", "clear",
                          "backfill", "update"},
           R = After(i, err, slow)
    PROVE  Fallen(i, err, slow, R)
<1> USE DEF Fallen
<1> DEFINE at == main(service[i])[inst[i].stage]
<1>1. inst[i] \in Process /\ service[i] \in Services /\ Staged(i)
  BY DEF IndInv, Types
<1>2. \/ /\ inst[i].at = "writable" /\ inst[i].stage = 1 /\ at = "writable"
      \/ /\ inst[i].at \in {"migrate", "lock", "check", "mark", "run", "clear"} /\ inst[i].stage = 2
         /\ at = "migrate"
      \/ /\ inst[i].at \in {"backfill", "update"} /\ inst[i].stage = 3 /\ at = "backfill"
         /\ service[i] = "accounts"
  BY <1>1, MainStages DEF Staged
<1>3. at \in Places
  BY <1>2 DEF Places
<1> HIDE DEF at
<1>4. CASE ~(slow \/ err = "standby" \/ IsUnavailable(err))
  <2>1. R = [inst[i] EXCEPT !.at = "fatal", !.session = FALSE, !.why = err]
        /\ ~slow /\ err \notin {"connect", "standby", "read-only", "unexpected EOF"}
    BY <1>4 DEF After, IsUnavailable
  <2>2. R \in Process /\ ~R.session /\ R.at = "fatal" /\ R.why = err /\ R.lost = inst[i].lost
    <3>2. R = [inst[i] EXCEPT !.at = "fatal", !.session = FALSE, !.why = err]
      BY <2>1
    <3>3. R \in Process
      BY <1>1, <3>2 DEF Process, Places, Errors
    <3>4. ~R.session
      BY <1>1, <3>2 DEF Process
    <3>5. R.at = "fatal" /\ R.why = err /\ R.lost = inst[i].lost
      BY <1>1, <3>2 DEF Process
    <3> QED BY <3>3, <3>4, <3>5
  <2> QED BY <2>1, <2>2
<1>5. CASE (slow \/ err = "standby" \/ IsUnavailable(err)) /\ inst[i].left = 0
  <2>1. R = [inst[i] EXCEPT !.at = "fatal", !.session = FALSE, !.why = "budget"]
    BY <1>5 DEF After
  <2>2. R \in Process /\ ~R.session /\ R.at = "fatal" /\ R.why = "budget"
    <3>2. R \in Process
      BY <1>1, <2>1 DEF Process, Places
    <3>3. ~R.session /\ R.at = "fatal" /\ R.why = "budget"
      BY <1>1, <2>1 DEF Process
    <3> QED BY <3>2, <3>3
  <2> QED BY <2>2
<1>6. CASE (slow \/ err = "standby" \/ IsUnavailable(err)) /\ inst[i].left # 0
  <2>1. R = [inst[i] EXCEPT !.at = at, !.session = FALSE, !.lost = FALSE,
                       !.left = inst[i].left - 1]
    BY <1>6 DEF After, at
  <2>2. R \in Process /\ ~R.session /\ R.at = at /\ R.stage = inst[i].stage
    <3>1. inst[i].left # 0
      BY <1>6
    <3>2. R \in Process
      BY <1>1, <1>3, <2>1, <3>1, ProcessRetries, ZenonT(40)
    <3>3. ~R.session
      BY <1>1, <2>1 DEF Process
    <3>4. R.at = at /\ R.stage = inst[i].stage
      BY <1>1, <2>1 DEF Process
    <3> QED BY <3>2, <3>3, <3>4
  <2> QED BY <1>2, <2>2
<1> QED BY <1>4, <1>5, <1>6

\* A failed attempt that was not the process's own fault, was a dirty schema that a
\* cut migration left behind, or lost its session to a failover.
LEMMA RetryStep ==
    ASSUME IndInv, NEW i \in Instances, NEW slow \in BOOLEAN,
           NEW err \in Errors,
           inst' = [inst EXCEPT ![i] = After(i, err, slow)],
           err = "dirty" => service[i] \in interrupted,
           err = "lock timeout" => slow,
           err \in {"admin shutdown", "connection reset"} => inst[i].lost,
           inst[i].at \in {"writable", "migrate", "lock", "check", "mark", "run", "clear",
                          "backfill", "update"},
           ~MidMigration(i),
           UNCHANGED <<service, route, schema, missing, interrupted>>,
           lock' \in [Services -> Instances \cup {None}],
           \A j \in Instances \ {i} : lock[service[j]] = j => lock'[service[j]] = j
    PROVE  IndInv'
<1> DEFINE R == After(i, err, slow)
<1>1. Fallen(i, err, slow, R)
  <2>1. R = After(i, err, slow)
    OBVIOUS
  <2> HIDE DEF R
  <2> QED BY <2>1, AfterFacts, Zenon
<1>2. inst' = [inst EXCEPT ![i] = R]
  OBVIOUS
<1>3. inst[i].at \in {"backfill", "update"} => Migrated(service[i])
  BY DEF IndInv, Backfilling
<1> HIDE DEF R
<1> QED BY <1>1, <1>2, <1>3, Landed DEF Fallen, Errors

\* The record of a process that entered a stage.
LEMMA ProcessAdvanced ==
    ASSUME NEW at \in Places, NEW n \in Nat, NEW g,
           g = [Stopped EXCEPT !.at = at, !.stage = n, !.left = Budget]
    PROVE  g \in Process /\ ~g.session /\ g.at = at /\ g.stage = n
  BY StartupAssumption DEF Stopped, Process

\* A process that enters the stage it is due for.
LEMMA AdvanceStep ==
    ASSUME IndInv, NEW i \in Instances, Advance(i), ~MidMigration(i),
           inst[i].at \in {"down", "writable", "migrate", "check", "update"},
           inst[i].at \in {"migrate", "check"} => Migrated(service[i]),
           inst[i].at = "update" => missing = {},
           UNCHANGED <<service, route, schema, missing, interrupted>>,
           lock' \in [Services -> Instances \cup {None}],
           \A j \in Instances \ {i} : lock[service[j]] = j => lock'[service[j]] = j
    PROVE  IndInv'
<1> DEFINE n == inst[i].stage + 1
           at == IF n > Len(main(service[i])) THEN "serve" ELSE main(service[i])[n]
           R == [Stopped EXCEPT !.at = at, !.stage = n, !.left = Budget]
<1>1. inst[i] \in Process /\ service[i] \in Services /\ Staged(i) /\ Backfilling(i)
  BY DEF IndInv, Types
<1>2. inst' = [inst EXCEPT ![i] = R]
  BY DEF Advance
<1>3. \/ at = "writable" /\ n = 1
      \/ at = "migrate" /\ n = 2
      \/ at = "backfill" /\ n = 3 /\ service[i] = "accounts" /\ Migrated(service[i])
      \/ at = "serve" /\ Migrated(service[i]) /\ (service[i] = "accounts" => missing = {}) /\ n \in Nat
  <2>1. CASE inst[i].at = "down"
    BY <1>1, <2>1, MainStages DEF Staged
  <2>2. CASE inst[i].at = "writable"
    BY <1>1, <2>2, MainStages DEF Staged
  <2>3. CASE inst[i].at \in {"migrate", "check"}
    BY <1>1, <2>3, MainStages DEF Staged
  <2>4. CASE inst[i].at = "update"
    BY <1>1, <2>4, MainStages DEF Staged, Backfilling
  <2> QED BY <2>1, <2>2, <2>3, <2>4
<1>4. at \in Places /\ n \in Nat
  BY <1>3 DEF Places
<1>5. R = [Stopped EXCEPT !.at = at, !.stage = n, !.left = Budget]
  OBVIOUS
<1> HIDE DEF n, at, R
<1>6. R \in Process /\ ~R.session /\ R.at = at /\ R.stage = n
  <2>1. R \in Process
    BY <1>4, <1>5, ProcessAdvanced
  <2>2. ~R.session
    BY <1>5 DEF Stopped
  <2>3. R.at = at
    BY <1>5 DEF Stopped
  <2>4. R.stage = n
    BY <1>5 DEF Stopped
  <2> QED BY <2>1, <2>2, <2>3, <2>4
<1> QED BY <1>2, <1>3, <1>6, Landed

\* A lock given back is nobody else's.
LEMMA UnlockFacts ==
    ASSUME Types, NEW i \in Instances, lock' = Unlock(i)
    PROVE  /\ lock' \in [Services -> Instances \cup {None}]
           /\ \A j \in Instances \ {i} : lock[service[j]] = j => lock'[service[j]] = j
  BY DEF Types, Unlock

\* A schema that is clean and not behind is the whole schema.
LEMMA WholeSchema ==
    ASSUME IndInv, NEW i \in Instances, ~Own(i).dirty, ~Pending(i)
    PROVE  Migrated(service[i])
<1>1. service[i] \in Services /\ Target[service[i]] \in Nat
  BY StartupAssumption DEF IndInv, Types
<1>2. schema[service[i]] \in Schema /\ SchemaSound(service[i])
  BY <1>1 DEF IndInv, Types
<1>3. schema[service[i]].version \in Nat
  BY <1>2 DEF Schema
<1> QED BY <1>1, <1>2, <1>3 DEF SchemaSound, Migrated, Own, Pending

\* The first stages.
LEMMA EarlySteps ==
    ASSUME IndInv, NEW i \in Instances,
           Start(i) \/ WaitForWritable(i) \/ Exited(i) \/ backfillIBANs(i)
    PROVE  IndInv'
<1>1. /\ UNCHANGED <<service, route, schema, missing, lock, interrupted>>
      /\ Types /\ inst[i] \in Process
  BY DEF Start, WaitForWritable, Exited, backfillIBANs, IndInv, Types
<1>2. lock' \in [Services -> Instances \cup {None}]
  BY <1>1 DEF Types
<1>3. ~MidMigration(i)
  BY DEF Start, WaitForWritable, Exited, backfillIBANs, MidMigration
<1>4. CASE Start(i)
  BY <1>1, <1>2, <1>3, <1>4, AdvanceStep DEF Start
<1>5. CASE WaitForWritable(i)
  <2>1. inst[i].at = "writable"
    BY <1>5 DEF WaitForWritable
  <2>2. CASE Advance(i)
    BY <1>1, <1>2, <1>3, <2>1, <2>2, AdvanceStep
  <2>3. ASSUME NEW slow \in BOOLEAN, NEW err \in {"standby", "connect"},
               inst' = [inst EXCEPT ![i] = After(i, err, slow)]
        PROVE  IndInv'
    BY <1>1, <1>2, <1>3, <2>1, <2>3, RetryStep DEF Errors
  <2> QED BY <1>5, <2>2, <2>3 DEF WaitForWritable, Retry
<1>6. CASE Exited(i)
  <2>1. inst' = [inst EXCEPT ![i] = Stopped]
    BY <1>6 DEF Exited
  <2>2. Stopped \in Process /\ ~Stopped.session /\ Stopped.at = "down" /\ Stopped.stage = 0
    BY DEF Stopped, Process, Places
  <2> QED BY <1>1, <1>2, <1>3, <2>1, <2>2, Landed
<1>7. CASE backfillIBANs(i)
  <2>1. inst[i].at = "backfill"
    BY <1>7 DEF backfillIBANs
  <2>2. CASE Retry(i, "connect")
    <3>1. PICK slow \in BOOLEAN : inst' = [inst EXCEPT ![i] = After(i, "connect", slow)]
      BY <2>2 DEF Retry
    <3> QED BY <1>1, <1>2, <1>3, <2>1, <3>1, RetryStep DEF Errors
  <2>3. CASE inst' = [inst EXCEPT ![i].at = "update", ![i].todo = missing]
    <3> DEFINE R == [inst[i] EXCEPT !.at = "update", !.todo = missing]
    <3>1. inst \in [Instances -> Process] /\ missing \in SUBSET Legacy
      BY <1>1 DEF Types
    <3>2. /\ inst' \in [Instances -> Process] /\ \A j \in Instances \ {i} : inst'[j] = inst[j]
          /\ inst'[i].at = "update" /\ inst'[i].todo = missing /\ inst'[i].stage = inst[i].stage
          /\ inst'[i].session = inst[i].session
      BY <2>3, <3>1, ZenonT(40) DEF Process, Places
    <3>3. inst' = [inst EXCEPT ![i] = inst'[i]]
      BY <3>1, <3>2
    <3>4. inst[i].stage = 3 /\ service[i] = "accounts" /\ Migrated(service[i]) /\ ~inst[i].session
      BY <2>1 DEF IndInv, Staged, Backfilling, Locked
    <3>5. inst'[i] \in Process /\ missing \subseteq inst'[i].todo /\ ~inst'[i].session
      BY <3>2, <3>4
    <3>6. ASSUME NEW P, P = inst'[i] PROVE IndInv'
      BY <1>1, <1>2, <1>3, <3>2, <3>3, <3>4, <3>5, <3>6, Landed
    <3> QED BY <3>6
  <2> QED BY <1>7, <2>2, <2>3 DEF backfillIBANs
<1> QED BY <1>4, <1>5, <1>6, <1>7
-----------------------------------------------------------------------------
(***************************************************************************)
(* The migrations.                                                         *)
(***************************************************************************)

\* A dirty schema that nobody is migrating was cut off in the middle.
LEMMA DirtyIsCut ==
    ASSUME IndInv, NEW i \in Instances, Own(i).dirty,
           route # "leader" \/ (inst[i].session /\ inst[i].at = "check")
    PROVE  service[i] \in interrupted
<1>1. service[i] \in Services /\ SchemaSound(service[i])
  BY DEF IndInv, Types
<1>2. SUFFICES ASSUME NEW j \in Instances, service[j] = service[i], MidMigration(j) PROVE FALSE
  BY <1>1 DEF SchemaSound, Own
<1>3. Locked(i) /\ Locked(j)
  BY DEF IndInv
<1> QED BY <1>2, <1>3 DEF Locked, MidMigration

\* One process changes its place and its session; the rest of it stays.
LEMMA Moved ==
    ASSUME inst \in [Instances -> Process], NEW i \in Instances, NEW at \in Places,
           NEW session \in BOOLEAN,
           inst' = [inst EXCEPT ![i].at = at, ![i].session = session]
    PROVE  /\ inst'[i] \in Process /\ inst'[i].at = at /\ inst'[i].session = session
           /\ inst'[i].stage = inst[i].stage
           /\ inst' = [inst EXCEPT ![i] = inst'[i]]
           /\ \A j \in Instances \ {i} : inst'[j] = inst[j]
<1>1. inst' \in [Instances -> Process] /\ \A j \in Instances \ {i} : inst'[j] = inst[j]
  BY ZenonT(40) DEF Process
<1>2. inst'[i].at = at /\ inst'[i].stage = inst[i].stage
  BY DEF Process
<1>3. inst'[i].session = session
  BY DEF Process
<1> QED BY <1>1, <1>2, <1>3

\* One process changes its place.
LEMMA Walked ==
    ASSUME inst \in [Instances -> Process], NEW i \in Instances, NEW at \in Places,
           inst' = [inst EXCEPT ![i].at = at]
    PROVE  /\ inst'[i] \in Process /\ inst'[i].at = at
           /\ inst'[i].session = inst[i].session
           /\ inst'[i].stage = inst[i].stage
           /\ inst' = [inst EXCEPT ![i] = inst'[i]]
           /\ \A j \in Instances \ {i} : inst'[j] = inst[j]
<1>1. inst' \in [Instances -> Process] /\ \A j \in Instances \ {i} : inst'[j] = inst[j]
  BY DEF Process
<1>2. inst'[i].at = at /\ inst'[i].stage = inst[i].stage /\ inst'[i].session = inst[i].session
  BY DEF Process
<1> QED BY <1>1, <1>2

\* Connecting, and reading the version on a standby.
LEMMA MigrationStarts ==
    ASSUME IndInv, NEW i \in Instances, runMigrations(i) \/ runMigrationsOnStandby(i)
    PROVE  IndInv'
<1>1. /\ UNCHANGED <<service, route, schema, missing, interrupted>>
      /\ Types /\ inst[i] \in Process /\ inst[i].at = "migrate" /\ service[i] \in Services
  BY DEF runMigrations, runMigrationsOnStandby, IndInv, Types
<1>2. ~MidMigration(i) /\ ~inst[i].session
  BY <1>1 DEF MidMigration, IndInv, Locked
<1>3. ASSUME UNCHANGED lock, NEW slow \in BOOLEAN,
             NEW err \in Errors,
             inst' = [inst EXCEPT ![i] = After(i, err, slow)],
             err = "dirty" => service[i] \in interrupted,
             err \in {"dirty", "connect", "read-only"}
      PROVE  IndInv'
  <2>1. lock' \in [Services -> Instances \cup {None}]
    BY <1>1, <1>3 DEF Types
  <2> QED BY <1>1, <1>2, <1>3, <2>1, RetryStep
<1>4. CASE runMigrationsOnStandby(i)
  <2>1. UNCHANGED lock /\ route # "leader"
    BY <1>4 DEF runMigrationsOnStandby
  <2>2. CASE Own(i).dirty /\ Retry(i, "dirty")
    <3>1. service[i] \in interrupted
      BY <2>1, <2>2, DirtyIsCut
    <3>2. PICK slow \in BOOLEAN : inst' = [inst EXCEPT ![i] = After(i, "dirty", slow)]
      BY <2>2 DEF Retry
    <3> QED BY <1>3, <2>1, <3>1, <3>2 DEF Errors
  <2>3. CASE ~Own(i).dirty /\ ~Pending(i) /\ Advance(i)
    <3>1. Migrated(service[i])
      BY <2>3, WholeSchema
    <3>2. lock' \in [Services -> Instances \cup {None}]
      BY <1>1, <2>1 DEF Types
    <3> QED BY <1>1, <1>2, <2>1, <2>3, <3>1, <3>2, AdvanceStep
  <2>4. CASE Retry(i, "read-only")
    <3>1. PICK slow \in BOOLEAN : inst' = [inst EXCEPT ![i] = After(i, "read-only", slow)]
      BY <2>4 DEF Retry
    <3> QED BY <1>3, <2>1, <3>1 DEF Errors
  <2> QED BY <1>4, <2>2, <2>3, <2>4 DEF runMigrationsOnStandby
<1>5. CASE runMigrations(i)
  <2>1. UNCHANGED lock /\ lock' \in [Services -> Instances \cup {None}]
    BY <1>1, <1>5 DEF runMigrations, Types
  <2>2. CASE Retry(i, "connect")
    <3>1. PICK slow \in BOOLEAN : inst' = [inst EXCEPT ![i] = After(i, "connect", slow)]
      BY <2>2 DEF Retry
    <3> QED BY <1>3, <2>1, <3>1 DEF Errors
  <2>3. CASE route = "leader" /\ inst' = [inst EXCEPT ![i].at = "lock", ![i].session = TRUE]
    <3>1. /\ inst'[i] \in Process /\ inst'[i].at = "lock" /\ inst'[i].session = TRUE
          /\ inst'[i].stage = inst[i].stage /\ inst' = [inst EXCEPT ![i] = inst'[i]]
      <4>1. "lock" \in Places /\ inst \in [Instances -> Process]
        BY <1>1 DEF Places, Types
      <4> QED BY <2>3, <4>1, Moved
    <3>2. Staged(i)'
      BY <1>1, <3>1 DEF Staged, IndInv
    <3>3. Locked(i)' /\ Migrating(i)'
      BY <1>1, <2>3, <3>1 DEF Locked, Migrating
    <3>4. Backfilling(i)' /\ Ready(i)' /\ Earned(i)'
      BY <3>1 DEF Backfilling, Ready, Earned
    <3>5. ASSUME NEW P, P = inst'[i] PROVE IndInv'
      BY <1>1, <1>2, <2>1, <3>1, <3>2, <3>3, <3>4, <3>5, Settle
    <3> QED BY <3>5
  <2> QED BY <1>5, <2>2, <2>3 DEF runMigrations
<1> QED BY <1>4, <1>5

\* Taking the lock, or waiting for it in vain.
LEMMA LockStep ==
    ASSUME IndInv, NEW i \in Instances, Lock(i)
    PROVE  IndInv'
<1>1. /\ UNCHANGED <<service, route, schema, missing, interrupted>>
      /\ Types /\ inst[i] \in Process /\ service[i] \in Services
      /\ inst[i].at = "lock" /\ inst[i].session
  BY DEF Lock, IndInv, Types
<1>2. ~MidMigration(i)
  BY <1>1 DEF MidMigration
<1>3. CASE inst' = [inst EXCEPT ![i] = After(i, "lock timeout", TRUE)] /\ UNCHANGED lock
  <2>1. lock' \in [Services -> Instances \cup {None}]
    BY <1>1, <1>3 DEF Types
  <2>2. "lock timeout" \in Errors
    BY DEF Errors
  <2> QED BY <1>1, <1>2, <1>3, <2>1, <2>2, RetryStep
<1>4. CASE /\ lock[service[i]] = None
           /\ lock' = [lock EXCEPT ![service[i]] = i]
           /\ inst' = [inst EXCEPT ![i].at = "check"]
  <2>1. /\ inst'[i] \in Process /\ inst'[i].at = "check" /\ inst'[i].session = inst[i].session
        /\ inst'[i].stage = inst[i].stage /\ inst' = [inst EXCEPT ![i] = inst'[i]]
    <3>1. "check" \in Places /\ inst \in [Instances -> Process]
      BY <1>1 DEF Places, Types
    <3> QED BY <1>4, <3>1, Walked
  <2>2. /\ lock' \in [Services -> Instances \cup {None}] /\ lock'[service[i]] = i
        /\ \A j \in Instances \ {i} : lock[service[j]] = j => lock'[service[j]] = j
    BY <1>1, <1>4, StartupAssumption DEF Types
  <2>3. Staged(i)'
    BY <1>1, <2>1 DEF Staged, IndInv
  <2>4. Locked(i)'
    BY <1>1, <2>1, <2>2 DEF Locked, IndInv
  <2>5. Migrating(i)'
    BY <2>1 DEF Migrating
  <2>6. Backfilling(i)' /\ Ready(i)' /\ Earned(i)'
    BY <2>1 DEF Backfilling, Ready, Earned
  <2>7. ASSUME NEW P, P = inst'[i] PROVE IndInv'
    BY <1>1, <1>2, <2>1, <2>2, <2>3, <2>4, <2>5, <2>6, <2>7, Settle
  <2> QED BY <2>7
<1> QED BY <1>3, <1>4 DEF Lock

\* Reading the version under the lock.
LEMMA UpStep ==
    ASSUME IndInv, NEW i \in Instances, Up(i)
    PROVE  IndInv'
<1>1. /\ UNCHANGED <<service, route, schema, missing, interrupted>>
      /\ Types /\ inst[i] \in Process /\ service[i] \in Services
      /\ inst[i].at = "check" /\ inst[i].session
  BY DEF Up, IndInv, Types
<1>2. ~MidMigration(i)
  BY <1>1 DEF MidMigration
<1>3. CASE Own(i).dirty /\ Retry(i, "dirty") /\ lock' = Unlock(i)
  <2>1. PICK slow \in BOOLEAN : inst' = [inst EXCEPT ![i] = After(i, "dirty", slow)]
    BY <1>3 DEF Retry
  <2>2. service[i] \in interrupted
    BY <1>1, <1>3, DirtyIsCut
  <2> QED BY <1>1, <1>2, <1>3, <2>1, <2>2, UnlockFacts, RetryStep DEF Errors
<1>4. CASE ~Own(i).dirty /\ ~Pending(i) /\ Advance(i) /\ lock' = Unlock(i)
  <2>1. Migrated(service[i])
    BY <1>4, WholeSchema
  <2> QED BY <1>1, <1>2, <1>4, <2>1, UnlockFacts, AdvanceStep
<1>5. CASE /\ ~Own(i).dirty /\ Pending(i) /\ UNCHANGED lock
           /\ inst' = [inst EXCEPT ![i].at = "mark"]
  <2>1. /\ inst'[i] \in Process /\ inst'[i].at = "mark" /\ inst'[i].session = inst[i].session
        /\ inst'[i].stage = inst[i].stage /\ inst' = [inst EXCEPT ![i] = inst'[i]]
    <3>1. "mark" \in Places /\ inst \in [Instances -> Process]
      BY <1>1 DEF Places, Types
    <3> QED BY <1>5, <3>1, Walked
  <2>2. lock' \in [Services -> Instances \cup {None}]
    BY <1>1, <1>5 DEF Types
  <2>3. Staged(i)'
    BY <1>1, <2>1 DEF Staged, IndInv
  <2>4. Locked(i)'
    BY <1>1, <1>5, <2>1 DEF Locked, IndInv
  <2>5. Migrating(i)'
    BY <1>1, <1>5, <2>1 DEF Migrating, Own, Pending
  <2>6. Backfilling(i)' /\ Ready(i)' /\ Earned(i)'
    BY <2>1 DEF Backfilling, Ready, Earned
  <2>7. ASSUME NEW P, P = inst'[i] PROVE IndInv'
    BY <1>1, <1>2, <1>5, <2>1, <2>2, <2>3, <2>4, <2>5, <2>6, <2>7, Settle
  <2> QED BY <2>7
<1> QED BY <1>3, <1>4, <1>5 DEF Up

\* The session died under the migration.
LEMMA CutStep ==
    ASSUME IndInv, NEW i \in Instances, Cut(i)
    PROVE  IndInv'
<1>1. /\ UNCHANGED <<service, route, schema, missing, lock, interrupted>>
      /\ Types /\ inst[i].at \in {"lock", "check", "mark", "run", "clear"} /\ ~inst[i].session
      /\ inst[i].lost
  BY DEF Cut, IndInv, Locked
<1>2. ~MidMigration(i)
  BY <1>1 DEF MidMigration
<1>3. lock' \in [Services -> Instances \cup {None}]
  BY <1>1 DEF Types
<1>4. PICK err \in CutErrors : Retry(i, err)
  BY DEF Cut
<1>5. PICK slow \in BOOLEAN : inst' = [inst EXCEPT ![i] = After(i, err, slow)]
  BY <1>4 DEF Retry
<1>6. err \in Errors /\ err # "dirty" /\ err # "lock timeout"
  BY DEF CutErrors, Errors
<1> QED BY <1>1, <1>2, <1>3, <1>5, <1>6, RetryStep

\* A session changes its own schema, on which nobody is past the migrations and
\* nobody else has a session.
LEMMA SchemaMoves ==
    ASSUME IndInv, NEW i \in Instances, inst[i].session, ~Migrated(service[i]),
           UNCHANGED <<service, route, lock, interrupted>>,
           inst' \in [Instances -> Process], \A j \in Instances \ {i} : inst'[j] = inst[j],
           inst[i].at # "lock", inst'[i].session,
           inst'[i].at \in {"check", "mark", "run", "clear"}, inst'[i].stage = inst[i].stage,
           schema' \in [Services -> Schema],
           \A t \in Services \ {service[i]} : schema'[t] = schema[t],
           missing' \subseteq Legacy, service[i] # "accounts" => missing' = missing,
           SchemaSound(service[i])', Migrating(i)'
    PROVE  IndInv'
<1>1. /\ Types /\ service[i] \in Services /\ Staged(i) /\ Locked(i)
  BY DEF IndInv, Types
<1>2. Types'
  BY <1>1 DEF Types
<1>3. Staged(i)'
  BY <1>1 DEF Staged, Locked
<1>4. Locked(i)'
  BY <1>1 DEF Locked
<1>5. Backfilling(i)' /\ Ready(i)' /\ Earned(i)'
  BY DEF Backfilling, Ready, Earned
<1>6. ASSUME NEW j \in Instances \ {i}
      PROVE  /\ Staged(j)' /\ Locked(j)' /\ Migrating(j)'
             /\ Backfilling(j)' /\ Ready(j)' /\ Earned(j)'
  <2>1. /\ Staged(j) /\ Locked(j) /\ Migrating(j) /\ Backfilling(j) /\ Ready(j) /\ Earned(j)
        /\ inst'[j] = inst[j] /\ service[j] \in Services
    BY <1>1, OfEach DEF IndInv, Types
  <2>2. Staged(j)' /\ Earned(j)'
    BY <2>1 DEF Staged, Earned
  <2>3. Locked(j)'
    BY <2>1 DEF Locked
  <2>4. Migrating(j)'
    <3>1. CASE ~inst[j].session \/ inst[j].at = "lock"
      BY <2>1, <3>1 DEF Migrating
    <3>2. CASE inst[j].session /\ inst[j].at # "lock"
      <4>1. service[j] # service[i]
        BY <1>1, <2>1, <3>2 DEF Locked
      <4> QED BY <2>1, <4>1 DEF Migrating, Own, Pending
    <3> QED BY <3>1, <3>2
  <2>5. CASE inst[j].at \in {"backfill", "update", "serve"}
    <3>1. Migrated(service[j])
      BY <2>1, <2>5 DEF Backfilling
    <3>2. service[j] # service[i]
      BY <3>1
    <3>3. Migrated(service[j])'
      BY <2>1, <3>1, <3>2 DEF Migrated
    <3>4. service[j] = "accounts" => missing' = missing
      BY <3>2
    <3> QED BY <2>1, <2>2, <2>3, <2>4, <3>3, <3>4 DEF Backfilling, Ready, Staged
  <2>6. CASE inst[j].at \notin {"backfill", "update", "serve"}
    BY <2>1, <2>2, <2>3, <2>4, <2>6 DEF Backfilling, Ready
  <2> QED BY <2>5, <2>6
<1>7. ASSUME NEW t \in Services PROVE SchemaSound(t)'
  <2>1. CASE t = service[i]
    BY <2>1
  <2>2. CASE t # service[i]
    <3>1. SchemaSound(t) /\ schema'[t] = schema[t]
      BY <2>2 DEF IndInv
    <3>2. ASSUME NEW j \in Instances, service[j] = t, MidMigration(j)
          PROVE  \E k \in Instances : service'[k] = t /\ MidMigration(k)'
      <4>1. j # i /\ inst'[j] = inst[j]
        BY <2>2, <3>2
      <4> QED BY <3>2, <4>1 DEF MidMigration
    <3> QED BY <3>1, <3>2 DEF SchemaSound
  <2> QED BY <2>1, <2>2
<1> QED BY <1>2, <1>3, <1>4, <1>5, <1>6, <1>7, OfEachNext DEF IndInv

\* One migration: marked dirty, run, marked clean.
LEMMA MigrateStep ==
    ASSUME IndInv, NEW i \in Instances, Migrate(i)
    PROVE  IndInv'
<1> DEFINE s == service[i]
<1>1. /\ UNCHANGED <<service, route, lock, interrupted>> /\ inst[i].session
      /\ Types /\ s \in Services /\ inst \in [Instances -> Process]
      /\ schema \in [Services -> Schema] /\ Target[s] \in Nat
  BY StartupAssumption DEF Migrate, IndInv, Types
<1>2. /\ SchemaSound(s) /\ Migrating(i) /\ schema[s] \in Schema
      /\ schema[s].version \in Nat /\ schema[s].applied \in Nat
  BY <1>1 DEF IndInv, Schema
<1>3. CASE /\ inst[i].at = "mark" /\ UNCHANGED missing
           /\ schema' = [schema EXCEPT ![s].version = @ + 1, ![s].dirty = TRUE]
           /\ inst' = [inst EXCEPT ![i].at = "run"]
  <2>1. ~schema[s].dirty /\ schema[s].version < Target[s] /\ schema[s].applied = schema[s].version
    BY <1>1, <1>2, <1>3 DEF Migrating, Own, Pending, SchemaSound
  <2>2. /\ inst'[i].at = "run" /\ inst'[i].session /\ inst'[i].stage = inst[i].stage
        /\ inst' \in [Instances -> Process] /\ \A j \in Instances \ {i} : inst'[j] = inst[j]
    <3>1. "run" \in Places
      BY DEF Places
    <3>2. /\ inst'[i].at = "run" /\ inst'[i].session = inst[i].session
          /\ inst'[i].stage = inst[i].stage /\ \A j \in Instances \ {i} : inst'[j] = inst[j]
          /\ inst'[i] \in Process /\ inst' = [inst EXCEPT ![i] = inst'[i]]
      BY <1>1, <1>3, <3>1, Walked
    <3> QED BY <1>1, <3>2
  <2>3. /\ schema' \in [Services -> Schema]
        /\ \A t \in Services \ {s} : schema'[t] = schema[t]
    BY <1>1, <1>2, <1>3 DEF Schema
  <2>4. schema'[s].version = schema[s].version + 1 /\ schema'[s].applied = schema[s].applied
    BY <1>1, <1>2, <1>3 DEF Schema
  <2>5. schema'[s].dirty
    BY <1>1, <1>2, <1>3 DEF Schema
  <2>6. ~Migrated(s)
    BY <1>1, <1>2, <2>1 DEF Migrated
  <2>7. Migrating(i)'
    BY <1>1, <1>2, <2>1, <2>2, <2>4, <2>5 DEF Migrating, Own
  <2>8. MidMigration(i)' /\ service'[i] = s
    BY <1>1, <2>2 DEF MidMigration
  <2>9. SchemaSound(s)'
    BY <1>1, <1>2, <2>1, <2>4, <2>5, <2>8 DEF SchemaSound
  <2>10. missing' \subseteq Legacy
    BY <1>1, <1>3 DEF Types
  <2> QED BY <1>1, <1>3, <2>2, <2>3, <2>6, <2>7, <2>9, <2>10, SchemaMoves
<1>4. CASE /\ inst[i].at = "run"
           /\ schema' = [schema EXCEPT ![s].applied = @ + 1]
           /\ missing' = IF Own(i).version = Target[s] THEN missing \cup NoRows(s) ELSE missing
           /\ inst' = [inst EXCEPT ![i].at = "clear"]
  <2>1. schema[s].dirty /\ schema[s].applied + 1 = schema[s].version
    BY <1>1, <1>2, <1>4 DEF Migrating, Own
  <2>2. /\ inst'[i].at = "clear" /\ inst'[i].session /\ inst'[i].stage = inst[i].stage
        /\ inst' \in [Instances -> Process] /\ \A j \in Instances \ {i} : inst'[j] = inst[j]
    <3>1. "clear" \in Places
      BY DEF Places
    <3>2. /\ inst'[i].at = "clear" /\ inst'[i].session = inst[i].session
          /\ inst'[i].stage = inst[i].stage /\ \A j \in Instances \ {i} : inst'[j] = inst[j]
          /\ inst'[i] \in Process /\ inst' = [inst EXCEPT ![i] = inst'[i]]
      BY <1>1, <1>4, <3>1, Walked
    <3> QED BY <1>1, <3>2
  <2>3. /\ schema' \in [Services -> Schema]
        /\ \A t \in Services \ {s} : schema'[t] = schema[t]
    BY <1>1, <1>2, <1>4 DEF Schema
  <2>4. schema'[s].version = schema[s].version /\ schema'[s].applied = schema[s].applied + 1
    BY <1>1, <1>2, <1>4 DEF Schema
  <2>5. schema'[s].dirty = schema[s].dirty
    BY <1>1, <1>2, <1>4 DEF Schema
  <2>6. ~Migrated(s)
    BY <2>1 DEF Migrated
  <2>7. Migrating(i)'
    BY <1>1, <1>2, <2>1, <2>2, <2>4, <2>5 DEF Migrating, Own
  <2>8. MidMigration(i)' /\ service'[i] = s
    BY <1>1, <2>2 DEF MidMigration
  <2>9. SchemaSound(s)'
    BY <1>1, <1>2, <2>1, <2>4, <2>5, <2>8 DEF SchemaSound
  <2>10. missing' \subseteq Legacy /\ (s # "accounts" => missing' = missing)
    BY <1>1, <1>4 DEF Types, NoRows
  <2> QED BY <1>1, <1>4, <2>2, <2>3, <2>6, <2>7, <2>9, <2>10, SchemaMoves
<1>5. CASE /\ inst[i].at = "clear" /\ UNCHANGED missing
           /\ schema' = [schema EXCEPT ![s].dirty = FALSE]
           /\ inst' = [inst EXCEPT ![i].at = "check"]
  <2>1. schema[s].dirty /\ schema[s].applied = schema[s].version
    BY <1>1, <1>2, <1>5 DEF Migrating, Own
  <2>2. /\ inst'[i].at = "check" /\ inst'[i].session /\ inst'[i].stage = inst[i].stage
        /\ inst' \in [Instances -> Process] /\ \A j \in Instances \ {i} : inst'[j] = inst[j]
    <3>1. "check" \in Places
      BY DEF Places
    <3>2. /\ inst'[i].at = "check" /\ inst'[i].session = inst[i].session
          /\ inst'[i].stage = inst[i].stage /\ \A j \in Instances \ {i} : inst'[j] = inst[j]
          /\ inst'[i] \in Process /\ inst' = [inst EXCEPT ![i] = inst'[i]]
      BY <1>1, <1>5, <3>1, Walked
    <3> QED BY <1>1, <3>2
  <2>3. /\ schema' \in [Services -> Schema]
        /\ \A t \in Services \ {s} : schema'[t] = schema[t]
    BY <1>1, <1>2, <1>5 DEF Schema
  <2>4. schema'[s].version = schema[s].version /\ schema'[s].applied = schema[s].applied
    BY <1>1, <1>2, <1>5 DEF Schema
  <2>5. ~schema'[s].dirty
    BY <1>1, <1>2, <1>5 DEF Schema
  <2>6. ~Migrated(s)
    BY <2>1 DEF Migrated
  <2>7. Migrating(i)'
    BY <2>2 DEF Migrating
  <2>8. SchemaSound(s)'
    BY <1>1, <1>2, <2>1, <2>4, <2>5 DEF SchemaSound
  <2>9. missing' \subseteq Legacy
    BY <1>1, <1>5 DEF Types
  <2> QED BY <1>1, <1>5, <2>2, <2>3, <2>6, <2>7, <2>8, <2>9, SchemaMoves
<1> QED BY <1>3, <1>4, <1>5 DEF Migrate

-----------------------------------------------------------------------------
(***************************************************************************)
(* The backfill, the cluster and the operator.                             *)
(***************************************************************************)

\* One row of the backfill gets its IBAN: the lists of the others only get longer
\* than what is missing.
LEMMA RowFilled ==
    ASSUME IndInv, NEW i \in Instances, NEW r \in inst[i].todo, inst[i].at = "update",
           missing' = missing \ {r}, inst' = [inst EXCEPT ![i].todo = @ \ {r}],
           UNCHANGED <<service, route, schema, lock, interrupted>>
    PROVE  IndInv'
<1>1. Types /\ inst \in [Instances -> Process] /\ inst[i] \in Process
  BY DEF IndInv, Types
<1>2. /\ inst' \in [Instances -> Process] /\ \A j \in Instances \ {i} : inst'[j] = inst[j]
  BY <1>1 DEF Process
<1>3. /\ inst'[i].at = inst[i].at /\ inst'[i].stage = inst[i].stage
      /\ inst'[i].todo = inst[i].todo \ {r} /\ inst'[i].why = inst[i].why
      /\ inst'[i].lost = inst[i].lost
  BY <1>1 DEF Process
<1>4. inst'[i].session = inst[i].session
  BY <1>1 DEF Process
<1>5. Types'
  BY <1>1, <1>2 DEF Types
<1>6. \A j \in Instances : /\ inst'[j].at = inst[j].at /\ inst'[j].stage = inst[j].stage
                           /\ inst'[j].why = inst[j].why /\ inst'[j].lost = inst[j].lost
                           /\ (inst'[j].session <=> inst[j].session)
  BY <1>2, <1>3, <1>4
<1>7. ASSUME NEW j \in Instances
      PROVE  /\ Staged(j)' /\ Locked(j)' /\ Migrating(j)'
             /\ Backfilling(j)' /\ Ready(j)' /\ Earned(j)'
  <2>1. Staged(j) /\ Locked(j) /\ Migrating(j) /\ Backfilling(j) /\ Ready(j) /\ Earned(j)
    BY OfEach DEF IndInv
  <2>2. Staged(j)' /\ Earned(j)'
    BY <1>6, <2>1 DEF Staged, Earned
  <2>3. Locked(j)'
    BY <1>6, <2>1 DEF Locked
  <2>4. Migrating(j)'
    BY <1>6, <2>1 DEF Migrating, Own, Pending
  <2>5. Ready(j)'
    BY <1>6, <2>1 DEF Ready, Migrated
  <2>6. Backfilling(j)'
    <3>1. CASE j = i
      BY <1>3, <2>1, <3>1 DEF Backfilling, Migrated
    <3>2. CASE j # i
      BY <1>2, <2>1, <3>2 DEF Backfilling, Migrated
    <3> QED BY <3>1, <3>2
  <2> QED BY <2>2, <2>3, <2>4, <2>5, <2>6
<1>8. ASSUME NEW t \in Services PROVE SchemaSound(t)'
  BY <1>6 DEF IndInv, SchemaSound, MidMigration
<1> QED BY <1>5, <1>7, <1>8, OfEachNext DEF IndInv

\* The backfill's own steps.
LEMMA BackfillRowStep ==
    ASSUME IndInv, NEW i \in Instances, backfillRow(i)
    PROVE  IndInv'
<1>1. /\ UNCHANGED <<service, route, schema, lock, interrupted>>
      /\ Types /\ inst[i].at = "update" /\ Backfilling(i)
  BY DEF backfillRow, IndInv
<1>2. ~MidMigration(i) /\ lock' \in [Services -> Instances \cup {None}]
  BY <1>1 DEF MidMigration, Types
<1>3. CASE inst[i].todo = {} /\ Advance(i) /\ UNCHANGED missing
  <2>1. missing = {}
    BY <1>1, <1>3 DEF Backfilling
  <2> QED BY <1>1, <1>2, <1>3, <2>1, AdvanceStep
<1>4. ASSUME NEW r \in inst[i].todo, missing' = missing \ {r},
             inst' = [inst EXCEPT ![i].todo = @ \ {r}]
      PROVE  IndInv'
  BY <1>1, <1>4, RowFilled
<1>5. ASSUME NEW err \in {"connect", "read-only"}, Retry(i, err), UNCHANGED missing
      PROVE  IndInv'
  <2>1. PICK slow \in BOOLEAN : inst' = [inst EXCEPT ![i] = After(i, err, slow)]
    BY <1>5 DEF Retry
  <2> QED BY <1>1, <1>2, <1>5, <2>1, RetryStep DEF Errors
<1> QED BY <1>3, <1>4, <1>5 DEF backfillRow

\* A process is killed; a migration it was in the middle of is cut off.
LEMMA KillStep ==
    ASSUME IndInv, NEW i \in Instances, Kill(i)
    PROVE  IndInv'
<1>1. /\ UNCHANGED <<service, route, schema, missing>> /\ Types
      /\ inst' = [inst EXCEPT ![i] = Stopped] /\ lock' = Unlock(i)
      /\ interrupted' = interrupted \cup (IF MidMigration(i) THEN {service[i]} ELSE {})
  BY DEF Kill, IndInv
<1>2. Stopped \in Process /\ ~Stopped.session /\ Stopped.at = "down" /\ Stopped.stage = 0
  BY DEF Stopped, Process, Places
<1>3. /\ inst' \in [Instances -> Process] /\ inst'[i] = Stopped
      /\ \A j \in Instances \ {i} : inst'[j] = inst[j]
  BY <1>1, <1>2 DEF Types
<1>4. interrupted' \subseteq Services /\ interrupted \subseteq interrupted'
  BY <1>1 DEF Types
<1>5. Types'
  BY <1>1, <1>3, <1>4, UnlockFacts DEF Types
<1>6. ASSUME NEW j \in Instances
      PROVE  /\ Staged(j)' /\ Locked(j)' /\ Migrating(j)'
             /\ Backfilling(j)' /\ Ready(j)' /\ Earned(j)'
  <2>1. CASE j = i
    <3>1. inst'[j].at = "down" /\ ~inst'[j].session /\ inst'[j].stage = 0
      BY <1>2, <1>3, <2>1
    <3>2. Locked(j)' /\ Migrating(j)'
      BY <3>1 DEF Locked, Migrating
    <3> QED BY <3>1, <3>2 DEF Staged, Backfilling, Ready, Earned
  <2>2. CASE j # i
    <3>1. Staged(j) /\ Locked(j) /\ Migrating(j) /\ Backfilling(j) /\ Ready(j) /\ Earned(j)
      BY OfEach DEF IndInv
    <3>2. inst'[j] = inst[j]
      BY <1>3, <2>2
    <3>3. Staged(j)' /\ Backfilling(j)' /\ Ready(j)'
      BY <1>1, <3>1, <3>2 DEF Staged, Backfilling, Ready, Migrated
    <3>4. Earned(j)'
      BY <1>1, <1>4, <3>1, <3>2 DEF Earned
    <3>5. Locked(j)'
      BY <1>1, <2>2, <3>1, <3>2, UnlockFacts DEF Locked
    <3>6. Migrating(j)'
      BY <1>1, <3>1, <3>2 DEF Migrating, Own, Pending
    <3> QED BY <3>3, <3>4, <3>5, <3>6
  <2> QED BY <2>1, <2>2
<1>7. ASSUME NEW t \in Services PROVE SchemaSound(t)'
  <2>1. SchemaSound(t)
    BY DEF IndInv
  <2>2. ASSUME NEW j \in Instances, service[j] = t, MidMigration(j)
        PROVE  t \in interrupted' \/ \E k \in Instances : service'[k] = t /\ MidMigration(k)'
    <3>1. CASE j = i
      BY <1>1, <2>2, <3>1
    <3>2. CASE j # i
      <4>1. inst'[j] = inst[j]
        BY <1>3, <3>2
      <4> QED BY <1>1, <2>2, <4>1 DEF MidMigration
    <3> QED BY <3>1, <3>2
  <2> QED BY <1>1, <1>4, <2>1, <2>2 DEF SchemaSound
<1> QED BY <1>5, <1>6, <1>7, OfEachNext DEF IndInv

\* The leader goes, and with it every session: what was being migrated is cut off.
LEMMA FailoverStep ==
    ASSUME IndInv, Failover
    PROVE  IndInv'
<1>1. /\ UNCHANGED <<service, schema, missing>> /\ Types /\ inst \in [Instances -> Process]
      /\ route' \in {"standby", "down"}
      /\ inst' = [i \in Instances |->
                   [inst[i] EXCEPT !.session = FALSE, !.lost = @ \/ inst[i].session]]
      /\ lock' = [s \in Services |-> None]
      /\ interrupted' = interrupted \cup {service[i] : i \in {j \in Instances : MidMigration(j)}}
  BY DEF Failover, IndInv, Types
<1>2. ASSUME NEW j \in Instances
      PROVE  /\ inst'[j] \in Process /\ ~inst'[j].session /\ inst'[j].at = inst[j].at
             /\ inst'[j].lost = (inst[j].lost \/ inst[j].session)
             /\ inst'[j].stage = inst[j].stage /\ inst'[j].todo = inst[j].todo
             /\ inst'[j].why = inst[j].why
  <2>1. inst[j] \in Process
        /\ inst'[j] = [inst[j] EXCEPT !.session = FALSE, !.lost = @ \/ inst[j].session]
    BY <1>1
  <2>2. inst'[j] \in Process
    BY <2>1 DEF Process
  <2>3. ~inst'[j].session
    BY <2>1 DEF Process
  <2>4. /\ inst'[j].at = inst[j].at /\ inst'[j].stage = inst[j].stage
        /\ inst'[j].todo = inst[j].todo /\ inst'[j].why = inst[j].why
    BY <2>1 DEF Process
  <2>5. inst'[j].lost = (inst[j].lost \/ inst[j].session)
    BY <2>1 DEF Process
  <2> QED BY <2>2, <2>3, <2>4, <2>5
<1>3. interrupted' \subseteq Services /\ interrupted \subseteq interrupted'
  BY <1>1 DEF Types
<1>4. Types'
  <2>1. inst' \in [Instances -> Process]
    BY <1>1, <1>2
  <2> QED BY <1>1, <1>3, <2>1 DEF Types
<1>5. ASSUME NEW j \in Instances
      PROVE  /\ Staged(j)' /\ Locked(j)' /\ Migrating(j)'
             /\ Backfilling(j)' /\ Ready(j)' /\ Earned(j)'
  <2>1. Staged(j) /\ Locked(j) /\ Backfilling(j) /\ Ready(j) /\ Earned(j)
    BY OfEach DEF IndInv
  <2>2. Staged(j)' /\ Backfilling(j)' /\ Ready(j)'
    BY <1>1, <1>2, <2>1 DEF Staged, Backfilling, Ready, Migrated
  <2>3. Earned(j)'
    <3>1. inst'[j].at = inst[j].at /\ inst'[j].why = inst[j].why /\ (inst[j].lost => inst'[j].lost)
      BY <1>2
    <3>2. service' = service /\ interrupted \subseteq interrupted'
      BY <1>1, <1>3
    <3> QED BY <2>1, <3>1, <3>2 DEF Earned
  <2>4. Locked(j)'
    <3>1. ~inst'[j].session /\ inst'[j].at = inst[j].at
          /\ (inst[j].session \/ inst[j].lost => inst'[j].lost)
      BY <1>2
    <3> QED BY <2>1, <3>1 DEF Locked
  <2>5. Migrating(j)'
    BY <1>2 DEF Migrating
  <2> QED BY <2>2, <2>3, <2>4, <2>5
<1>6. ASSUME NEW t \in Services PROVE SchemaSound(t)'
  <2>1. SchemaSound(t)
    BY DEF IndInv
  <2>2. ASSUME NEW j \in Instances, service[j] = t, MidMigration(j) PROVE t \in interrupted'
    BY <1>1, <2>2
  <2> QED BY <1>1, <1>3, <2>1, <2>2 DEF SchemaSound
<1> QED BY <1>4, <1>5, <1>6, OfEachNext DEF IndInv

\* What neither touches a process nor takes the leader away.
LEMMA QuietStep ==
    ASSUME IndInv, Recover \/ UNCHANGED vars
    PROVE  IndInv'
<1>1. /\ UNCHANGED <<service, schema, missing, lock, inst, interrupted>>
      /\ route' \in {"leader", "standby", "down"} /\ (route = "leader" => route' = "leader")
  BY DEF Recover, vars, IndInv, Types
<1>2. Types'
  BY <1>1 DEF IndInv, Types
<1>3. ASSUME NEW j \in Instances
      PROVE  /\ Staged(j)' /\ Locked(j)' /\ Migrating(j)'
             /\ Backfilling(j)' /\ Ready(j)' /\ Earned(j)'
  <2>1. Staged(j) /\ Locked(j) /\ Migrating(j) /\ Backfilling(j) /\ Ready(j) /\ Earned(j)
    BY OfEach DEF IndInv
  <2>2. Staged(j)' /\ Backfilling(j)' /\ Ready(j)' /\ Earned(j)'
    BY <1>1, <2>1 DEF Staged, Backfilling, Ready, Migrated, Earned
  <2>3. Locked(j)'
    BY <1>1, <2>1 DEF Locked
  <2>4. Migrating(j)'
    BY <1>1, <2>1 DEF Migrating, Own, Pending
  <2> QED BY <2>2, <2>3, <2>4
<1>4. ASSUME NEW t \in Services PROVE SchemaSound(t)'
  BY <1>1 DEF IndInv, SchemaSound, MidMigration
<1> QED BY <1>2, <1>3, <1>4, OfEachNext DEF IndInv

-----------------------------------------------------------------------------
(***************************************************************************)
(* The results.                                                            *)
(***************************************************************************)

\* Nothing is up before the first start.
LEMMA InitInv ==
    ASSUME Init
    PROVE  IndInv
<1>1. Stopped \in Process /\ ~Stopped.session /\ Stopped.at = "down" /\ Stopped.stage = 0
  BY DEF Stopped, Process, Places
<1>2. \A i \in Instances : inst[i] = Stopped
  BY DEF Init
<1>3. ASSUME NEW s \in Services
      PROVE  /\ schema[s] \in Schema /\ schema[s].version = Deployed[s] /\ ~schema[s].dirty
             /\ schema[s].applied = Deployed[s]
  <2>1. /\ Deployed[s] \in Nat
        /\ schema[s] = [version |-> Deployed[s], dirty |-> FALSE, applied |-> Deployed[s]]
    BY StartupAssumption DEF Init
  <2> QED BY <2>1 DEF Schema
<1>4. Types
  <2>1. schema \in [Services -> Schema]
    BY <1>3 DEF Init
  <2>2. inst \in [Instances -> Process]
    BY <1>1 DEF Init
  <2> QED BY <2>1, <2>2, StartupAssumption DEF Init, Types
<1>5. ASSUME NEW i \in Instances
      PROVE  Staged(i) /\ Locked(i) /\ Migrating(i) /\ Backfilling(i) /\ Ready(i) /\ Earned(i)
  <2>1. inst[i].at = "down" /\ ~inst[i].session /\ inst[i].stage = 0
    BY <1>1, <1>2
  <2>2. Locked(i) /\ Migrating(i)
    BY <2>1 DEF Locked, Migrating
  <2> QED BY <2>1, <2>2 DEF Staged, Backfilling, Ready, Earned
<1>6. ASSUME NEW s \in Services PROVE SchemaSound(s)
  BY <1>3, StartupAssumption DEF SchemaSound
<1> QED BY <1>4, <1>5, <1>6, OfEach DEF IndInv

\* Every step of the cluster, the operator and a starting process keeps it.
LEMMA NextInv ==
    ASSUME IndInv, [Next]_vars
    PROVE  IndInv'
<1>1. ASSUME NEW i \in Instances, Start(i) \/ attempt(i) \/ Kill(i) \/ Exited(i)
      PROVE  IndInv'
  BY <1>1, EarlySteps, MigrationStarts, LockStep, UpStep, MigrateStep, CutStep, BackfillRowStep, KillStep
     DEF attempt
<1> QED BY <1>1, FailoverStep, QuietStep DEF Next

\* The invariant that carries both results: who holds a schema's lock, how far the
\* migration under it got, and which stages a process has behind it.
THEOREM SpecIndInv == Spec => []IndInv
<1>1. Init => IndInv
  BY InitInv
<1>2. IndInv /\ [Next]_vars => IndInv'
  BY NextInv
<1> QED BY <1>1, <1>2, PTL DEF Spec

\* For any number of processes, services, failovers and kills: a process that
\* serves has its whole schema, and accounts-svc no row without an IBAN.
THEOREM ServingProcessesAreReady == Spec => []ServingIsReady
<1>1. IndInv => ServingIsReady
  BY DEF IndInv
<1> QED BY <1>1, SpecIndInv, PTL

\* A start is only given up when a stage's budget ran out, a migration of that
\* schema was really cut off between its two version writes, or a failover ended
\* the process's own migration session with an error whose text pgha does not list.
THEOREM GivingUpIsEarned == Spec => []FatalIsEarned
<1>1. IndInv => FatalIsEarned
  BY DEF IndInv
<1> QED BY <1>1, SpecIndInv, PTL
=============================================================================

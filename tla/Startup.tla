------------------------------ MODULE Startup ------------------------------
(***************************************************************************)
(* How a service comes up on a Postgres cluster whose leader may change:   *)
(* pkg/pgha's Retry and WaitForWritable, the migrations each service runs, *)
(* and accounts-svc's IBAN backfill, up to the point where main() starts   *)
(* its workers and listeners.                                              *)
(*                                                                         *)
(* Patroni replicates synchronously, so what was committed survives a      *)
(* failover and the cluster is one database; what changes is what HAProxy  *)
(* routes to: the leader, a node in recovery, or nothing.  golang-migrate  *)
(* is external: an advisory lock, and a version row that is marked dirty   *)
(* before a migration and clean after it.                                  *)
(***************************************************************************)
EXTENDS Integers, Sequences, FiniteSets

CONSTANTS
    Instances,     \* processes
    Deployments,   \* which service each of them may run
    Target,        \* migrations embedded in a service's binary
    Deployed,      \* migrations an earlier release applied
    Legacy,        \* accounts that predate the iban column
    Budget,        \* retryBudget, in failed attempts
    MaxFaults,     \* bound: failovers and killed processes
    MaxStarts,     \* bound: starts, the first ones included
    None

Services == {"accounts", "auth", "fraud", "ledger", "notifications", "transfers"}

\* An earlier release had no migration that this one lacks.
ASSUME StartupAssumption ==
    /\ Deployments \subseteq [Instances -> Services]
    /\ Target \in [Services -> Nat]
    /\ Deployed \in [Services -> Nat]
    /\ \A s \in Services : Deployed[s] <= Target[s]
    /\ Budget \in Nat
    /\ None \notin Instances

VARIABLES
    service,       \* what each process runs
    route,         \* what HAProxy's leader port reaches
    schema,        \* [version, dirty, applied] of each service
    missing,       \* accounts rows with iban IS NULL
    lock,          \* the session that holds a service's migration lock
    inst,          \* the processes; lost is history: a failover ended the open session
    faults,        \* bound
    starts,        \* bound
    interrupted    \* history: a migration was cut off between its version writes

vars == <<service, route, schema, missing, lock, inst, faults, starts, interrupted>>

\* Faulty: the listeners start first and the backfill runs beside them.
mainAccountsEarly == << "writable", "migrate" >>

mainAccounts == << "writable", "migrate", "backfill" >>

mainAuth == << "writable", "migrate" >>

mainFraud == << "writable", "migrate" >>

mainLedger == << "writable", "migrate" >>

mainNotifications == << "writable", "migrate" >>

mainTransfers == << "writable", "migrate" >>

main(s) ==
    CASE s = "accounts" -> mainAccounts
      [] s = "auth" -> mainAuth
      [] s = "fraud" -> mainFraud
      [] s = "ledger" -> mainLedger
      [] s = "notifications" -> mainNotifications
      [] s = "transfers" -> mainTransfers

NoRows(s) == IF s = "accounts" THEN Legacy ELSE {}

Stopped == [at |-> "down", stage |-> 0, left |-> 0, session |-> FALSE, lost |-> FALSE,
            todo |-> {}, why |-> None]

Init ==
    /\ service \in Deployments
    /\ route \in {"leader", "standby", "down"}
    /\ schema = [s \in Services |-> [version |-> Deployed[s], dirty |-> FALSE,
                                     applied |-> Deployed[s]]]
    /\ missing = {}
    /\ lock = [s \in Services |-> None]
    /\ inst = [i \in Instances |-> Stopped]
    /\ faults = 0
    /\ starts = 0
    /\ interrupted = {}

-----------------------------------------------------------------------------
(***************************************************************************)
(* Retry.  An attempt at a stage fails with an error; the stage is tried   *)
(* again while the error may pass and the budget lasts, and otherwise the  *)
(* process ends in log.Fatal.                                              *)
(***************************************************************************)
\* How a session ends under golang-migrate: an EOF, the 57P01 of a demoted node, a
\* reset.  Its database.Error has no Unwrap, so that only the text is left.
CutErrors == {"unexpected EOF", "admin shutdown", "connection reset"}

\* Faulty: a connect timeout counts as the caller's own deadline.
IsUnavailableContextFirst(err) == err \in {"read-only", "unexpected EOF"}

\* Known by type or SQLSTATE, or, as a text, by one of the listed fragments.
IsUnavailable(err) == err \in {"connect", "read-only", "unexpected EOF"}

\* Faulty: retrying everything, for as long as it takes.
AfterForever(i, err, slow) ==
    [inst[i] EXCEPT !.at = main(service[i])[inst[i].stage], !.session = FALSE, !.lost = FALSE]

\* An attempt that outlived attemptTimeout is retried whatever its error.
After(i, err, slow) ==
    IF ~(slow \/ err = "standby" \/ IsUnavailable(err))
    THEN [inst[i] EXCEPT !.at = "fatal", !.session = FALSE, !.why = err]
    ELSE IF inst[i].left = 0
    THEN [inst[i] EXCEPT !.at = "fatal", !.session = FALSE, !.why = "budget"]
    ELSE [inst[i] EXCEPT !.at = main(service[i])[inst[i].stage], !.session = FALSE,
                         !.lost = FALSE, !.left = @ - 1]

Retry(i, err) ==
    \E slow \in BOOLEAN : inst' = [inst EXCEPT ![i] = After(i, err, slow)]

\* The next stage has a budget of its own; past the last one main() serves.
Advance(i) ==
    LET stages == main(service[i])
        n == inst[i].stage + 1
    IN inst' = [inst EXCEPT ![i] =
                  [Stopped EXCEPT !.at = IF n > Len(stages) THEN "serve" ELSE stages[n],
                                  !.stage = n,
                                  !.left = Budget]]

-----------------------------------------------------------------------------
Start(i) ==
    /\ inst[i].at = "down"
    /\ starts < MaxStarts
    /\ starts' = starts + 1
    /\ Advance(i)
    /\ UNCHANGED <<service, route, schema, missing, lock, faults, interrupted>>

\* pg_is_in_recovery() through the pool.
WaitForWritable(i) ==
    /\ inst[i].at = "writable"
    /\ \/ route = "leader" /\ Advance(i)
       \/ route = "standby" /\ Retry(i, "standby")
       \/ route = "down" /\ Retry(i, "connect")
    /\ UNCHANGED <<service, route, schema, missing, lock, faults, starts, interrupted>>

-----------------------------------------------------------------------------
(***************************************************************************)
(* runMigrations.  It does not take the attempt's context: no attempt is   *)
(* cut short, it only counts as slow.                                      *)
(***************************************************************************)
Own(i) == schema[service[i]]

Pending(i) == Own(i).version < Target[service[i]]

Unlock(i) == [lock EXCEPT ![service[i]] = IF @ = i THEN None ELSE @]

\* WithInstance connects; the error of its Ping keeps its type.
runMigrations(i) ==
    /\ inst[i].at = "migrate"
    /\ \/ route = "down" /\ Retry(i, "connect")
       \/ route = "leader" /\ inst' = [inst EXCEPT ![i].at = "lock", ![i].session = TRUE]
    /\ UNCHANGED <<service, route, schema, missing, lock, faults, starts, interrupted>>

\* The session takes the advisory lock, or waits for it until golang-migrate's
\* lock timeout, which is longer than attemptTimeout.
Lock(i) ==
    /\ inst[i].at = "lock"
    /\ inst[i].session
    /\ \/ /\ lock[service[i]] = None
          /\ lock' = [lock EXCEPT ![service[i]] = i]
          /\ inst' = [inst EXCEPT ![i].at = "check"]
       \/ /\ lock[service[i]] # None
          /\ inst' = [inst EXCEPT ![i] = After(i, "lock timeout", TRUE)]
          /\ UNCHANGED lock
    /\ UNCHANGED <<service, route, schema, missing, faults, starts, interrupted>>

\* On a node in recovery the version can be read but not written.
runMigrationsOnStandby(i) ==
    /\ inst[i].at = "migrate"
    /\ route = "standby"
    /\ \/ Own(i).dirty /\ Retry(i, "dirty")
       \/ ~Own(i).dirty /\ ~Pending(i) /\ Advance(i)
       \/ ~Own(i).dirty /\ Pending(i) /\ Retry(i, "read-only")
    /\ UNCHANGED <<service, route, schema, missing, lock, faults, starts, interrupted>>

\* Up reads the version row: dirty is an error, the last version is no change.
Up(i) ==
    /\ inst[i].at = "check"
    /\ inst[i].session
    /\ \/ Own(i).dirty /\ Retry(i, "dirty") /\ lock' = Unlock(i)
       \/ ~Own(i).dirty /\ ~Pending(i) /\ Advance(i) /\ lock' = Unlock(i)
       \/ /\ ~Own(i).dirty
          /\ Pending(i)
          /\ inst' = [inst EXCEPT ![i].at = "mark"]
          /\ UNCHANGED lock
    /\ UNCHANGED <<service, route, schema, missing, faults, starts, interrupted>>

\* SetVersion(n, dirty), the migration itself, SetVersion(n, clean).
Migrate(i) ==
    LET s == service[i]
    IN /\ inst[i].session
       /\ \/ /\ inst[i].at = "mark"
             /\ schema' = [schema EXCEPT ![s].version = @ + 1, ![s].dirty = TRUE]
             /\ inst' = [inst EXCEPT ![i].at = "run"]
             /\ UNCHANGED missing
          \/ /\ inst[i].at = "run"
             /\ schema' = [schema EXCEPT ![s].applied = @ + 1]
             /\ missing' = IF Own(i).version = Target[s] THEN missing \cup NoRows(s)
                           ELSE missing
             /\ inst' = [inst EXCEPT ![i].at = "clear"]
          \/ /\ inst[i].at = "clear"
             /\ schema' = [schema EXCEPT ![s].dirty = FALSE]
             /\ inst' = [inst EXCEPT ![i].at = "check"]
             /\ UNCHANGED missing
       /\ UNCHANGED <<service, route, lock, faults, starts, interrupted>>

\* The session died while it waited for the lock or migrated.
Cut(i) ==
    /\ inst[i].at \in {"lock", "check", "mark", "run", "clear"}
    /\ ~inst[i].session
    /\ \E err \in CutErrors : Retry(i, err)
    /\ UNCHANGED <<service, route, schema, missing, lock, faults, starts, interrupted>>

-----------------------------------------------------------------------------
(***************************************************************************)
(* backfillIBANs: list the rows without an IBAN, then update one by one.   *)
(***************************************************************************)
backfillIBANs(i) ==
    /\ inst[i].at = "backfill"
    /\ \/ /\ route = "down"
          /\ Retry(i, "connect")
       \/ /\ route # "down"
          /\ inst' = [inst EXCEPT ![i].at = "update", ![i].todo = missing]
    /\ UNCHANGED <<service, route, schema, missing, lock, faults, starts, interrupted>>

backfillRow(i) ==
    /\ inst[i].at = "update"
    /\ \/ /\ inst[i].todo = {}
          /\ Advance(i)
          /\ UNCHANGED missing
       \/ /\ route = "leader"
          /\ \E r \in inst[i].todo :
               /\ missing' = missing \ {r}
               /\ inst' = [inst EXCEPT ![i].todo = @ \ {r}]
       \/ /\ inst[i].todo # {}
          /\ route # "leader"
          /\ Retry(i, IF route = "down" THEN "connect" ELSE "read-only")
          /\ UNCHANGED missing
    /\ UNCHANGED <<service, route, schema, lock, faults, starts, interrupted>>

-----------------------------------------------------------------------------
(***************************************************************************)
(* The cluster and the operator.                                           *)
(***************************************************************************)
MidMigration(i) == inst[i].at \in {"run", "clear"} /\ inst[i].session

\* The leader goes: every session ends, and the locks they held.
Failover ==
    /\ faults < MaxFaults
    /\ faults' = faults + 1
    /\ route = "leader"
    /\ route' \in {"standby", "down"}
    /\ inst' = [i \in Instances |->
                  [inst[i] EXCEPT !.session = FALSE, !.lost = @ \/ inst[i].session]]
    /\ lock' = [s \in Services |-> None]
    /\ interrupted' = interrupted \cup {service[i] : i \in {j \in Instances : MidMigration(j)}}
    /\ UNCHANGED <<service, schema, missing, starts>>

\* A node answers again, and in the end it is the new leader.
Recover ==
    /\ \/ route = "down" /\ route' \in {"standby", "leader"}
       \/ route = "standby" /\ route' = "leader"
    /\ UNCHANGED <<service, schema, missing, lock, inst, faults, starts, interrupted>>

Kill(i) ==
    /\ faults < MaxFaults
    /\ faults' = faults + 1
    /\ inst[i].at # "down"
    /\ inst' = [inst EXCEPT ![i] = Stopped]
    /\ lock' = Unlock(i)
    /\ interrupted' = interrupted \cup (IF MidMigration(i) THEN {service[i]} ELSE {})
    /\ UNCHANGED <<service, route, schema, missing, starts>>

\* log.Fatal ended the process; somebody may start it again.
Exited(i) ==
    /\ inst[i].at = "fatal"
    /\ inst' = [inst EXCEPT ![i] = Stopped]
    /\ UNCHANGED <<service, route, schema, missing, lock, faults, starts, interrupted>>

-----------------------------------------------------------------------------
attempt(i) ==
    \/ WaitForWritable(i)
    \/ runMigrations(i)
    \/ runMigrationsOnStandby(i)
    \/ Lock(i)
    \/ Up(i)
    \/ Migrate(i)
    \/ Cut(i)
    \/ backfillIBANs(i)
    \/ backfillRow(i)

Next ==
    \/ \E i \in Instances : Start(i) \/ attempt(i) \/ Kill(i) \/ Exited(i)
    \/ Failover
    \/ Recover

Spec == Init /\ [][Next]_vars

\* A started process runs on.  Nobody promises that it is ever started, or when
\* the cluster has a leader again.
FairSpec == Spec /\ \A i \in Instances : WF_vars(attempt(i))

-----------------------------------------------------------------------------
(***************************************************************************)
(* Properties.                                                             *)
(***************************************************************************)

\* A process that serves does so on the whole schema, and accounts-svc on rows
\* that all have an IBAN, whatever failed over, was retried, or ran beside it
\* (backfill.go: no handler "ever observes a row with a NULL iban").
ServingIsReady ==
    \A i \in Instances :
      inst[i].at = "serve" =>
        /\ Own(i).applied = Target[service[i]]
        /\ ~Own(i).dirty
        /\ service[i] = "accounts" => missing = {}

\* A process that gives up on the way up had its reason: a stage used up its
\* budget, a migration of its schema was really cut off in the middle, or a
\* failover ended this very process's migration session and pgha did not know the
\* text.  A failover without such a session, a standby, and a second process that
\* migrates the same schema are waited out (pgha.Retry).
FatalIsEarned ==
    \A i \in Instances :
      inst[i].at = "fatal" =>
        \/ inst[i].why = "budget"
        \/ inst[i].why = "dirty" /\ service[i] \in interrupted
        \/ inst[i].why \in {"admin shutdown", "connection reset"} /\ inst[i].lost

\* A failover is waited out unless it outlasts the budget or leaves a dirty schema
\* (spec.md: a service "that started mid-failover now waits it out
\* instead of dying").  False of a failover that ends an open migration session.
FailoverIsWaitedOut ==
    \A i \in Instances :
      inst[i].at = "fatal" =>
        inst[i].why = "budget" \/ (inst[i].why = "dirty" /\ service[i] \in interrupted)

\* Whatever the cluster does, a start ends: the process serves, or it gives up.
StartupEnds ==
    \A i \in Instances : inst[i].at # "down" ~> inst[i].at \in {"serve", "fatal", "down"}
=============================================================================

------------------------------- MODULE Outbox -------------------------------
(***************************************************************************)
(* The transactional outbox of pkg/outbox, shared by auth-svc,             *)
(* accounts-svc and transfers-svc: InsertEvent inside a producer's         *)
(* transaction, RelayBatch run by several instances, CleanupPublished, and *)
(* the Kafka topic they publish to.                                        *)
(*                                                                         *)
(* An event is named by its outbox id.  The topic is the sequence of       *)
(* messages the broker accepted; events with the same partition key are in *)
(* one partition, so their order in the sequence is their order there.     *)
(***************************************************************************)
EXTENDS Integers, FiniteSets, Sequences

CONSTANTS
    MaxEvents,   \* bound: events inserted in a behaviour
    Key,         \* Key[e]: the partition key of event e
    Relays,      \* instances running RunRelay
    BatchSize,   \* LIMIT of the claiming SELECT
    MaxFaults    \* bound: failed publishes, writes, commits and crashes

Events == 1 .. MaxEvents

ASSUME OutboxAssumption ==
    /\ MaxEvents \in Nat
    /\ DOMAIN Key = Events
    /\ BatchSize \in Nat \ {0}
    /\ MaxFaults \in Nat

VARIABLES
    begun,       \* events whose INSERT ran; BIGSERIAL handed out their ids
    committed,   \* events whose producer's transaction committed
    aborted,     \* events whose producer's transaction rolled back
    before,      \* <<e, f>>: e's transaction ended in COMMIT before f's INSERT
    published,   \* rows with published_at set, committed
    deleted,     \* rows removed by the cleanup worker
    topic,       \* messages in Kafka
    pc,          \* each relay's step
    claimed,     \* rows each relay's transaction has locked
    marked,      \* rows it has set published_at on, not yet committed
    faults       \* failures so far

producer == <<begun, committed, aborted, before>>
relay == <<pc, claimed, marked>>
vars == <<producer, published, deleted, topic, relay, faults>>

\* The types of the outbox table, the topic and each relay's local state.
TypeOK ==
    /\ begun \subseteq Events
    /\ committed \subseteq begun
    /\ aborted \subseteq begun
    /\ before \subseteq Events \X Events
    /\ published \subseteq Events
    /\ deleted \subseteq Events
    /\ topic \in Seq(Events)
    /\ pc \in [Relays -> {"idle", "publish", "mark", "commit"}]
    /\ claimed \in [Relays -> SUBSET Events]
    /\ marked \in [Relays -> SUBSET Events]
    /\ faults \in 0 .. MaxFaults

Init ==
    /\ begun = {}
    /\ committed = {}
    /\ aborted = {}
    /\ before = {}
    /\ published = {}
    /\ deleted = {}
    /\ topic = <<>>
    /\ pc = [r \in Relays |-> "idle"]
    /\ claimed = [r \in Relays |-> {}]
    /\ marked = [r \in Relays |-> {}]
    /\ faults = 0

InTopic(e) == \E i \in DOMAIN topic : topic[i] = e

-----------------------------------------------------------------------------
(***************************************************************************)
(* A producer.  Its transaction changes some state and inserts the event;  *)
(* both commit or neither does.  Transactions overlap, those about one key *)
(* too, so ids need not be in commit order; before records which ones did  *)
(* follow each other.                                                      *)
(***************************************************************************)
InsertEvent(e) ==
    /\ e \notin begun
    /\ \A f \in Events : f < e => f \in begun
    /\ begun' = begun \cup {e}
    /\ before' = before \cup {<<f, e>> : f \in committed}
    /\ UNCHANGED <<committed, aborted, published, deleted, topic, relay, faults>>

CommitEvent(e) ==
    /\ e \in begun \ (committed \cup aborted)
    /\ committed' = committed \cup {e}
    /\ UNCHANGED <<begun, aborted, before, published, deleted, topic, relay, faults>>

AbortEvent(e) ==
    /\ e \in begun \ (committed \cup aborted)
    /\ aborted' = aborted \cup {e}
    /\ UNCHANGED <<begun, committed, before, published, deleted, topic, relay, faults>>

-----------------------------------------------------------------------------
(***************************************************************************)
(* RelayBatch.                                                             *)
(***************************************************************************)

\* Faulty: a cursor, the highest id published, instead of published_at.
VisibleAfterCursor == {e \in committed \ deleted : \A f \in published : f < e}

\* The rows another transaction can see.
Visible == committed \ deleted

\* Faulty: no FOR UPDATE SKIP LOCKED.
LockedByOthersIgnored(r) == {}

LockedByOthers(r) == UNION {claimed[s] : s \in Relays \ {r}}

Claimable(r) == (Visible \ published) \ LockedByOthers(r)

\* SELECT ... ORDER BY id LIMIT n FOR UPDATE SKIP LOCKED.
Claim(r) ==
    /\ pc[r] = "idle"
    /\ \E batch \in SUBSET Claimable(r) :
         /\ batch # {}
         /\ \A e \in batch, f \in Claimable(r) \ batch : e < f
         /\ Cardinality(batch) <= BatchSize
         /\ batch = Claimable(r) \/ Cardinality(batch) = BatchSize
         /\ claimed' = [claimed EXCEPT ![r] = batch]
    /\ pc' = [pc EXCEPT ![r] = "publish"]
    /\ UNCHANGED <<producer, published, deleted, topic, marked, faults>>

\* The row the loop has reached.
Reached(r, e) ==
    /\ e \in claimed[r] \ marked[r]
    /\ \A f \in claimed[r] \ marked[r] : e <= f

Publish(r) ==
    /\ pc[r] = "publish"
    /\ \E e \in Events : Reached(r, e) /\ topic' = Append(topic, e)
    /\ pc' = [pc EXCEPT ![r] = "mark"]
    /\ UNCHANGED <<producer, published, deleted, claimed, marked, faults>>

\* Faulty: the loop goes on with the next row.
PublishFailsSkips(r) ==
    /\ pc[r] = "publish"
    /\ faults < MaxFaults
    /\ UNCHANGED topic
    /\ pc' = [pc EXCEPT ![r] = "mark"]
    /\ faults' = faults + 1
    /\ UNCHANGED <<producer, published, deleted, claimed, marked>>

\* WriteMessages fails or times out: the broker may have taken the message.
\* The loop stops, what was marked before is committed.
PublishFails(r) ==
    /\ pc[r] = "publish"
    /\ faults < MaxFaults
    /\ \/ UNCHANGED topic
       \/ \E e \in Events : Reached(r, e) /\ topic' = Append(topic, e)
    /\ pc' = [pc EXCEPT ![r] = "commit"]
    /\ faults' = faults + 1
    /\ UNCHANGED <<producer, published, deleted, claimed, marked>>

MarkPublished(r) ==
    /\ pc[r] = "mark"
    /\ \E e \in Events :
         /\ Reached(r, e)
         /\ marked' = [marked EXCEPT ![r] = @ \cup {e}]
         /\ pc' = [pc EXCEPT ![r] =
                     IF claimed[r] \ marked[r] = {e} THEN "commit" ELSE "publish"]
    /\ UNCHANGED <<producer, published, deleted, topic, claimed, faults>>

Release(r) ==
    /\ pc' = [pc EXCEPT ![r] = "idle"]
    /\ claimed' = [claimed EXCEPT ![r] = {}]
    /\ marked' = [marked EXCEPT ![r] = {}]

CommitBatch(r) ==
    /\ pc[r] = "commit"
    /\ published' = published \cup marked[r]
    /\ Release(r)
    /\ UNCHANGED <<producer, deleted, topic, faults>>

\* A failed UPDATE aborts the whole transaction, a failed COMMIT or a crash
\* loses it: no mark survives, the locks are gone.
RollBack(r) ==
    /\ pc[r] # "idle"
    /\ faults < MaxFaults
    /\ Release(r)
    /\ faults' = faults + 1
    /\ UNCHANGED <<producer, published, deleted, topic>>

-----------------------------------------------------------------------------
\* CleanupPublished: which published rows are older than the retention is an
\* input.
CleanupPublished ==
    /\ \E old \in SUBSET (published \ deleted) :
         old # {} /\ deleted' = deleted \cup old
    /\ UNCHANGED <<producer, published, topic, relay, faults>>

RelayStep(r) ==
    \/ Claim(r)
    \/ Publish(r)
    \/ PublishFails(r)
    \/ MarkPublished(r)
    \/ CommitBatch(r)
    \/ RollBack(r)

Next ==
    \/ \E e \in Events : InsertEvent(e) \/ CommitEvent(e) \/ AbortEvent(e)
    \/ \E r \in Relays : RelayStep(r)
    \/ CleanupPublished

Spec == Init /\ [][Next]_vars

\* A relay's ticker keeps firing and a pass goes on until it commits or
\* fails; the failures are finitely many.
Fairness == \A r \in Relays : WF_vars(RelayStep(r))

LiveSpec == Spec /\ Fairness

-----------------------------------------------------------------------------
(***************************************************************************)
(* Properties.                                                             *)
(***************************************************************************)

\* At least once: a row that counts as published, or is already cleaned up,
\* is in Kafka, through every crash between publishing and marking.
NothingLost == \A e \in published \cup deleted : InTopic(e)

\* An event of a transaction that rolled back, or is still open, is never
\* published.
OnlyCommitted == \A i \in DOMAIN topic : topic[i] \in committed

\* SKIP LOCKED keeps instances apart: two relays never hold the same row.
ClaimsDisjoint ==
    \A r, s \in Relays : r # s => claimed[r] \cap claimed[s] = {}

Copies(e) == Cardinality({i \in DOMAIN topic : topic[i] = e})

\* Duplicates have a cause: an event is in Kafka more often than once only
\* if that many failures happened, however many instances run.
DuplicatesNeedFaults == \A e \in Events : Copies(e) <= 1 + faults

\* Every committed event is eventually published.
EventuallyPublished == \A e \in Events : e \in committed ~> InTopic(e)

\* Two events of one key whose transactions followed each other first appear
\* in Kafka in that order, as spec.md says of each user's and each account's
\* events.
KeyOrder ==
    \A j \in DOMAIN topic : \A e \in Events :
        (<<e, topic[j]>> \in before /\ Key[e] = Key[topic[j]])
        => \E i \in 1 .. j - 1 : topic[i] = e
=============================================================================

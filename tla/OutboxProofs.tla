---------------------------- MODULE OutboxProofs ----------------------------
(***************************************************************************)
(* Proofs about both ends of an event, for any number of failures: Outbox, *)
(* with any number of events and relays, and Gateway, with any number of   *)
(* instances, users and sockets.                                           *)
(***************************************************************************)
EXTENDS Outbox, Gateway, FiniteSetTheorems, TLAPS

\* Rows are locked only by relays that claimed them, and marked only after
\* the broker took their message.
RelaysHold ==
    /\ \A r \in Relays : pc[r] = "idle" => claimed[r] = {} /\ marked[r] = {}
    /\ \A r \in Relays : claimed[r] \subseteq committed
    /\ \A r \in Relays : marked[r] \subseteq claimed[r]
    /\ \A r \in Relays : \A e \in marked[r] : InTopic(e)
    /\ \A r \in Relays : pc[r] = "mark" =>
          \A e \in Events : Reached(r, e) => InTopic(e)

\* The inductive invariant: NothingLost is about rows already committed as
\* published, RelaysHold about the ones a relay is working on.
IndInv ==
    /\ TypeOK
    /\ RelaysHold
    /\ published \subseteq committed
    /\ deleted \subseteq published
    /\ \A e \in published : InTopic(e)
    /\ OnlyCommitted
    /\ ClaimsDisjoint

-----------------------------------------------------------------------------
\* Nothing is ever removed from the topic: a message that is there stays.
LEMMA InTopicStays ==
    ASSUME TypeOK, NEW x \in Events, InTopic(x),
           NEW e \in Events, topic' = Append(topic, e)
    PROVE  InTopic(x)'
  BY DEF TypeOK, InTopic

\* A message that was just accepted is there.
LEMMA InTopicNew ==
    ASSUME TypeOK, NEW e \in Events, topic' = Append(topic, e)
    PROVE  InTopic(e)'
<1>1. topic' \in Seq(Events) /\ Len(topic') = Len(topic) + 1
  BY DEF TypeOK
<1>2. Len(topic) + 1 \in DOMAIN topic' /\ topic'[Len(topic) + 1] = e
  BY <1>1 DEF TypeOK
<1> QED BY <1>2 DEF InTopic

\* Appending a committed event keeps the topic free of uncommitted ones.
LEMMA OnlyCommittedAppend ==
    ASSUME TypeOK, OnlyCommitted, NEW e \in committed, e \in Events,
           topic' = Append(topic, e), committed' = committed
    PROVE  OnlyCommitted'
  BY DEF TypeOK, OnlyCommitted

\* The table is empty and the topic too.
LEMMA InitIndInv == Init => IndInv
  BY OutboxAssumption
     DEF Init, IndInv, TypeOK, RelaysHold, OnlyCommitted, ClaimsDisjoint,
         InTopic, Reached, Events

\* Producers only add rows that no relay can see before they commit.
LEMMA ProducerIndInv ==
    ASSUME IndInv, NEW e \in Events,
           InsertEvent(e) \/ CommitEvent(e) \/ AbortEvent(e)
    PROVE  IndInv'
<1> USE DEF IndInv
<1>1. committed \subseteq committed' /\ begun \subseteq begun'
  BY DEF InsertEvent, CommitEvent, AbortEvent
<1>2. UNCHANGED <<published, deleted, topic, pc, claimed, marked, faults>>
  BY DEF InsertEvent, CommitEvent, AbortEvent, relay
<1>3. TypeOK'
  BY <1>2 DEF TypeOK, InsertEvent, CommitEvent, AbortEvent
<1>4. RelaysHold'
  BY <1>1, <1>2 DEF RelaysHold, InTopic, Reached
<1>5. OnlyCommitted' /\ ClaimsDisjoint' /\ (\A x \in published : InTopic(x))'
  BY <1>1, <1>2 DEF OnlyCommitted, ClaimsDisjoint, InTopic
<1> QED BY <1>1, <1>2, <1>3, <1>4, <1>5

\* A claim takes visible rows that no other relay holds.
LEMMA ClaimIndInv ==
    ASSUME IndInv, NEW r \in Relays, Claim(r)
    PROVE  IndInv'
<1> USE DEF IndInv
<1>1. PICK batch \in SUBSET Claimable(r) :
        claimed' = [claimed EXCEPT ![r] = batch]
  BY DEF Claim
<1>2. /\ pc' = [pc EXCEPT ![r] = "publish"]
      /\ UNCHANGED <<begun, committed, aborted, before, published, deleted, topic,
                     marked, faults>>
  BY DEF Claim, producer
<1>3. batch \subseteq committed /\ batch \cap LockedByOthers(r) = {}
  BY DEF Claimable, Visible
<1>4. TypeOK'
  BY <1>1, <1>2, <1>3 DEF TypeOK
<1>5. pc[r] = "idle"
  BY DEF Claim
<1>6. ClaimsDisjoint'
  <2> SUFFICES ASSUME NEW s \in Relays, s # r
               PROVE  batch \cap claimed[s] = {}
    BY <1>1 DEF ClaimsDisjoint, TypeOK
  <2> QED BY <1>3 DEF LockedByOthers
<1>7. RelaysHold'
  <2>1. \A s \in Relays : s # r => claimed'[s] = claimed[s] /\ pc'[s] = pc[s]
    BY <1>1, <1>2 DEF TypeOK
  <2>2. claimed'[r] = batch /\ pc'[r] = "publish" /\ marked'[r] = {}
    BY <1>1, <1>2, <1>5 DEF TypeOK, RelaysHold
  <2> QED BY <1>2, <1>3, <2>1, <2>2 DEF RelaysHold, InTopic, Reached
<1>8. OnlyCommitted' /\ (\A x \in published : InTopic(x))'
  BY <1>2 DEF OnlyCommitted, InTopic
<1> QED BY <1>2, <1>4, <1>6, <1>7, <1>8

\* Publishing the row the loop has reached, successfully or with a failure
\* reported after the broker took it.
LEMMA AppendIndInv ==
    ASSUME IndInv, NEW r \in Relays, NEW e \in Events, Reached(r, e),
           topic' = Append(topic, e),
           NEW step \in {"mark", "commit"}, pc' = [pc EXCEPT ![r] = step],
           pc[r] = "publish", faults' \in 0 .. MaxFaults,
           UNCHANGED <<begun, committed, aborted, before, published, deleted,
                       claimed, marked>>
    PROVE  IndInv'
<1> USE DEF IndInv
<1>1. TypeOK'
  BY DEF TypeOK
<1>2. \A x \in Events : InTopic(x) => InTopic(x)'
  BY InTopicStays
<1>3. InTopic(e)'
  BY InTopicNew
<1>4. e \in committed
  BY DEF Reached, RelaysHold
<1>5. OnlyCommitted'
  BY <1>4, OnlyCommittedAppend
<1>6. \A x \in Events : Reached(r, x) => x = e
  BY DEF Reached, Events
<1>7. \A s \in Relays, x \in Events : Reached(s, x)' <=> Reached(s, x)
  BY DEF Reached
<1>8. RelaysHold'
  <2>1. \A s \in Relays : s # r => pc'[s] = pc[s]
    BY DEF TypeOK
  <2>2. pc'[r] = step /\ step # "idle"
    BY DEF TypeOK
  <2>3. \A s \in Relays : pc'[s] = "mark" =>
          \A x \in Events : Reached(s, x)' => InTopic(x)'
    BY <1>2, <1>3, <1>6, <1>7, <2>1, <2>2 DEF RelaysHold
  <2>4. \A s \in Relays : \A x \in marked[s] : InTopic(x)'
    BY <1>2 DEF RelaysHold, TypeOK
  <2> QED BY <2>1, <2>2, <2>3, <2>4 DEF RelaysHold
<1>9. \A x \in published : InTopic(x)'
  BY <1>2 DEF TypeOK
<1> QED BY <1>1, <1>5, <1>8, <1>9 DEF ClaimsDisjoint

\* Marking moves the loop on; the row it marks is in the topic.
LEMMA MarkIndInv ==
    ASSUME IndInv, NEW r \in Relays, MarkPublished(r)
    PROVE  IndInv'
<1> USE DEF IndInv
<1>1. PICK e \in Events :
        /\ Reached(r, e)
        /\ marked' = [marked EXCEPT ![r] = @ \cup {e}]
        /\ pc' = [pc EXCEPT ![r] =
                    IF claimed[r] \ marked[r] = {e} THEN "commit" ELSE "publish"]
  BY DEF MarkPublished
<1>2. /\ pc[r] = "mark"
      /\ UNCHANGED <<begun, committed, aborted, before, published, deleted, topic,
                     claimed, faults>>
  BY DEF MarkPublished, producer
<1>3. TypeOK'
  BY <1>1, <1>2 DEF TypeOK
<1>4. InTopic(e) /\ e \in claimed[r]
  BY <1>1, <1>2 DEF RelaysHold, Reached
<1>5. RelaysHold'
  <2>1. \A s \in Relays : s # r => pc'[s] = pc[s] /\ marked'[s] = marked[s]
    BY <1>1 DEF TypeOK
  <2>2. marked'[r] = marked[r] \cup {e} /\ pc'[r] \in {"commit", "publish"}
    BY <1>1 DEF TypeOK
  <2> QED BY <1>2, <1>4, <2>1, <2>2 DEF RelaysHold, InTopic, Reached
<1>6. OnlyCommitted' /\ ClaimsDisjoint' /\ (\A x \in published : InTopic(x))'
  BY <1>2 DEF OnlyCommitted, ClaimsDisjoint, InTopic
<1> QED BY <1>2, <1>3, <1>5, <1>6

\* The end of a pass: what it leaves published was marked, so is in Kafka.
LEMMA EndIndInv ==
    ASSUME IndInv, NEW r \in Relays, CommitBatch(r) \/ RollBack(r)
    PROVE  IndInv'
<1> USE DEF IndInv
<1>1. /\ pc' = [pc EXCEPT ![r] = "idle"]
      /\ claimed' = [claimed EXCEPT ![r] = {}]
      /\ marked' = [marked EXCEPT ![r] = {}]
      /\ published' \in {published, published \cup marked[r]}
      /\ UNCHANGED <<begun, committed, aborted, before, deleted, topic>>
      /\ faults' \in 0 .. MaxFaults
  BY OutboxAssumption DEF CommitBatch, RollBack, Release, producer, TypeOK
<1>2. marked[r] \subseteq committed /\ \A e \in marked[r] : InTopic(e)
  BY DEF RelaysHold
<1>3. TypeOK'
  BY <1>1 DEF TypeOK
<1>4. RelaysHold'
  <2>1. \A s \in Relays : s # r =>
          pc'[s] = pc[s] /\ marked'[s] = marked[s] /\ claimed'[s] = claimed[s]
    BY <1>1 DEF TypeOK
  <2>2. pc'[r] = "idle" /\ marked'[r] = {} /\ claimed'[r] = {}
    BY <1>1 DEF TypeOK
  <2> QED BY <1>1, <2>1, <2>2 DEF RelaysHold, InTopic, Reached
<1>5. ClaimsDisjoint'
  BY <1>1 DEF ClaimsDisjoint, TypeOK
<1>6. OnlyCommitted' /\ (\A x \in published : InTopic(x))'
  BY <1>1, <1>2 DEF OnlyCommitted, InTopic
<1> QED BY <1>1, <1>2, <1>3, <1>4, <1>5, <1>6

\* A failed publish that reached nobody only ends the loop.
LEMMA BreakIndInv ==
    ASSUME IndInv, NEW r \in Relays, pc' = [pc EXCEPT ![r] = "commit"],
           pc[r] = "publish", faults' \in 0 .. MaxFaults,
           UNCHANGED <<begun, committed, aborted, before, published, deleted, topic,
                       claimed, marked>>
    PROVE  IndInv'
<1> USE DEF IndInv
<1>1. TypeOK'
  BY DEF TypeOK
<1>2. RelaysHold'
  <2>1. \A s \in Relays : s # r => pc'[s] = pc[s]
    BY DEF TypeOK
  <2>2. pc'[r] = "commit"
    BY DEF TypeOK
  <2> QED BY <2>1, <2>2 DEF RelaysHold, InTopic, Reached
<1> QED BY <1>1, <1>2 DEF OnlyCommitted, ClaimsDisjoint, InTopic

\* Every step preserves the invariant.
LEMMA NextIndInv == IndInv /\ [Next]_vars => IndInv'
<1> SUFFICES ASSUME IndInv, [Next]_vars PROVE IndInv'
  OBVIOUS
<1>1. CASE \E e \in Events : InsertEvent(e) \/ CommitEvent(e) \/ AbortEvent(e)
  BY <1>1, ProducerIndInv
<1>2. ASSUME NEW r \in Relays, RelayStep(r) PROVE IndInv'
  <2>1. CASE Claim(r)
    BY <2>1, ClaimIndInv
  <2>2. CASE Publish(r)
    <3>1. PICK e \in Events : Reached(r, e) /\ topic' = Append(topic, e)
      BY <2>2 DEF Publish
    <3>2. /\ pc' = [pc EXCEPT ![r] = "mark"] /\ pc[r] = "publish"
          /\ faults' \in 0 .. MaxFaults
          /\ UNCHANGED <<begun, committed, aborted, before, published, deleted,
                         claimed, marked>>
      BY <2>2 DEF Publish, producer, IndInv, TypeOK
    <3> QED BY <3>1, <3>2, AppendIndInv
  <2>3. CASE PublishFails(r)
    <3>1. /\ pc' = [pc EXCEPT ![r] = "commit"] /\ pc[r] = "publish"
          /\ faults' \in 0 .. MaxFaults
          /\ UNCHANGED <<begun, committed, aborted, before, published, deleted,
                         claimed, marked>>
      BY <2>3, OutboxAssumption DEF PublishFails, producer, IndInv, TypeOK
    <3>2. CASE UNCHANGED topic
      BY <3>1, <3>2, BreakIndInv
    <3>3. CASE \E e \in Events : Reached(r, e) /\ topic' = Append(topic, e)
      <4>1. PICK e \in Events : Reached(r, e) /\ topic' = Append(topic, e)
        BY <3>3
      <4> QED BY <3>1, <4>1, AppendIndInv
    <3> QED BY <2>3, <3>2, <3>3 DEF PublishFails
  <2>4. CASE MarkPublished(r)
    BY <2>4, MarkIndInv
  <2>5. CASE CommitBatch(r) \/ RollBack(r)
    BY <2>5, EndIndInv
  <2> QED BY <1>2, <2>1, <2>2, <2>3, <2>4, <2>5 DEF RelayStep
<1>3. CASE CleanupPublished
  BY <1>3 DEF CleanupPublished, IndInv, TypeOK, RelaysHold, OnlyCommitted,
              ClaimsDisjoint, InTopic, Reached, producer, relay
<1>4. CASE UNCHANGED vars
  BY <1>4 DEF vars, producer, relay, IndInv, TypeOK, RelaysHold,
              OnlyCommitted, ClaimsDisjoint, InTopic, Reached
<1> QED BY <1>1, <1>2, <1>3, <1>4 DEF Next

\* The invariant holds throughout.
LEMMA SpecIndInv == Spec => []IndInv
  BY InitIndInv, NextIndInv, PTL DEF Spec

\* The variables of the outbox keep their types.
THEOREM OutboxTypeOK == Spec => []TypeOK
<1>1. IndInv => TypeOK
  BY DEF IndInv
<1> QED BY <1>1, SpecIndInv, PTL

\* At-least-once, for any number of instances and failures: what is marked
\* published, or already cleaned up, is in Kafka.
THEOREM OutboxNothingLost == Spec => []NothingLost
<1>1. IndInv => NothingLost
  BY DEF IndInv, NothingLost
<1> QED BY <1>1, SpecIndInv, PTL

\* No event of a rolled-back or open transaction is ever published.
THEOREM OutboxOnlyCommitted == Spec => []OnlyCommitted
<1>1. IndInv => OnlyCommitted
  BY DEF IndInv
<1> QED BY <1>1, SpecIndInv, PTL

\* No row is ever claimed by two instances at a time.
THEOREM OutboxClaimsDisjoint == Spec => []ClaimsDisjoint
<1>1. IndInv => ClaimsDisjoint
  BY DEF IndInv
<1> QED BY <1>1, SpecIndInv, PTL

-----------------------------------------------------------------------------
(***************************************************************************)
(* Duplicates.  A row that is neither published nor marked, nor published  *)
(* to Kafka by a relay about to mark it, will be sent again: its copies so *)
(* far are all due to failures.                                            *)
(***************************************************************************)
Sent(r, e) == e \in marked[r] \/ (pc[r] = "mark" /\ Reached(r, e))

Pending(e) == e \notin published /\ \A r \in Relays : ~Sent(r, e)

\* Claimed rows were not published, and no other transaction publishes them.
ClaimsUnpublished == \A r \in Relays : claimed[r] \cap published = {}

CopiesCounted ==
    /\ ClaimsUnpublished
    /\ DuplicatesNeedFaults
    /\ \A e \in Events : Pending(e) => Copies(e) <= faults

\* The copies of an event are a natural number.
LEMMA CopiesType ==
    ASSUME TypeOK, NEW e \in Events
    PROVE  Copies(e) \in Nat /\ IsFiniteSet({i \in DOMAIN topic : topic[i] = e})
<1>1. Len(topic) \in Nat /\ DOMAIN topic = 1 .. Len(topic)
  BY DEF TypeOK
<1>2. IsFiniteSet(1 .. Len(topic))
  BY <1>1, FS_Interval
<1>3. IsFiniteSet({i \in DOMAIN topic : topic[i] = e})
  BY <1>1, <1>2, FS_Subset
<1> QED BY <1>3, FS_CardinalityType DEF Copies

\* A message adds one copy of its event and none of the others.
LEMMA CopiesAppend ==
    ASSUME TypeOK, NEW e \in Events, topic' = Append(topic, e)
    PROVE  /\ Copies(e)' = Copies(e) + 1
           /\ \A x \in Events : x # e => Copies(x)' = Copies(x)
<1> DEFINE n == Len(topic)
<1>1. /\ n \in Nat /\ DOMAIN topic = 1 .. n /\ DOMAIN topic' = 1 .. n + 1
      /\ topic'[n + 1] = e /\ \A i \in 1 .. n : topic'[i] = topic[i]
  BY DEF TypeOK
<1> HIDE DEF n
<1>2. /\ {i \in DOMAIN topic' : topic'[i] = e} = {i \in DOMAIN topic : topic[i] = e} \cup {n + 1}
      /\ n + 1 \notin {i \in DOMAIN topic : topic[i] = e}
  BY <1>1
<1>3. Copies(e)' = Copies(e) + 1
  BY <1>2, CopiesType, FS_AddElement DEF Copies
<1>4. ASSUME NEW x \in Events, x # e PROVE Copies(x)' = Copies(x)
  <2>1. {i \in DOMAIN topic' : topic'[i] = x} = {i \in DOMAIN topic : topic[i] = x}
    BY <1>1, <1>4
  <2> QED BY <2>1 DEF Copies
<1> QED BY <1>3, <1>4

\* A step that sends nothing and makes no row pending that was not.
LEMMA QuietCopies ==
    ASSUME CopiesCounted, UNCHANGED <<topic, faults>>, ClaimsUnpublished',
           \A e \in Events : Pending(e)' => Pending(e)
    PROVE  CopiesCounted'
  BY DEF CopiesCounted, DuplicatesNeedFaults, Copies

\* A failure that sends nothing pays for the rows it makes pending.
LEMMA FaultCopies ==
    ASSUME TypeOK, CopiesCounted, UNCHANGED topic, faults' = faults + 1, ClaimsUnpublished'
    PROVE  CopiesCounted'
<1>1. \A e \in Events : Copies(e) \in Nat /\ Copies(e)' = Copies(e) /\ faults \in Nat
  BY CopiesType, OutboxAssumption DEF Copies, TypeOK
<1> QED BY <1>1 DEF CopiesCounted, DuplicatesNeedFaults

\* The row a relay has reached is pending.
LEMMA ReachedPending ==
    ASSUME IndInv, CopiesCounted, NEW r \in Relays, pc[r] = "publish", NEW e \in Events, Reached(r, e)
    PROVE  Pending(e)
<1>1. e \in claimed[r] /\ e \notin marked[r]
  BY DEF Reached
<1>2. e \notin published
  BY <1>1 DEF CopiesCounted, ClaimsUnpublished
<1>3. ASSUME NEW s \in Relays PROVE ~Sent(s, e)
  <2>1. CASE s = r
    BY <1>1, <2>1 DEF Sent
  <2>2. CASE s # r
    <3>1. e \notin claimed[s] /\ marked[s] \subseteq claimed[s]
      BY <1>1, <2>2 DEF IndInv, ClaimsDisjoint, RelaysHold
    <3> QED BY <3>1 DEF Sent, Reached
  <2> QED BY <2>1, <2>2
<1> QED BY <1>2, <1>3 DEF Pending

\* Every step keeps the count.
LEMMA NextCopies ==
    ASSUME IndInv, CopiesCounted, [Next]_vars
    PROVE  CopiesCounted'
<1>1. TypeOK /\ faults \in Nat
  BY OutboxAssumption DEF IndInv, TypeOK
<1>2. CASE \/ \E e \in Events : InsertEvent(e) \/ CommitEvent(e) \/ AbortEvent(e)
           \/ CleanupPublished \/ UNCHANGED vars
  <2>1. UNCHANGED <<published, topic, pc, claimed, marked, faults>>
    BY <1>2 DEF InsertEvent, CommitEvent, AbortEvent, CleanupPublished, vars, relay
  <2>2. ClaimsUnpublished' /\ \A e \in Events : Pending(e)' => Pending(e)
    BY <2>1 DEF CopiesCounted, ClaimsUnpublished, Pending, Sent, Reached
  <2> QED BY <2>1, <2>2, QuietCopies
<1>3. ASSUME NEW r \in Relays, Claim(r) PROVE CopiesCounted'
  <2>1. PICK batch \in SUBSET Claimable(r) : claimed' = [claimed EXCEPT ![r] = batch]
    BY <1>3 DEF Claim
  <2>2. /\ pc' = [pc EXCEPT ![r] = "publish"] /\ pc[r] = "idle"
        /\ UNCHANGED <<published, topic, marked, faults>>
    BY <1>3 DEF Claim
  <2>3. /\ claimed'[r] = batch /\ pc'[r] = "publish"
        /\ \A s \in Relays : s # r => claimed'[s] = claimed[s] /\ pc'[s] = pc[s]
    BY <1>1, <2>1, <2>2 DEF TypeOK
  <2>4. ClaimsUnpublished'
    BY <2>2, <2>3 DEF CopiesCounted, ClaimsUnpublished, Claimable
  <2>5. \A s \in Relays, e \in Events : Sent(s, e) => Sent(s, e)'
    BY <2>2, <2>3 DEF Sent, Reached
  <2>6. \A e \in Events : Pending(e)' => Pending(e)
    BY <2>2, <2>5 DEF Pending
  <2> QED BY <2>2, <2>4, <2>6, QuietCopies
<1>4. ASSUME NEW r \in Relays, Publish(r) \/ PublishFails(r),
             NEW e \in Events, Reached(r, e), topic' = Append(topic, e)
      PROVE  CopiesCounted'
  <2>1. /\ pc[r] = "publish" /\ UNCHANGED <<published, claimed, marked>>
        /\ \/ pc' = [pc EXCEPT ![r] = "mark"] /\ faults' = faults
           \/ pc' = [pc EXCEPT ![r] = "commit"] /\ faults' = faults + 1
    BY <1>4 DEF Publish, PublishFails
  <2>2. ClaimsUnpublished'
    BY <2>1 DEF CopiesCounted, ClaimsUnpublished
  <2>3. Copies(e) <= faults
    BY <1>4, <2>1, ReachedPending DEF CopiesCounted
  <2>4. /\ Copies(e)' = Copies(e) + 1 /\ \A x \in Events : x # e => Copies(x)' = Copies(x)
        /\ \A x \in Events : Copies(x) \in Nat
    BY <1>1, <1>4, CopiesAppend, CopiesType
  <2>5. \A s \in Relays : s # r => pc'[s] = pc[s]
    BY <1>1, <2>1 DEF TypeOK
  <2>6. \A s \in Relays, x \in Events : Reached(s, x)' <=> Reached(s, x)
    BY <2>1 DEF Reached
  <2>7. \A x \in Events : Pending(x)' => Pending(x)
    <3>1. \A s \in Relays, x \in Events : Sent(s, x) => Sent(s, x)'
      BY <2>1, <2>5, <2>6 DEF Sent
    <3> QED BY <2>1, <3>1 DEF Pending
  <2>8. CASE pc' = [pc EXCEPT ![r] = "mark"] /\ faults' = faults
    <3>1. ~Pending(e)'
      <4>1. pc'[r] = "mark" /\ Reached(r, e)'
        BY <1>1, <1>4, <2>6, <2>8 DEF TypeOK
      <4>2. Sent(r, e)'
        BY <4>1 DEF Sent
      <4> QED BY <4>2 DEF Pending
    <3> QED BY <1>1, <2>2, <2>3, <2>4, <2>7, <2>8, <3>1 DEF CopiesCounted, DuplicatesNeedFaults
  <2>9. CASE pc' = [pc EXCEPT ![r] = "commit"] /\ faults' = faults + 1
    BY <1>1, <2>2, <2>3, <2>4, <2>7, <2>9 DEF CopiesCounted, DuplicatesNeedFaults
  <2> QED BY <2>1, <2>8, <2>9
<1>5. ASSUME NEW r \in Relays, PublishFails(r), UNCHANGED topic PROVE CopiesCounted'
  <2>1. UNCHANGED <<published, claimed>> /\ faults' = faults + 1
    BY <1>5 DEF PublishFails
  <2>2. ClaimsUnpublished'
    BY <2>1 DEF CopiesCounted, ClaimsUnpublished
  <2> QED BY <1>1, <1>5, <2>1, <2>2, FaultCopies
<1>6. ASSUME NEW r \in Relays, MarkPublished(r) PROVE CopiesCounted'
  <2>1. PICK e \in Events :
          /\ Reached(r, e)
          /\ marked' = [marked EXCEPT ![r] = @ \cup {e}]
          /\ pc' = [pc EXCEPT ![r] =
                      IF claimed[r] \ marked[r] = {e} THEN "commit" ELSE "publish"]
    BY <1>6 DEF MarkPublished
  <2>2. pc[r] = "mark" /\ UNCHANGED <<published, topic, claimed, faults>>
    BY <1>6 DEF MarkPublished
  <2>3. ClaimsUnpublished'
    BY <2>2 DEF CopiesCounted, ClaimsUnpublished
  <2>4. \A x \in Events : Reached(r, x) => x = e
    BY <2>1 DEF Reached, Events
  <2>5. /\ marked'[r] = marked[r] \cup {e}
        /\ \A s \in Relays : s # r => marked'[s] = marked[s] /\ pc'[s] = pc[s]
    BY <1>1, <2>1 DEF TypeOK
  <2>6. \A s \in Relays, x \in Events : Sent(s, x) => Sent(s, x)'
    BY <2>2, <2>4, <2>5 DEF Sent, Reached
  <2>7. \A x \in Events : Pending(x)' => Pending(x)
    BY <2>2, <2>6 DEF Pending
  <2> QED BY <2>2, <2>3, <2>7, QuietCopies
<1>7. ASSUME NEW r \in Relays, CommitBatch(r) PROVE CopiesCounted'
  <2>1. /\ pc[r] = "commit" /\ published' = published \cup marked[r]
        /\ pc' = [pc EXCEPT ![r] = "idle"] /\ claimed' = [claimed EXCEPT ![r] = {}]
        /\ marked' = [marked EXCEPT ![r] = {}] /\ UNCHANGED <<topic, faults>>
    BY <1>7 DEF CommitBatch, Release
  <2>2. /\ claimed'[r] = {}
        /\ \A s \in Relays : s # r => claimed'[s] = claimed[s] /\ marked'[s] = marked[s] /\ pc'[s] = pc[s]
    BY <1>1, <2>1 DEF TypeOK
  <2>3. ClaimsUnpublished'
    <3>1. ASSUME NEW s \in Relays, s # r PROVE claimed[s] \cap (published \cup marked[r]) = {}
      <4>1. marked[r] \subseteq claimed[r] /\ claimed[s] \cap claimed[r] = {}
        BY <3>1 DEF IndInv, RelaysHold, ClaimsDisjoint
      <4> QED BY <4>1 DEF CopiesCounted, ClaimsUnpublished
    <3> QED BY <2>1, <2>2, <3>1 DEF ClaimsUnpublished
  <2>4. \A x \in Events : Pending(x)' => Pending(x)
    <3>1. ASSUME NEW x \in Events, Pending(x)', NEW s \in Relays PROVE ~Sent(s, x)
      <4>1. x \notin published /\ x \notin marked[r]
        BY <2>1, <3>1 DEF Pending
      <4>2. CASE s = r
        BY <2>1, <4>1, <4>2 DEF Sent
      <4>3. CASE s # r
        BY <2>2, <3>1, <4>3 DEF Pending, Sent, Reached
      <4> QED BY <4>2, <4>3
    <3> QED BY <2>1, <3>1 DEF Pending
  <2> QED BY <2>1, <2>3, <2>4, QuietCopies
<1>8. ASSUME NEW r \in Relays, RollBack(r) PROVE CopiesCounted'
  <2>1. /\ faults' = faults + 1 /\ claimed' = [claimed EXCEPT ![r] = {}]
        /\ UNCHANGED <<published, topic>>
    BY <1>8 DEF RollBack, Release
  <2>2. ClaimsUnpublished'
    BY <1>1, <2>1 DEF CopiesCounted, ClaimsUnpublished, TypeOK
  <2> QED BY <1>1, <2>1, <2>2, FaultCopies
<1>9. ASSUME NEW r \in Relays, RelayStep(r) PROVE CopiesCounted'
  BY <1>3, <1>4, <1>5, <1>6, <1>7, <1>8, <1>9 DEF RelayStep, Publish, PublishFails
<1> QED BY <1>2, <1>9 DEF Next

\* For any number of instances: an event is in Kafka at most once more often
\* than publishes, writes, commits or processes failed.
THEOREM OutboxDuplicatesNeedFaults == Spec => []DuplicatesNeedFaults
<1>1. Init => CopiesCounted
  <2> SUFFICES ASSUME Init PROVE CopiesCounted
    OBVIOUS
  <2>1. \A e \in Events : {i \in DOMAIN topic : topic[i] = e} = {}
    BY DEF Init
  <2>2. \A e \in Events : Copies(e) = 0
    BY <2>1, FS_EmptySet DEF Copies
  <2> QED BY <2>2 DEF Init, CopiesCounted, ClaimsUnpublished, DuplicatesNeedFaults
<1>2. IndInv /\ CopiesCounted /\ [Next]_vars => CopiesCounted'
  BY NextCopies
<1>3. CopiesCounted => DuplicatesNeedFaults
  BY DEF CopiesCounted
<1> QED BY <1>1, <1>2, <1>3, SpecIndInv, PTL DEF Spec

-----------------------------------------------------------------------------
(***************************************************************************)
(* Key order.  One instance publishes each key's events in the order in    *)
(* which their transactions followed each other; section 4 of the README   *)
(* shows that two instances need not.                                      *)
(***************************************************************************)
SingleRelay == \A r, s \in Relays : r = s

\* Ids are handed out in ascending order, so an event that followed another
\* has the greater id.
IdsFollow ==
    /\ \A e \in begun, f \in Events : f < e => f \in begun
    /\ \A e, f \in Events : <<e, f>> \in before => e \in committed /\ f \in begun /\ e < f

\* ORDER BY id: a batch that holds an event holds, or comes after, all those
\* its event followed.
BatchesClosed ==
    \A r \in Relays : \A e, f \in Events :
        <<e, f>> \in before /\ f \in claimed[r] => e \in published \cup claimed[r]

\* A message comes after the messages of all the events its event followed.
TopicOrdered ==
    \A j \in DOMAIN topic : \A e \in Events :
        <<e, topic[j]>> \in before => \E i \in 1 .. j - 1 : topic[i] = e

OrderInv == SingleRelay /\ IdsFollow /\ BatchesClosed /\ TopicOrdered

\* An insert takes the next id; what it follows is committed, and it is not
\* itself claimed or sent yet.
LEMMA InsertOrdered ==
    ASSUME IndInv, OrderInv, NEW n \in Events, InsertEvent(n)
    PROVE  OrderInv'
<1>1. /\ n \notin begun /\ \A f \in Events : f < n => f \in begun
      /\ begun' = begun \cup {n} /\ before' = before \cup {<<f, n>> : f \in committed}
      /\ UNCHANGED <<committed, published, topic, claimed>>
  BY DEF InsertEvent, relay
<1>2. /\ committed \subseteq begun /\ begun \subseteq Events
      /\ \A j \in DOMAIN topic : topic[j] \in committed
      /\ \A r \in Relays : claimed[r] \subseteq committed
  BY DEF IndInv, TypeOK, OnlyCommitted, RelaysHold
<1>3. \A e, f \in Events : <<e, f>> \in before' =>
        <<e, f>> \in before \/ (e \in committed /\ f = n)
  BY <1>1
<1>4. IdsFollow'
  <2>1. ASSUME NEW e \in committed PROVE e < n
    <3>1. e \in begun /\ e # n /\ ~(n < e)
      BY <1>1, <1>2 DEF OrderInv, IdsFollow
    <3>2. e \in Int /\ n \in Int
      BY <1>2, OutboxAssumption DEF Events
    <3> QED BY <3>1, <3>2
  <2>2. (\A e \in begun, f \in Events : f < e => f \in begun)'
    BY <1>1 DEF OrderInv, IdsFollow
  <2>3. \A e, f \in Events : <<e, f>> \in before' =>
          e \in committed' /\ f \in begun' /\ e < f
    BY <1>1, <1>3, <2>1 DEF OrderInv, IdsFollow
  <2> QED BY <2>2, <2>3 DEF IdsFollow
<1>5. \A e, f \in Events : <<e, f>> \in before' /\ f \in committed => <<e, f>> \in before
  BY <1>1, <1>2, <1>3
<1>6. BatchesClosed'
  BY <1>1, <1>2, <1>5 DEF OrderInv, BatchesClosed
<1>7. TopicOrdered'
  BY <1>1, <1>2, <1>5 DEF OrderInv, TopicOrdered
<1> QED BY <1>4, <1>6, <1>7 DEF OrderInv, SingleRelay

\* A claim skips nothing with a smaller id that is still to be published.
LEMMA ClaimOrdered ==
    ASSUME IndInv, OrderInv, NEW r \in Relays, Claim(r)
    PROVE  OrderInv'
<1>1. PICK batch \in SUBSET Claimable(r) :
        /\ \A e \in batch, f \in Claimable(r) \ batch : e < f
        /\ claimed' = [claimed EXCEPT ![r] = batch]
  BY DEF Claim
<1>2. UNCHANGED <<begun, committed, before, published, topic>>
  BY DEF Claim, producer
<1>3. claimed'[r] = batch /\ \A s \in Relays : s = r
  BY <1>1 DEF IndInv, TypeOK, OrderInv, SingleRelay
<1>4. Claimable(r) = (committed \ deleted) \ published
  BY <1>3 DEF Claimable, Visible, LockedByOthers
<1>5. ASSUME NEW e \in Events, NEW f \in Events, <<e, f>> \in before, f \in batch,
             e \notin published
      PROVE  e \in batch
  <2>1. e \in committed /\ e < f
    BY <1>5 DEF OrderInv, IdsFollow
  <2>2. e \in Claimable(r)
    BY <1>4, <1>5, <2>1 DEF IndInv
  <2> QED BY <1>1, <1>5, <2>1, <2>2 DEF Events
<1>6. BatchesClosed'
  BY <1>2, <1>3, <1>5 DEF BatchesClosed
<1> QED BY <1>2, <1>6 DEF OrderInv, SingleRelay, IdsFollow, TopicOrdered

\* The row the loop has reached is the least that is not marked: what its
\* event followed is published or marked, so is in the topic.
LEMMA AppendOrdered ==
    ASSUME IndInv, OrderInv, NEW r \in Relays, NEW f \in Events, Reached(r, f),
           topic' = Append(topic, f),
           UNCHANGED <<begun, committed, before, published, claimed>>
    PROVE  OrderInv'
<1>1. ASSUME NEW e \in Events, <<e, f>> \in before PROVE InTopic(e)
  <2>1. f \in claimed[r] /\ e < f /\ \A x \in claimed[r] \ marked[r] : f <= x
    BY <1>1 DEF OrderInv, IdsFollow, Reached
  <2>2. e \in published \cup claimed[r]
    BY <1>1, <2>1 DEF OrderInv, BatchesClosed
  <2>3. e \in published \cup marked[r]
    BY <2>1, <2>2 DEF Events
  <2> QED BY <2>3 DEF IndInv, RelaysHold
<1>2. /\ Len(topic) \in Nat /\ DOMAIN topic = 1 .. Len(topic)
      /\ DOMAIN topic' = 1 .. Len(topic) + 1 /\ topic'[Len(topic) + 1] = f
      /\ \A i \in 1 .. Len(topic) : topic'[i] = topic[i]
  BY DEF IndInv, TypeOK
<1>3. ASSUME NEW j \in DOMAIN topic', NEW e \in Events, <<e, topic'[j]>> \in before
      PROVE  \E i \in 1 .. j - 1 : topic'[i] = e
  <2>1. CASE j = Len(topic) + 1
    <3>1. PICK i \in DOMAIN topic : topic[i] = e
      BY <1>1, <1>2, <1>3, <2>1 DEF InTopic
    <3> QED BY <1>2, <2>1, <3>1
  <2>2. CASE j # Len(topic) + 1
    <3>1. j \in 1 .. Len(topic) /\ topic'[j] = topic[j]
      BY <1>2, <2>2
    <3>2. PICK i \in 1 .. j - 1 : topic[i] = e
      BY <1>2, <1>3, <3>1 DEF OrderInv, TopicOrdered
    <3> QED BY <1>2, <3>1, <3>2
  <2> QED BY <2>1, <2>2
<1>4. TopicOrdered'
  BY <1>3 DEF TopicOrdered
<1> QED BY <1>4 DEF OrderInv, SingleRelay, IdsFollow, BatchesClosed

\* The other steps send nothing, claim nothing and insert nothing; published
\* rows only grow.
LEMMA QuietOrdered ==
    ASSUME IndInv, OrderInv, UNCHANGED <<begun, before, topic>>,
           committed \subseteq committed', published \subseteq published',
           \A r \in Relays : claimed'[r] \in {claimed[r], {}}
    PROVE  OrderInv'
<1>1. IdsFollow'
  BY DEF OrderInv, IdsFollow
<1>2. BatchesClosed'
  BY DEF OrderInv, BatchesClosed
<1> QED BY <1>1, <1>2 DEF OrderInv, SingleRelay, TopicOrdered

\* Every step keeps the order.
LEMMA NextOrdered == IndInv /\ OrderInv /\ [Next]_vars => OrderInv'
<1> SUFFICES ASSUME IndInv, OrderInv, [Next]_vars PROVE OrderInv'
  OBVIOUS
<1>1. CASE \E e \in Events : InsertEvent(e)
  BY <1>1, InsertOrdered
<1>2. CASE \/ \E e \in Events : CommitEvent(e) \/ AbortEvent(e)
           \/ CleanupPublished \/ UNCHANGED vars
  <2>1. /\ UNCHANGED <<begun, before, topic, published, claimed>>
        /\ committed \subseteq committed'
    BY <1>2 DEF CommitEvent, AbortEvent, CleanupPublished, vars, producer, relay
  <2> QED BY <2>1, QuietOrdered
<1>3. ASSUME NEW r \in Relays, RelayStep(r) PROVE OrderInv'
  <2>1. CASE Claim(r)
    BY <2>1, ClaimOrdered
  <2>2. CASE Publish(r) \/ PublishFails(r) \/ MarkPublished(r)
    <3>1. UNCHANGED <<begun, committed, before, published, claimed>>
      BY <2>2 DEF Publish, PublishFails, MarkPublished, producer
    <3>2. UNCHANGED topic \/ \E f \in Events : Reached(r, f) /\ topic' = Append(topic, f)
      BY <2>2 DEF Publish, PublishFails, MarkPublished
    <3>3. CASE UNCHANGED topic
      BY <3>1, <3>3, QuietOrdered
    <3>4. CASE \E f \in Events : Reached(r, f) /\ topic' = Append(topic, f)
      BY <3>1, <3>4, AppendOrdered
    <3> QED BY <3>2, <3>3, <3>4
  <2>3. CASE CommitBatch(r) \/ RollBack(r)
    <3>1. /\ UNCHANGED <<begun, committed, before, topic>>
          /\ published \subseteq published'
          /\ claimed' = [claimed EXCEPT ![r] = {}]
      BY <2>3 DEF CommitBatch, RollBack, Release, producer
    <3>2. \A s \in Relays : claimed'[s] \in {claimed[s], {}}
      BY <3>1 DEF IndInv, TypeOK
    <3> QED BY <3>1, <3>2, QuietOrdered
  <2> QED BY <1>3, <2>1, <2>2, <2>3 DEF RelayStep
<1> QED BY <1>1, <1>2, <1>3 DEF Next

\* Key order with one instance, whatever fails: an event reaches Kafka only
\* after every event of its key whose transaction committed before its own
\* began.  The relay's ORDER BY id (relay.go:128) and its stop at the first
\* failure (relay.go:209, 216) are why.
THEOREM OneRelayKeepsKeyOrder ==
    ASSUME SingleRelay
    PROVE  Spec => []KeyOrder
<1>1. SingleRelay /\ Init => OrderInv
  BY DEF Init, OrderInv, IdsFollow, BatchesClosed, TopicOrdered
<1>2. OrderInv => KeyOrder
  BY DEF OrderInv, TopicOrdered, KeyOrder
<1>3. SingleRelay => (Spec => []KeyOrder)
  BY <1>1, <1>2, NextOrdered, SpecIndInv, PTL DEF Spec
<1> QED BY <1>3

-----------------------------------------------------------------------------
(***************************************************************************)
(* Gateway: the invariant.                                                 *)
(***************************************************************************)
Work ==
    [at : {"fetch", "route", "write"},
     parties : Seq(Accounts),
     signals : Seq(Users \X {"balance.changed", "updated"}),
     snapshot : SUBSET Conns]

Sockets ==
    [at : {"idle", "ack", "open", "closing", "done"},
     sock : {"open", "vanished", "shut"},
     user : Users \cup {None}]

GatewayTypes ==
    /\ log \in Seq(TransferEvents)
    /\ offsets \in [Groups -> Int]
    /\ proc \in [at : {"up", "draining", "down"}, boots : Nat]
    /\ group = <<Self, proc.boots>>
    /\ apos \in 0 .. Len(AccountLog)
    /\ tpos \in -1 .. Len(log)
    /\ cache \in [Accounts -> Users \cup {None}]
    /\ work \in Work
    /\ conn \in [Conns -> Sockets]
    /\ registry \in [Users -> SUBSET Conns]
    /\ mishaps \in 0 .. MaxMishaps
    /\ got \subseteq Conns \X (1 .. Len(log))

\* Every end of a process is counted, so its groups are among Groups; and no
\* group has committed what is not published.
GroupsKnown ==
    /\ proc.boots <= mishaps
    /\ proc.at # "up" => proc.boots < mishaps
    /\ \A g \in Groups : offsets[g] \in -1 .. Len(log)

\* A socket is registered under the user its token named.
RegistryTrue ==
    \A u \in Users : \A c \in registry[u] : conn[c].user = u /\ conn[c].at # "idle"

\* The cache never names another user than the account's.
CacheTrue == \A a \in Accounts : cache[a] \in {None, Owner[a]}

\* What the consumer holds between two offsets, accounts still to resolve,
\* signals still to send and sockets still to write, is of the event's users.
WorkConcerned ==
    /\ work.at = "fetch" => work = NoWork
    /\ work.at # "fetch" => tpos \in 1 .. Len(log)
    /\ \A i \in DOMAIN work.parties : Owner[work.parties[i]] \in Concerns(Current)
    /\ \A i \in DOMAIN work.signals : work.signals[i][1] \in Concerns(Current)
    /\ \A c \in work.snapshot : conn[c].at # "idle" /\ conn[c].user \in Concerns(Current)

\* A socket that was written to has its user for good.
GotConcerned ==
    \A g \in got : conn[g[1]].at # "idle" /\ conn[g[1]].user \in Concerns(log[g[2]])

GatewayInv ==
    /\ GatewayTypes
    /\ GroupsKnown
    /\ RegistryTrue
    /\ CacheTrue
    /\ WorkConcerned
    /\ GotConcerned

\* What a step of the sockets leaves alone.
SocketStep ==
    UNCHANGED <<log, offsets, proc, reader, cache, work, mishaps, history>>

LEMMA OwnersKnown ==
    ASSUME GatewayAssumption
    PROVE  /\ None \notin Users
           /\ \A a \in Accounts : Owner[a] \in Users /\ Owner[a] # None
BY DEF GatewayAssumption, Users

LEMMA NoWorkTyped == NoWork \in Work
BY DEF NoWork, Work

LEMMA NewRegistryTyped == newWSRegistry \in [Users -> SUBSET Conns]
BY DEF newWSRegistry

LEMMA NewCacheTyped == newAccountCache \in [Accounts -> Users \cup {None}]
BY DEF newAccountCache

\* Who an event concerns is who owns the accounts it names to the gateway.
LEMMA PartiesConcerned ==
    ASSUME NEW m, NEW i \in DOMAIN Parties(m)
    PROVE  Owner[Parties(m)[i]] \in Concerns(m)
<1>1. CASE m.type = "TransferCompleted"
  BY <1>1 DEF Parties, Concerns
<1>2. CASE m.type \in {"TransferFailed", "TransferRejected", "DepositCredited"}
  BY <1>2 DEF Parties, Concerns
<1>3. CASE m.type \notin {"TransferCompleted", "TransferFailed", "TransferRejected",
                          "DepositCredited"}
  BY <1>3 DEF Parties, Concerns
<1> QED
  BY <1>1, <1>2, <1>3

\* A step of one socket: the others keep what they are, and the socket keeps
\* its user and does not become idle again.
LEMMA OneSocketSteps ==
    ASSUME GatewayInv, SocketStep, NEW c \in Conns, NEW r \in Sockets,
           conn' = [conn EXCEPT ![c] = r],
           r.at # "idle",
           conn[c].at # "idle" => r.user = conn[c].user,
           registry' \in [Users -> SUBSET Conns],
           \A u \in Users : \A d \in registry'[u] :
              d \in registry[u] \/ (d = c /\ u = r.user)
    PROVE  GatewayInv'
<1> USE DEF GatewayInv, SocketStep, reader, history
<1>1. /\ conn' \in [Conns -> Sockets]
      /\ \A d \in Conns : d # c => conn'[d] = conn[d]
      /\ conn'[c] = r
  BY DEF GatewayTypes
<1>2. \A d \in Conns : conn[d].at # "idle" =>
         conn'[d].at # "idle" /\ conn'[d].user = conn[d].user
  BY <1>1
<1>3. GatewayTypes'
  BY <1>1 DEF GatewayTypes
<1>4. GroupsKnown'
  BY DEF GroupsKnown
<1>5. RegistryTrue'
  <2> SUFFICES ASSUME NEW u \in Users, NEW d \in registry'[u]
               PROVE  conn'[d].user = u /\ conn'[d].at # "idle"
    BY DEF RegistryTrue
  <2>1. CASE d \in registry[u]
    <3>1. d \in Conns /\ conn[d].user = u /\ conn[d].at # "idle"
      BY <2>1 DEF RegistryTrue, GatewayTypes
    <3> QED
      BY <3>1, <1>2
  <2>2. CASE d = c /\ u = r.user
    BY <2>2, <1>1
  <2> QED
    BY <2>1, <2>2
<1>6. CacheTrue'
  BY DEF CacheTrue
<1>7. WorkConcerned'
  <2>1. work.snapshot \subseteq Conns
    BY DEF GatewayTypes, Work
  <2> QED
    BY <2>1, <1>2 DEF WorkConcerned, Current
<1>8. GotConcerned'
  BY <1>2 DEF GotConcerned, GatewayTypes
<1> QED
  BY <1>3, <1>4, <1>5, <1>6, <1>7, <1>8

LEMMA HandleWSStep ==
    ASSUME GatewayAssumption, GatewayInv,
           NEW c \in Conns, NEW token \in Tokens, handleWS(c, token)
    PROVE  GatewayInv'
<1>1. SocketStep /\ conn[c].at = "idle" /\ conn[c] \in Sockets
  BY DEF handleWS, SocketStep, GatewayInv, GatewayTypes
<1>2. CASE token # None /\ Fits(token)
  <2> DEFINE r == [at |-> "ack", sock |-> "open", user |-> token]
  <2>1. token \in Users
    BY <1>2 DEF GatewayAssumption, Users
  <2>2. /\ registry' = [registry EXCEPT ![token] = @ \cup {c}]
        /\ conn' = [conn EXCEPT ![c] = r]
    BY <1>2 DEF handleWS
  <2>3. r \in Sockets /\ r.at # "idle" /\ r.user = token
    BY <2>1 DEF Sockets
  <2>4. registry \in [Users -> SUBSET Conns]
    BY DEF GatewayInv, GatewayTypes
  <2>5. /\ registry' \in [Users -> SUBSET Conns]
        /\ \A u \in Users : \A d \in registry'[u] : d \in registry[u] \/ (d = c /\ u = token)
    BY <2>1, <2>2, <2>4
  <2> HIDE DEF r
  <2> QED
    BY <1>1, <2>2, <2>3, <2>5, OneSocketSteps
<1>3. CASE ~(token # None /\ Fits(token))
  <2> DEFINE r == [conn[c] EXCEPT !.at = "done", !.sock = "shut"]
  <2>1. conn' = [conn EXCEPT ![c] = r] /\ registry' = registry
    BY <1>3 DEF handleWS, GatewayInv, GatewayTypes
  <2>2. r \in Sockets /\ r.at # "idle"
    BY <1>1 DEF Sockets
  <2>3. /\ registry' \in [Users -> SUBSET Conns]
        /\ \A u \in Users : \A d \in registry'[u] : d \in registry[u] \/ (d = c /\ u = r.user)
    BY <2>1 DEF GatewayInv, GatewayTypes
  <2> HIDE DEF r
  <2> QED
    BY <1>1, <2>1, <2>2, <2>3, OneSocketSteps
<1> QED
  BY <1>2, <1>3

\* The other steps of a socket only move it on, or shut or lose it.
LEMMA SocketSteps ==
    ASSUME GatewayInv, NEW c \in Conns,
           handler(c) \/ runHeartbeat(c) \/ PeerLeaves(c)
    PROVE  GatewayInv'
<1> USE DEF GatewayInv
<1>1. /\ conn \in [Conns -> Sockets] /\ conn[c] \in Sockets
      /\ registry \in [Users -> SUBSET Conns]
  BY DEF GatewayTypes
<1>2. ASSUME NEW at \in {"ack", "open", "closing", "done"},
             NEW sock \in {"open", "vanished", "shut"},
             conn[c].at # "idle", SocketStep,
             conn' = [conn EXCEPT ![c] = [conn[c] EXCEPT !.at = at, !.sock = sock]],
             registry' \in [Users -> SUBSET Conns],
             \A u \in Users : registry'[u] \subseteq registry[u]
      PROVE  GatewayInv'
  <2> DEFINE r == [conn[c] EXCEPT !.at = at, !.sock = sock]
  <2>1. r \in Sockets /\ r.at # "idle" /\ r.user = conn[c].user
    BY <1>1 DEF Sockets
  <2>2. conn' = [conn EXCEPT ![c] = r]
    BY <1>2
  <2>3. \A u \in Users : \A d \in registry'[u] : d \in registry[u] \/ (d = c /\ u = r.user)
    BY <1>2
  <2> HIDE DEF r, GatewayInv
  <2> QED
    BY <1>2, <2>1, <2>2, <2>3, OneSocketSteps
<1>3. registry' = registry => /\ registry' \in [Users -> SUBSET Conns]
                              /\ \A u \in Users : registry'[u] \subseteq registry[u]
  BY <1>1
<1>4. /\ conn[c].sock \in {"open", "vanished", "shut"}
      /\ \A at : [conn[c] EXCEPT !.at = at]
                   = [conn[c] EXCEPT !.at = at, !.sock = conn[c].sock]
      /\ \A sock : [conn[c] EXCEPT !.sock = sock]
                     = [conn[c] EXCEPT !.at = conn[c].at, !.sock = sock]
  BY <1>1 DEF Sockets
<1> HIDE DEF GatewayInv
<1>5. CASE ack(c)
  <2>1. SocketStep /\ registry' = registry /\ conn[c].at = "ack"
    BY <1>5 DEF ack, SocketStep
  <2>2. CASE conn' = [conn EXCEPT ![c].at = "open"]
    <3>1. conn' = [conn EXCEPT ![c] = [conn[c] EXCEPT !.at = "open", !.sock = conn[c].sock]]
      BY <2>2, <1>1, <1>4
    <3> QED
      BY <3>1, <2>1, <1>2, <1>3, <1>4
  <2>3. CASE conn' = [conn EXCEPT ![c].at = "closing", ![c].sock = "shut"]
    <3>1. conn' = [conn EXCEPT ![c] = [conn[c] EXCEPT !.at = "closing", !.sock = "shut"]]
      BY <2>3, <1>1
    <3> QED
      BY <3>1, <2>1, <1>2, <1>3
  <2> QED
    BY <1>5, <2>2, <2>3 DEF ack
<1>6. CASE selectDone(c)
  <2>1. SocketStep /\ registry' = registry /\ conn[c].at = "open"
    BY <1>6 DEF selectDone, SocketStep
  <2>2. conn' = [conn EXCEPT ![c] = [conn[c] EXCEPT !.at = "closing", !.sock = "shut"]]
    BY <1>6, <1>1 DEF selectDone
  <2> QED
    BY <2>1, <2>2, <1>2, <1>3
<1>7. CASE remove(c)
  <2>1. SocketStep /\ conn[c].at = "closing"
    BY <1>7 DEF remove, SocketStep
  <2>2. conn' = [conn EXCEPT ![c] = [conn[c] EXCEPT !.at = "done", !.sock = conn[c].sock]]
    BY <1>7, <1>1, <1>4 DEF remove
  <2>3. registry' = [registry EXCEPT ![conn[c].user] = @ \ {c}]
    BY <1>7 DEF remove
  <2>4. /\ registry' \in [Users -> SUBSET Conns]
        /\ \A u \in Users : registry'[u] \subseteq registry[u]
    BY <2>3, <1>1
  <2> QED
    BY <2>1, <2>2, <2>4, <1>2, <1>4
<1>8. CASE runHeartbeat(c)
  <2>1. SocketStep /\ registry' = registry /\ conn[c].at = "open"
    BY <1>8 DEF runHeartbeat, SocketStep
  <2>2. conn' = [conn EXCEPT ![c] = [conn[c] EXCEPT !.at = conn[c].at, !.sock = "shut"]]
    BY <1>8, <1>1, <1>4 DEF runHeartbeat
  <2> QED
    BY <2>1, <2>2, <1>2, <1>3
<1>9. CASE PeerLeaves(c)
  <2>1. SocketStep /\ registry' = registry /\ conn[c].at \in {"ack", "open"}
    BY <1>9 DEF PeerLeaves, SocketStep
  <2>2. PICK s \in {"shut", "vanished"} : conn' = [conn EXCEPT ![c].sock = s]
    BY <1>9 DEF PeerLeaves
  <2>3. conn' = [conn EXCEPT ![c] = [conn[c] EXCEPT !.at = conn[c].at, !.sock = s]]
    BY <2>2, <1>1, <1>4
  <2> QED
    BY <2>1, <2>3, <1>2, <1>3
<1> QED
  BY <1>5, <1>6, <1>7, <1>8, <1>9 DEF handler

\* A step of the consumer that leaves the sockets and the topics alone.
LEMMA ConsumerSteps ==
    ASSUME GatewayInv, UNCHANGED <<log, proc, group, apos, conn, registry>>,
           tpos' \in -1 .. Len(log),
           offsets' \in [Groups -> Int],
           \A g \in Groups : offsets'[g] \in -1 .. Len(log),
           cache' \in [Accounts -> Users \cup {None}],
           \A a \in Accounts : cache'[a] \in {None, Owner[a]},
           work' \in Work,
           WorkConcerned',
           mishaps' \in mishaps .. MaxMishaps,
           got' = got
    PROVE  GatewayInv'
<1> USE DEF GatewayInv
<1>1. GatewayTypes' /\ GroupsKnown'
  BY DEF GatewayTypes, GroupsKnown
<1>2. RegistryTrue' /\ CacheTrue' /\ GotConcerned'
  BY DEF RegistryTrue, CacheTrue, GotConcerned
<1> QED
  BY <1>1, <1>2

\* The tail of a sequence is the sequence one further.
LEMMA TailIndex ==
    ASSUME NEW S, NEW s \in Seq(S), s # <<>>, NEW i \in DOMAIN Tail(s)
    PROVE  i + 1 \in DOMAIN s /\ Tail(s)[i] = s[i + 1]
OBVIOUS

\* What a step that works on the same event has to keep.
LEMMA SameEvent ==
    ASSUME GatewayInv, UNCHANGED <<log, tpos>>, work.at # "fetch"
    PROVE  Concerns(Current)' = Concerns(Current) /\ tpos' \in 1 .. Len(log')
BY DEF Current, Concerns, GatewayInv, WorkConcerned

\* Joining, leaving and reading on happen between two events.
LEMMA ReaderSteps ==
    ASSUME GatewayAssumption, GatewayInv, EventsAssumption,
           Join \/ Rejoin \/ runTransferEventsConsumer \/ runAccountEventsConsumer
    PROVE  GatewayInv'
<1> USE DEF GatewayInv, GatewayTypes, GroupsKnown
<1>0. /\ \A a \in Accounts : Owner[a] \in Users
      /\ \A a \in Accounts : cache[a] \in {None, Owner[a]}
      /\ MaxMishaps \in Nat
  BY OwnersKnown DEF CacheTrue, GatewayAssumption
<1>1. CASE Join
  <2>1. group \in Groups
    BY DEF Groups
  <2>2. tpos' \in -1 .. Len(log)
    BY <1>1, <2>1 DEF Join
  <2>3. work.at = "fetch" /\ work = NoWork
    BY <1>1 DEF Join, WorkConcerned, Work
  <2>4. WorkConcerned'
    BY <1>1, <2>3 DEF Join, WorkConcerned, NoWork
  <2> QED
    BY <1>0, <1>1, <2>2, <2>4, ConsumerSteps DEF Join
<1>2. CASE Rejoin
  <2>1. mishaps' \in mishaps .. MaxMishaps
    BY <1>0, <1>2 DEF Rejoin, Mishap
  <2>2. WorkConcerned'
    BY <1>2 DEF Rejoin, WorkConcerned, NoWork
  <2> QED
    BY <1>0, <1>2, <2>1, <2>2, ConsumerSteps DEF Rejoin, history
<1>3. CASE runTransferEventsConsumer
  <2> DEFINE m == log[tpos + 1]
  <2>1. tpos \in 0 .. Len(log) - 1 /\ work = NoWork /\ work.at = "fetch"
    BY <1>3 DEF runTransferEventsConsumer, WorkConcerned
  <2>2. m \in TransferEvents
    BY <2>1
  <2>3. Parties(m) \in Seq(Accounts)
    BY <2>2 DEF EventsAssumption
  <2>4. work' = [NoWork EXCEPT !.at = "route", !.parties = Parties(m)]
    BY <1>3, <2>1 DEF runTransferEventsConsumer
  <2>5. /\ work' \in Work /\ work'.at = "route" /\ work'.parties = Parties(m)
        /\ work'.signals = <<>> /\ work'.snapshot = {}
    <3> HIDE DEF m
    <3>1. work' = [at |-> "route", parties |-> Parties(m), signals |-> <<>>, snapshot |-> {}]
      BY <2>4 DEF NoWork
    <3> QED
      BY <2>3, <3>1 DEF Work
  <2>6. tpos' = tpos + 1 /\ log' = log /\ mishaps' = mishaps
    BY <1>3 DEF runTransferEventsConsumer
  <2>7. Current' = m
    BY <2>6 DEF Current
  <2>8. WorkConcerned'
    <3>1. \A i \in DOMAIN work'.parties : Owner[work'.parties[i]] \in Concerns(m)
      BY <2>5, PartiesConcerned
    <3>2. Concerns(Current)' = Concerns(m)
      BY <2>7 DEF Concerns
    <3>3. tpos' \in 1 .. Len(log')
      BY <2>1, <2>6
    <3> HIDE DEF m, GatewayInv, GatewayTypes, GroupsKnown
    <3> QED
      <4>1. /\ work'.at = "fetch" => work' = NoWork
            /\ work'.at # "fetch" => tpos' \in 1 .. Len(log')
        BY <2>5, <3>3
      <4>2. DOMAIN work'.signals = {}
        BY <2>5
      <4>3. \A i \in DOMAIN work'.parties : Owner[work'.parties[i]] \in Concerns(Current)'
        BY <3>1, <3>2
      <4> QED
        BY <2>5, <4>1, <4>2, <4>3 DEF WorkConcerned
  <2> HIDE DEF m
  <2> QED
    <3>1. UNCHANGED <<log, offsets, proc, group, apos, cache, conn, registry, mishaps, got>>
      BY <1>3 DEF runTransferEventsConsumer, history
    <3>2. tpos' \in -1 .. Len(log)
      <4>1. Len(log) \in Nat
        OBVIOUS
      <4> HIDE DEF GatewayInv, GatewayTypes, GroupsKnown
      <4> QED
        BY <2>1, <2>6, <4>1
    <3>3. /\ offsets' \in [Groups -> Int]
          /\ \A g \in Groups : offsets'[g] \in -1 .. Len(log)
          /\ cache' \in [Accounts -> Users \cup {None}]
          /\ \A b \in Accounts : cache'[b] \in {None, Owner[b]}
          /\ mishaps' \in mishaps .. MaxMishaps
      BY <1>0, <3>1
    <3> QED
      BY <2>5, <2>8, <3>1, <3>2, <3>3, ConsumerSteps
<1>4. CASE runAccountEventsConsumer
  <2> DEFINE a == AccountLog[apos + 1]
  <2>1. apos < Len(AccountLog) /\ apos \in Nat /\ AccountLog \in Seq(Accounts)
    BY <1>4 DEF runAccountEventsConsumer, GatewayAssumption
  <2>2. a \in Accounts
    BY <2>1
  <2>3. cache' = [cache EXCEPT ![a] = Owner[a]]
    BY <1>4 DEF runAccountEventsConsumer
  <2> HIDE DEF a
  <2>4. /\ cache' \in [Accounts -> Users \cup {None}]
        /\ \A b \in Accounts : cache'[b] \in {None, Owner[b]}
    BY <1>0, <2>2, <2>3
  <2>5. UNCHANGED <<log, offsets, proc, group, tpos, work, conn, registry, mishaps, got>>
        /\ apos' = apos + 1
    BY <1>4 DEF runAccountEventsConsumer, history
  <2>6. GatewayTypes'
    BY <2>1, <2>4, <2>5
  <2>7. WorkConcerned'
    BY <2>5 DEF WorkConcerned, Current
  <2>8. GroupsKnown' /\ RegistryTrue' /\ CacheTrue' /\ GotConcerned'
    BY <2>4, <2>5 DEF RegistryTrue, CacheTrue, GotConcerned
  <2> QED
    BY <2>6, <2>7, <2>8
<1> QED
  BY <1>1, <1>2, <1>3, <1>4

LEMMA ResolveStep ==
    ASSUME GatewayAssumption, GatewayInv, resolve
    PROVE  GatewayInv'
<1> USE DEF GatewayInv, GatewayTypes, GroupsKnown
<1> DEFINE a == work.parties[1]
<1>1. /\ work \in Work /\ work.parties \in Seq(Accounts) /\ work.parties # <<>>
      /\ work.signals \in Seq(Users \X {"balance.changed", "updated"})
  BY DEF resolve, Work
<1>2. a \in Accounts /\ Owner[a] \in Users /\ 1 \in DOMAIN work.parties
      /\ cache[a] \in {None, Owner[a]}
  <2>1. a \in Accounts /\ 1 \in DOMAIN work.parties
    BY <1>1
  <2> QED
    BY <2>1, OwnersKnown DEF CacheTrue
<1>3. work.at # "fetch" /\ Owner[a] \in Concerns(Current)
  <2>1. work # NoWork
    BY <1>1 DEF NoWork
  <2> QED
    BY <2>1, <1>2 DEF WorkConcerned
<1>4. PICK u \in {None, Owner[a]} :
         work' = [work EXCEPT !.parties = Tail(@), !.signals = @ \o signalsFor(Current, u)]
  BY <1>2 DEF resolve
<1>5. UNCHANGED <<log, offsets, proc, group, apos, tpos, conn, registry, got>>
  BY DEF resolve, reader
<1>6. mishaps' \in mishaps .. MaxMishaps
  <2>1. mishaps \in 0 .. MaxMishaps /\ MaxMishaps \in Nat
    BY DEF GatewayAssumption
  <2>2. mishaps' = mishaps \/ (mishaps < MaxMishaps /\ mishaps' = mishaps + 1)
    BY DEF resolve, Mishap
  <2> HIDE DEF GatewayInv, GatewayTypes, GroupsKnown
  <2> QED
    BY <2>1, <2>2
<1>7. /\ cache' \in [Accounts -> Users \cup {None}]
      /\ \A b \in Accounts : cache'[b] \in {None, Owner[b]}
  <2>1. cache' = cache \/ cache' = [cache EXCEPT ![a] = Owner[a]]
    BY DEF resolve
  <2> HIDE DEF a
  <2> QED
    BY <1>2, <2>1 DEF CacheTrue
<1> HIDE DEF a
<1>8. /\ signalsFor(Current, u) \in Seq(Users \X {"balance.changed", "updated"})
      /\ \A i \in DOMAIN signalsFor(Current, u) :
            signalsFor(Current, u)[i][1] \in Concerns(Current)
  <2>1. CASE u = None
    BY <2>1 DEF signalsFor
  <2>2. CASE u # None
    <3>1. u \in Users /\ u \in Concerns(Current)
      BY <2>2, <1>2, <1>3
    <3>2. CASE Current.type \in {"TransferCompleted", "DepositCredited"}
      <4>1. signalsFor(Current, u) = << <<u, "balance.changed">>, <<u, "updated">> >>
        BY <2>2, <3>2 DEF signalsFor
      <4> QED
        BY <3>1, <4>1
    <3>3. CASE Current.type \notin {"TransferCompleted", "DepositCredited"}
      <4>1. signalsFor(Current, u) = << <<u, "updated">> >>
        BY <2>2, <3>3 DEF signalsFor
      <4> QED
        BY <3>1, <4>1
    <3> QED
      BY <3>2, <3>3
  <2> QED
    BY <2>1, <2>2
<1>9. /\ work' \in Work /\ work'.at = work.at /\ work'.snapshot = work.snapshot
      /\ work'.parties = Tail(work.parties)
      /\ work'.signals = work.signals \o signalsFor(Current, u)
  <2> DEFINE s == work.signals \o signalsFor(Current, u)
  <2>1. s \in Seq(Users \X {"balance.changed", "updated"})
        /\ Tail(work.parties) \in Seq(Accounts)
    BY <1>1, <1>8
  <2>2. work' = [work EXCEPT !.parties = Tail(work.parties), !.signals = s]
    BY <1>4
  <2> HIDE DEF s
  <2>3. work' = [at |-> work.at, parties |-> Tail(work.parties), signals |-> s,
                 snapshot |-> work.snapshot]
    BY <1>1, <2>2 DEF Work
  <2> QED
    BY <1>1, <2>1, <2>3 DEF Work, s
<1>10. WorkConcerned'
  <2>1. Concerns(Current)' = Concerns(Current) /\ tpos' \in 1 .. Len(log')
    BY <1>3, <1>5, SameEvent
  <2>2. \A i \in DOMAIN work'.parties : Owner[work'.parties[i]] \in Concerns(Current)
    <3> SUFFICES ASSUME NEW i \in DOMAIN work'.parties
                 PROVE  Owner[work'.parties[i]] \in Concerns(Current)
      OBVIOUS
    <3>1. i + 1 \in DOMAIN work.parties /\ work'.parties[i] = work.parties[i + 1]
      <4> HIDE DEF GatewayInv, GatewayTypes, GroupsKnown
      <4> QED
        BY <1>1, <1>9, TailIndex
    <3> QED
      BY <3>1 DEF WorkConcerned
  <2>3. \A i \in DOMAIN work'.signals : work'.signals[i][1] \in Concerns(Current)
    <3> DEFINE s == work.signals
               t == signalsFor(Current, u)
    <3> SUFFICES ASSUME NEW i \in DOMAIN work'.signals
                 PROVE  work'.signals[i][1] \in Concerns(Current)
      OBVIOUS
    <3>1. s \in Seq(Users \X {"balance.changed", "updated"})
          /\ t \in Seq(Users \X {"balance.changed", "updated"}) /\ work'.signals = s \o t
      BY <1>1, <1>8, <1>9
    <3>2. /\ \A k \in DOMAIN s : s[k][1] \in Concerns(Current)
          /\ \A k \in DOMAIN t : t[k][1] \in Concerns(Current)
      BY <1>8 DEF WorkConcerned
    <3> HIDE DEF s, t, GatewayInv, GatewayTypes, GroupsKnown
    <3>3. CASE i <= Len(s)
      <4>1. i \in DOMAIN s /\ work'.signals[i] = s[i]
        BY <3>1, <3>3
      <4> QED
        BY <4>1, <3>2
    <3>4. CASE i > Len(s)
      <4>1. i - Len(s) \in DOMAIN t /\ work'.signals[i] = t[i - Len(s)]
        BY <3>1, <3>4
      <4> QED
        BY <4>1, <3>2
    <3>5. i \in Int /\ Len(s) \in Nat
      BY <3>1
    <3> QED
      BY <3>3, <3>4, <3>5
  <2>4. \A c \in work'.snapshot :
           conn'[c].at # "idle" /\ conn'[c].user \in Concerns(Current)
    BY <1>5, <1>9 DEF WorkConcerned
  <2> QED
    BY <1>3, <1>9, <2>1, <2>2, <2>3, <2>4 DEF WorkConcerned
<1>11. /\ tpos' \in -1 .. Len(log)
       /\ offsets' \in [Groups -> Int]
       /\ \A g \in Groups : offsets'[g] \in -1 .. Len(log)
  BY <1>5
<1> QED
  BY <1>5, <1>6, <1>7, <1>9, <1>10, <1>11, ConsumerSteps

LEMMA SendCommitSteps ==
    ASSUME GatewayAssumption, GatewayInv, send \/ commit
    PROVE  GatewayInv'
<1> USE DEF GatewayInv, GatewayTypes, GroupsKnown
<1>1. /\ work \in Work /\ work.signals \in Seq(Users \X {"balance.changed", "updated"})
      /\ work.at = "route" /\ work.parties = <<>>
  BY DEF send, commit, Work
<1>2. UNCHANGED <<log, proc, group, apos, tpos, cache, conn, registry, got>>
  BY DEF send, commit, reader, history
<1>3. /\ \A a \in Accounts : cache'[a] \in {None, Owner[a]}
      /\ tpos' \in -1 .. Len(log) /\ tpos \in 1 .. Len(log)
  BY <1>1, <1>2 DEF CacheTrue, WorkConcerned
<1>4. CASE send
  <2> DEFINE u == work.signals[1][1]
             at == IF registry[u] = {} THEN "route" ELSE "write"
  <2>1. work.signals # <<>>
    BY <1>4 DEF send
  <2>2. u \in Users /\ u \in Concerns(Current) /\ registry[u] \in SUBSET Conns
    BY <1>1, <2>1 DEF WorkConcerned
  <2>3. work' = [work EXCEPT !.at = at, !.signals = Tail(work.signals),
                             !.snapshot = registry[u]]
    BY <1>4 DEF send
  <2>4. at \in {"route", "write"} /\ Tail(work.signals) \in Seq(Users \X {"balance.changed", "updated"})
    BY <1>1, <2>1
  <2> HIDE DEF at, u
  <2>5. work' = [at |-> at, parties |-> <<>>, signals |-> Tail(work.signals),
                 snapshot |-> registry[u]]
    BY <1>1, <2>3 DEF Work
  <2>6. /\ work' \in Work /\ work'.at # "fetch" /\ work'.parties = <<>>
        /\ work'.signals = Tail(work.signals) /\ work'.snapshot = registry[u]
    BY <2>2, <2>4, <2>5 DEF Work
  <2>7. Concerns(Current)' = Concerns(Current) /\ tpos' \in 1 .. Len(log')
    BY <1>1, <1>2, SameEvent
  <2>8. \A i \in DOMAIN work'.signals : work'.signals[i][1] \in Concerns(Current)
    <3> SUFFICES ASSUME NEW i \in DOMAIN work'.signals
                 PROVE  work'.signals[i][1] \in Concerns(Current)
      OBVIOUS
    <3>1. i + 1 \in DOMAIN work.signals /\ work'.signals[i] = work.signals[i + 1]
      <4> HIDE DEF GatewayInv, GatewayTypes, GroupsKnown
      <4> QED
        BY <1>1, <2>1, <2>6, TailIndex
    <3> QED
      BY <3>1 DEF WorkConcerned
  <2>9. \A c \in work'.snapshot :
           conn'[c].at # "idle" /\ conn'[c].user \in Concerns(Current)
    BY <1>2, <2>2, <2>6 DEF RegistryTrue
  <2>10. WorkConcerned'
    BY <2>6, <2>7, <2>8, <2>9 DEF WorkConcerned
  <2>11. mishaps' = mishaps /\ offsets' = offsets
    BY <1>4 DEF send
  <2> QED
    BY <1>2, <1>3, <2>6, <2>10, <2>11, ConsumerSteps
<1>5. CASE commit
  <2>1. work' = NoWork
    BY <1>5 DEF commit
  <2>2. WorkConcerned'
    <3> HIDE DEF GatewayInv, GatewayTypes, GroupsKnown
    <3>1. /\ work'.at = "fetch" /\ work'.snapshot = {}
          /\ DOMAIN work'.parties = {} /\ DOMAIN work'.signals = {}
      BY <2>1 DEF NoWork
    <3> QED
      BY <2>1, <3>1 DEF WorkConcerned
  <2>3. mishaps' \in mishaps .. MaxMishaps
    BY <1>5 DEF commit, Mishap, GatewayAssumption
  <2>4. /\ offsets' \in [Groups -> Int]
        /\ \A g \in Groups : offsets'[g] \in -1 .. Len(log)
    <3>1. offsets' = offsets \/ offsets' = [offsets EXCEPT ![group] = tpos]
      BY <1>5 DEF commit
    <3>2. offsets \in [Groups -> Int] /\ \A g \in Groups : offsets[g] \in -1 .. Len(log)
      OBVIOUS
    <3>3. tpos \in Int /\ tpos \in -1 .. Len(log)
      BY <1>3
    <3> HIDE DEF GatewayInv, GatewayTypes, GroupsKnown
    <3> QED
      BY <3>1, <3>2, <3>3
  <2> QED
    BY <1>2, <1>3, <2>1, <2>2, <2>3, <2>4, NoWorkTyped, ConsumerSteps
<1> QED
  BY <1>4, <1>5

\* One write: the frame goes to a socket of the snapshot, which keeps its user.
LEMMA WriteStep ==
    ASSUME GatewayInv, write
    PROVE  GatewayInv'
<1> USE DEF GatewayInv, GatewayTypes
<1>1. PICK c \in work.snapshot :
         /\ work' = [work EXCEPT !.at = IF work.snapshot = {c} THEN "route" ELSE @,
                                 !.snapshot = @ \ {c}]
         /\ \/ /\ conn[c].sock = "open"
               /\ got' = got \cup {<<c, tpos>>}
               /\ UNCHANGED conn
            \/ /\ conn[c].sock = "vanished"
               /\ \E s \in {"vanished", "shut"} : conn' = [conn EXCEPT ![c].sock = s]
               /\ UNCHANGED got
            \/ /\ conn[c].sock = "shut"
               /\ UNCHANGED <<conn, got>>
  BY DEF write
<1>2. work.at = "write" /\ work \in Work /\ c \in Conns
  BY <1>1 DEF write, Work
<1>3. UNCHANGED <<log, offsets, proc, group, apos, tpos, cache, registry, mishaps>>
  BY DEF write, reader
<1>4. /\ conn' \in [Conns -> Sockets]
      /\ \A d \in Conns : conn'[d].at = conn[d].at /\ conn'[d].user = conn[d].user
  <2>1. CASE conn' = conn
    BY <2>1
  <2>2. CASE \E s \in {"vanished", "shut"} : conn' = [conn EXCEPT ![c].sock = s]
    <3>1. PICK s \in {"vanished", "shut"} : conn' = [conn EXCEPT ![c].sock = s]
      BY <2>2
    <3>2. /\ [conn[c] EXCEPT !.sock = s] \in Sockets
          /\ [conn[c] EXCEPT !.sock = s].at = conn[c].at
          /\ [conn[c] EXCEPT !.sock = s].user = conn[c].user
      BY <1>2 DEF Sockets
    <3>3. conn' = [conn EXCEPT ![c] = [conn[c] EXCEPT !.sock = s]]
      BY <1>2, <3>1
    <3> QED
      BY <1>2, <3>2, <3>3
  <2> QED
    BY <1>1, <2>1, <2>2
<1>5. /\ work' \in Work /\ work'.at # "fetch" /\ work'.parties = work.parties
      /\ work'.signals = work.signals /\ work'.snapshot \subseteq work.snapshot
  <2> DEFINE at == IF work.snapshot = {c} THEN "route" ELSE work.at
  <2>1. work' = [work EXCEPT !.at = at, !.snapshot = work.snapshot \ {c}]
    BY <1>1
  <2>2. at \in {"route", "write"}
    BY <1>2
  <2> HIDE DEF at
  <2>3. work' = [at |-> at, parties |-> work.parties, signals |-> work.signals,
                 snapshot |-> work.snapshot \ {c}]
    BY <1>2, <2>1 DEF Work
  <2> QED
    BY <1>2, <2>2, <2>3 DEF Work
<1>6. /\ tpos \in 1 .. Len(log) /\ Concerns(Current)' = Concerns(Current)
      /\ tpos' \in 1 .. Len(log')
  BY <1>2, <1>3, SameEvent
<1>7. conn[c].at # "idle" /\ conn[c].user \in Concerns(Current)
  BY <1>1 DEF WorkConcerned
<1>8. got' = got \/ got' = got \cup {<<c, tpos>>}
  BY <1>1
<1>9. GatewayTypes' /\ GroupsKnown'
  BY <1>2, <1>3, <1>4, <1>5, <1>6, <1>8 DEF GroupsKnown
<1>10. RegistryTrue' /\ CacheTrue'
  BY <1>3, <1>4 DEF RegistryTrue, CacheTrue
<1>11. WorkConcerned'
  <2>1. \A d \in work'.snapshot :
           conn'[d].at # "idle" /\ conn'[d].user \in Concerns(Current)
    <3> SUFFICES ASSUME NEW d \in work'.snapshot
                 PROVE  conn'[d].at # "idle" /\ conn'[d].user \in Concerns(Current)
      OBVIOUS
    <3>1. d \in work.snapshot /\ d \in Conns
      BY <1>2, <1>5 DEF Work
    <3> QED
      BY <3>1, <1>4 DEF WorkConcerned
  <2> QED
    BY <1>5, <1>6, <2>1 DEF WorkConcerned
<1>12. GotConcerned'
  <2> SUFFICES ASSUME NEW g \in got'
               PROVE  conn'[g[1]].at # "idle" /\ conn'[g[1]].user \in Concerns(log'[g[2]])
    BY DEF GotConcerned
  <2>1. CASE g \in got
    <3>1. g[1] \in Conns
      BY <2>1
    <3> QED
      BY <2>1, <3>1, <1>3, <1>4 DEF GotConcerned
  <2>2. CASE g = <<c, tpos>>
    BY <2>2, <1>2, <1>3, <1>4, <1>7 DEF Current
  <2> QED
    BY <1>8, <2>1, <2>2
<1> QED
  BY <1>9, <1>10, <1>11, <1>12

\* The process ends and takes its memory and its sockets along, or starts again.
LEMMA ProcessSteps ==
    ASSUME GatewayAssumption, GatewayInv, Shutdown \/ Exit \/ startKafkaConsumers
    PROVE  GatewayInv'
<1> USE DEF GatewayInv, GatewayTypes, GroupsKnown
<1>0. MaxMishaps \in Nat /\ AccountLog \in Seq(Accounts)
  BY DEF GatewayAssumption
<1>a. /\ proc \in [at : {"up", "draining", "down"}, boots : Nat]
      /\ proc.boots <= mishaps /\ (proc.at # "up" => proc.boots < mishaps)
      /\ mishaps \in 0 .. MaxMishaps
      /\ \A g \in Groups : offsets[g] \in -1 .. Len(log)
  OBVIOUS
<1>1. CASE Shutdown
  <2>1. UNCHANGED <<log, offsets, group, apos, tpos, cache, work, conn, registry, got>>
    BY <1>1 DEF Shutdown, reader, history
  <2>2. /\ proc.at = "up" /\ mishaps < MaxMishaps /\ mishaps' = mishaps + 1
        /\ proc' = [proc EXCEPT !.at = "draining"]
    BY <1>1 DEF Shutdown, Mishap
  <2>3. /\ proc' \in [at : {"up", "draining", "down"}, boots : Nat]
        /\ proc'.boots = proc.boots /\ proc'.at = "draining"
    <3> HIDE DEF GatewayInv, GatewayTypes, GroupsKnown
    <3> QED
      BY <1>a, <2>2
  <2>4. GatewayTypes'
    <3>0. group = <<Self, proc.boots>>
      OBVIOUS
    <3>1. mishaps' \in 0 .. MaxMishaps /\ group' = <<Self, proc'.boots>>
      <4> HIDE DEF GatewayInv, GatewayTypes, GroupsKnown
      <4> QED
        BY <1>0, <1>a, <2>1, <2>2, <2>3, <3>0
    <3> QED
      BY <2>1, <2>3, <3>1
  <2>5. GroupsKnown'
    <3> HIDE DEF GatewayInv, GatewayTypes
    <3> QED
      BY <1>0, <1>a, <2>1, <2>2, <2>3
  <2>6. RegistryTrue' /\ CacheTrue' /\ WorkConcerned' /\ GotConcerned'
    BY <2>1 DEF RegistryTrue, CacheTrue, WorkConcerned, GotConcerned, Current
  <2> QED
    BY <2>4, <2>5, <2>6
<1>2. CASE Exit
  <2>1. UNCHANGED <<log, offsets, group, got>> /\ apos' = 0 /\ tpos' = -1
    BY <1>2 DEF Exit, history
  <2>2. /\ proc' \in [at : {"up", "draining", "down"}, boots : Nat]
        /\ proc'.boots = proc.boots /\ proc'.at = "down"
        /\ mishaps' \in 0 .. MaxMishaps /\ proc.boots < mishaps'
    <3>1. proc' = [proc EXCEPT !.at = "down"]
      BY <1>2 DEF Exit
    <3> HIDE DEF GatewayInv, GatewayTypes, GroupsKnown
    <3>2. CASE proc.at = "up" /\ Mishap
      BY <1>0, <1>a, <3>1, <3>2 DEF Mishap
    <3>3. CASE proc.at = "draining" /\ UNCHANGED mishaps
      BY <1>0, <1>a, <3>1, <3>3
    <3> QED
      BY <1>2, <3>2, <3>3 DEF Exit
  <2>3. /\ conn' \in [Conns -> Sockets]
        /\ \A d \in Conns : /\ conn[d].at # "idle" => conn'[d].at # "idle"
                            /\ conn'[d].user = conn[d].user
    <3>1. \A d \in Conns :
             conn'[d] = IF conn[d].at # "idle"
                        THEN [conn[d] EXCEPT !.at = "done", !.sock = "shut"]
                        ELSE conn[d]
      BY <1>2 DEF Exit
    <3>2. \A d \in Conns :
             /\ [conn[d] EXCEPT !.at = "done", !.sock = "shut"] \in Sockets
             /\ [conn[d] EXCEPT !.at = "done", !.sock = "shut"].at = "done"
             /\ [conn[d] EXCEPT !.at = "done", !.sock = "shut"].user = conn[d].user
      <4>1. \A r \in Sockets :
               /\ [r EXCEPT !.at = "done", !.sock = "shut"] \in Sockets
               /\ [r EXCEPT !.at = "done", !.sock = "shut"].at = "done"
               /\ [r EXCEPT !.at = "done", !.sock = "shut"].user = r.user
        <5> HIDE DEF GatewayInv, GatewayTypes, GroupsKnown
        <5> QED
          BY DEF Sockets
      <4>2. \A d \in Conns : conn[d] \in Sockets
        OBVIOUS
      <4> HIDE DEF GatewayInv, GatewayTypes, GroupsKnown
      <4> QED
        BY <4>1, <4>2
    <3>3. conn' = [d \in Conns |-> conn'[d]]
      BY <1>2 DEF Exit
    <3>4. \A d \in Conns : conn'[d] \in Sockets
      BY <3>1, <3>2
    <3> QED
      BY <3>1, <3>2, <3>3, <3>4
  <2>4. cache' = newAccountCache /\ registry' = newWSRegistry /\ work' = NoWork
    BY <1>2 DEF Exit
  <2>5. GatewayTypes'
    BY <1>0, <2>1, <2>2, <2>3, <2>4, NoWorkTyped, NewRegistryTyped, NewCacheTyped
  <2>6. GroupsKnown'
    BY <2>1, <2>2
  <2>7. RegistryTrue' /\ CacheTrue'
    BY <2>4 DEF RegistryTrue, CacheTrue, newAccountCache, newWSRegistry
  <2>8. WorkConcerned'
    <3> HIDE DEF GatewayInv, GatewayTypes, GroupsKnown
    <3>1. /\ work'.at = "fetch" /\ work'.snapshot = {}
          /\ DOMAIN work'.parties = {} /\ DOMAIN work'.signals = {}
      BY <2>4 DEF NoWork
    <3> QED
      BY <2>4, <3>1 DEF WorkConcerned
  <2>9. GotConcerned'
    <3> SUFFICES ASSUME NEW g \in got
                 PROVE  conn'[g[1]].at # "idle" /\ conn'[g[1]].user \in Concerns(log[g[2]])
      BY <2>1 DEF GotConcerned
    <3>1. g[1] \in Conns
      OBVIOUS
    <3> QED
      BY <3>1, <2>3 DEF GotConcerned
  <2> QED
    BY <2>5, <2>6, <2>7, <2>8, <2>9
<1>3. CASE startKafkaConsumers
  <2>1. UNCHANGED <<log, offsets, apos, tpos, cache, work, conn, registry, mishaps, got>>
    BY <1>3 DEF startKafkaConsumers, history
  <2>2. /\ proc.at = "down"
        /\ proc' = [at |-> "up", boots |-> proc.boots + 1]
        /\ group' = <<Self, proc.boots + 1>>
    BY <1>3 DEF startKafkaConsumers, newInstanceConsumerGroup
  <2>3. GatewayTypes'
    BY <1>0, <2>1, <2>2
  <2>4. GroupsKnown'
    BY <2>1, <2>2
  <2>5. RegistryTrue' /\ CacheTrue' /\ WorkConcerned' /\ GotConcerned'
    BY <2>1 DEF RegistryTrue, CacheTrue, WorkConcerned, GotConcerned, Current
  <2> QED
    BY <2>3, <2>4, <2>5
<1> QED
  BY <1>1, <1>2, <1>3

\* A new event changes nothing about the ones before it.
LEMMA PublishEventStep ==
    ASSUME GatewayInv, PublishEvent
    PROVE  GatewayInv'
<1> USE DEF GatewayInv, GatewayTypes, GroupsKnown
<1>1. PICK m \in TransferEvents : log' = Append(log, m)
  BY DEF PublishEvent
<1>2. UNCHANGED <<offsets, proc, group, apos, tpos, cache, work, conn, registry, mishaps, got>>
  BY DEF PublishEvent, reader
<1>3. /\ log' \in Seq(TransferEvents) /\ Len(log') = Len(log) + 1 /\ Len(log) \in Nat
      /\ \A k \in 1 .. Len(log) : log'[k] = log[k]
  BY <1>1
<1>4. GatewayTypes' /\ GroupsKnown'
  BY <1>2, <1>3
<1>5. RegistryTrue' /\ CacheTrue'
  BY <1>2 DEF RegistryTrue, CacheTrue
<1>6. WorkConcerned'
  <2>1. CASE work.at = "fetch"
    <3>1. work' = NoWork
      BY <2>1, <1>2 DEF WorkConcerned
    <3> HIDE DEF GatewayInv, GatewayTypes, GroupsKnown
    <3>2. /\ work'.at = "fetch" /\ work'.snapshot = {}
          /\ DOMAIN work'.parties = {} /\ DOMAIN work'.signals = {}
      BY <3>1 DEF NoWork
    <3> QED
      BY <3>1, <3>2 DEF WorkConcerned
  <2>2. CASE work.at # "fetch"
    <3>1. tpos \in 1 .. Len(log)
      BY <2>2 DEF WorkConcerned
    <3>2. Concerns(Current)' = Concerns(Current) /\ tpos' \in 1 .. Len(log')
      BY <3>1, <1>2, <1>3 DEF Current
    <3> QED
      BY <2>2, <3>2, <1>2 DEF WorkConcerned
  <2> QED
    BY <2>1, <2>2
<1>7. GotConcerned'
  <2> SUFFICES ASSUME NEW g \in got
               PROVE  conn[g[1]].at # "idle" /\ conn[g[1]].user \in Concerns(log'[g[2]])
    BY <1>2 DEF GotConcerned
  <2>1. g[2] \in 1 .. Len(log)
    OBVIOUS
  <2>2. log'[g[2]] = log[g[2]]
    BY <2>1, <1>3
  <2> QED
    BY <2>2 DEF GotConcerned
<1> QED
  BY <1>4, <1>5, <1>6, <1>7

-----------------------------------------------------------------------------
LEMMA GatewayInvInit ==
    ASSUME GatewayAssumption, GatewayInit
    PROVE  GatewayInv
<1> USE DEF GatewayInit
<1>1. GatewayTypes
  <2>1. conn \in [Conns -> Sockets]
    BY DEF NoConn, Sockets
  <2>2. group = <<Self, proc.boots>> /\ proc \in [at : {"up", "draining", "down"}, boots : Nat]
    BY DEF newInstanceConsumerGroup
  <2>3. log \in Seq(TransferEvents) /\ Len(log) = 0 /\ Len(AccountLog) \in Nat /\ MaxMishaps \in Nat
    BY DEF GatewayAssumption
  <2> QED
    BY <2>1, <2>2, <2>3, NoWorkTyped, NewRegistryTyped, NewCacheTyped DEF GatewayTypes
<1>2. GroupsKnown
  BY DEF GroupsKnown
<1>3. RegistryTrue /\ CacheTrue /\ GotConcerned
  BY DEF RegistryTrue, CacheTrue, GotConcerned, newWSRegistry, newAccountCache
<1>4. WorkConcerned
  <2>1. /\ work = NoWork /\ work.at = "fetch" /\ work.snapshot = {}
        /\ DOMAIN work.parties = {} /\ DOMAIN work.signals = {}
    BY DEF NoWork
  <2> QED
    BY <2>1 DEF WorkConcerned
<1> QED
  BY <1>1, <1>2, <1>3, <1>4 DEF GatewayInv

LEMMA GatewayInvStep ==
    ASSUME GatewayAssumption, EventsAssumption, GatewayInv, [GatewayNext]_gatewayVars
    PROVE  GatewayInv'
<1>1. CASE UNCHANGED gatewayVars
  BY <1>1 DEF GatewayInv, GatewayTypes, GroupsKnown, RegistryTrue, CacheTrue,
              WorkConcerned, GotConcerned, Current, gatewayVars, reader, history
<1>2. CASE PublishEvent
  BY <1>2, PublishEventStep
<1>3. CASE runAccountEventsConsumer \/ Join \/ Rejoin \/ runTransferEventsConsumer
  BY <1>3, ReaderSteps
<1>4. CASE consumer
  BY <1>4, ResolveStep, SendCommitSteps, WriteStep DEF consumer
<1>5. CASE Shutdown \/ Exit \/ startKafkaConsumers
  BY <1>5, ProcessSteps
<1>6. CASE \E c \in Conns, t \in Tokens : handleWS(c, t)
  BY <1>6, HandleWSStep
<1>7. CASE \E c \in Conns : handler(c) \/ runHeartbeat(c) \/ PeerLeaves(c)
  BY <1>7, SocketSteps
<1> QED
  BY <1>1, <1>2, <1>3, <1>4, <1>5, <1>6, <1>7 DEF GatewayNext

\* What a signal goes through between the topic and a socket keeps to the event:
\* the cache, the registry, the work in hand and the frames already written.
THEOREM GatewayInvariant == GatewaySpec => []GatewayInv
<1>1. GatewayInit => GatewayInv
  BY GatewayInvInit, GatewayAssumption
<1>2. GatewayInv /\ [GatewayNext]_gatewayVars => GatewayInv'
  BY GatewayInvStep, GatewayAssumption, EventsAssumption
<1> QED
  BY <1>1, <1>2, PTL DEF GatewaySpec

\* Whoever dials, leaves or vanishes while a signal is on its way, and however
\* often the process restarts or its reader rejoins, a frame of an event only
\* reaches a socket of a user the event concerns.
THEOREM SignalsStayPrivate == GatewaySpec => []OnlyParties
<1>1. GatewayInv => OnlyParties
  BY DEF GatewayInv, GotConcerned, OnlyParties
<1> QED
  BY <1>1, GatewayInvariant, PTL

=============================================================================

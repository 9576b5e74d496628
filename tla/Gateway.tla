------------------------------ MODULE Gateway ------------------------------
(***************************************************************************)
(* The gateway's push channel: an instance reads every account and         *)
(* transfer event under a consumer group of its own, turns a transfer      *)
(* event into signals for its parties, and writes them to the WebSockets   *)
(* those users hold on this instance.  Instances share nothing but the     *)
(* topics: the others appear only as the groups they have joined.          *)
(*                                                                         *)
(* The writes of a signal go to a snapshot of the registry taken under its *)
(* lock, so sockets come, go and die between the snapshot and each write.  *)
(* The topics have one partition; an event is its offset.                  *)
(***************************************************************************)
EXTENDS Integers, Sequences, FiniteSets

CONSTANTS
    Peers,        \* the other gateway instances, and the name of this one
    Self,
    Accounts,
    Owner,        \* the user who owns an account
    AccountLog,   \* account.events, compacted
    TransferEvents, \* messages that may appear on transfer.events
    MaxDials,     \* bound: dials of clients, each with one auth message
    Tokens,       \* what that message may carry: a user, or None if it is invalid
    MaxConns,     \* maxConnsPerUser
    MaxMessages,  \* bound: messages on transfer.events
    MaxMishaps,   \* bound: crashes, deploys, failed lookups, lost commits, rejoins
    None

ASSUME GatewayAssumption ==
    /\ AccountLog \in Seq(Accounts)
    /\ None \notin {Owner[a] : a \in Accounts}
    /\ Tokens \subseteq {Owner[a] : a \in Accounts} \cup {None}
    /\ MaxDials \in Nat /\ MaxConns \in Nat
    /\ MaxMessages \in Nat /\ MaxMishaps \in Nat

Conns == 1 .. MaxDials      \* sockets, in the order they are accepted

Users == {Owner[a] : a \in Accounts}

Groups == (Peers \cup {Self}) \X (0 .. MaxMishaps)

VARIABLES
    log,         \* transfer.events
    offsets,     \* committed offset of a group on transfer.events, -1 for none
    proc,        \* [at, boots] of the process
    group,       \* its consumer group
    apos,        \* how far it has read account.events
    tpos,        \* how far it has read transfer.events, -1 until it joined
    cache,       \* accountCache: the user of an account, None if absent
    work,        \* what its transfer consumer is doing
    conn,        \* the handler goroutine of each socket
    registry,    \* byUser: the sockets of each user
    mishaps,     \* bound
    due,         \* history: <<c, k>>, socket c is owed a signal of event k
    got          \* history: <<c, k>>, socket c was written a signal of event k

reader == <<group, apos, tpos>>
history == <<due, got>>
gatewayVars == <<log, offsets, proc, reader, cache, work, conn, registry, mishaps, history>>

NoWork == [at |-> "fetch", parties |-> <<>>, signals |-> <<>>, snapshot |-> {}]

NoConn == [at |-> "idle", sock |-> "open", user |-> None]

newAccountCache == [a \in Accounts |-> None]

newWSRegistry == [u \in Users |-> {}]

Mishap == mishaps < MaxMishaps /\ mishaps' = mishaps + 1

\* Faulty: the group is stable, as for any other service.
newInstanceConsumerGroupShared(i, boot) == CHOOSE g \in Groups : TRUE

newInstanceConsumerGroup(i, boot) == <<i, boot>>

GatewayInit ==
    /\ log = <<>>
    /\ offsets = [g \in Groups |-> -1]
    /\ proc = [at |-> "up", boots |-> 0]
    /\ group = newInstanceConsumerGroup(Self, 0)
    /\ apos = 0
    /\ tpos = -1
    /\ cache = newAccountCache
    /\ work = NoWork
    /\ conn = [c \in Conns |-> NoConn]
    /\ registry = newWSRegistry
    /\ mishaps = 0
    /\ due = {}
    /\ got = {}

-----------------------------------------------------------------------------
(***************************************************************************)
(* Who learns of an event.                                                 *)
(***************************************************************************)
\* Faulty: the recipient of a transfer that moved nothing is told as well.
PartiesAll(m) ==
    IF m.type = "" THEN <<>>
    ELSE IF m.type = "DepositCredited" THEN <<m.from>> ELSE <<m.from, m.to>>

\* The accounts resolved, in order: the sender's, or the deposit's, and the
\* recipient's only of a completed transfer.
Parties(m) ==
    CASE m.type = "TransferCompleted" -> <<m.from, m.to>>
      [] m.type \in {"TransferFailed", "TransferRejected", "DepositCredited"} -> <<m.from>>
      [] OTHER -> <<>>     \* no header, or one this gateway does not know

\* An event names accounts of the bank.
ASSUME EventsAssumption == \A m \in TransferEvents : Parties(m) \in Seq(Accounts)

\* The signals for one resolved party, and none if it did not resolve.
signalsFor(m, u) ==
    IF u = None THEN <<>>
    ELSE IF m.type \in {"TransferCompleted", "DepositCredited"}
    THEN << <<u, "balance.changed">>, <<u, "updated">> >>
    ELSE << <<u, "updated">> >>

-----------------------------------------------------------------------------
(***************************************************************************)
(* A socket.                                                               *)
(***************************************************************************)
Registered(c) == conn[c].user # None /\ c \in registry[conn[c].user]

Fits(u) == Cardinality(registry[u]) < MaxConns

\* A socket is accepted and its first message awaited.  Nothing is shared until
\* the token is checked, so the wait is one step with what ends it: no message in
\* authTimeout or no valid token (token None), registry.add under its cap, or
\* its refusal.
handleWS(c, token) ==
    /\ conn[c].at = "idle"
    /\ \A d \in 1 .. c - 1 : conn[d].at # "idle"
    /\ proc.at = "up"
    /\ LET admitted == token # None /\ Fits(token)
       IN \/ /\ admitted
             /\ registry' = [registry EXCEPT ![token] = @ \cup {c}]
             /\ conn' = [conn EXCEPT ![c] = [at |-> "ack", sock |-> "open", user |-> token]]
          \/ /\ ~admitted
             /\ conn' = [conn EXCEPT ![c].at = "done", ![c].sock = "shut"]
             /\ UNCHANGED registry
    /\ UNCHANGED <<log, offsets, proc, reader, cache, work, mishaps, history>>

\* The "connected" frame: a vanished peer's write may still be buffered.
ack(c) ==
    /\ conn[c].at = "ack"
    /\ \/ conn[c].sock # "shut" /\ conn' = [conn EXCEPT ![c].at = "open"]
       \/ /\ conn[c].sock # "open"
          /\ conn' = [conn EXCEPT ![c].at = "closing", ![c].sock = "shut"]
    /\ UNCHANGED <<log, offsets, proc, reader, cache, work, registry, mishaps, history>>

\* Faulty: no heartbeat, only TCP's own notice of a close.
runHeartbeatNone(c) ==
    /\ FALSE
    /\ UNCHANGED gatewayVars

\* A ping without a pong closes the socket.
runHeartbeat(c) ==
    /\ conn[c].at = "open"
    /\ conn[c].sock = "vanished"
    /\ conn' = [conn EXCEPT ![c].sock = "shut"]
    /\ UNCHANGED <<log, offsets, proc, reader, cache, work, registry, mishaps, history>>

\* The select: the read side ended, or the server is shutting down.
selectDone(c) ==
    /\ conn[c].at = "open"
    /\ \/ conn[c].sock = "shut"
       \/ proc.at = "draining"
    /\ conn' = [conn EXCEPT ![c].at = "closing", ![c].sock = "shut"]
    /\ UNCHANGED <<log, offsets, proc, reader, cache, work, registry, mishaps, history>>

\* The deferred remove.
remove(c) ==
    /\ conn[c].at = "closing"
    /\ registry' = [registry EXCEPT ![conn[c].user] = @ \ {c}]
    /\ conn' = [conn EXCEPT ![c].at = "done"]
    /\ UNCHANGED <<log, offsets, proc, reader, cache, work, mishaps, history>>

\* The peer closes its socket or sends an unexpected frame, or just vanishes.
PeerLeaves(c) ==
    /\ conn[c].at \in {"ack", "open"}
    /\ conn[c].sock = "open"
    /\ \E s \in {"shut", "vanished"} : conn' = [conn EXCEPT ![c].sock = s]
    /\ UNCHANGED <<log, offsets, proc, reader, cache, work, registry, mishaps, history>>

-----------------------------------------------------------------------------
(***************************************************************************)
(* The account cache.                                                      *)
(***************************************************************************)
runAccountEventsConsumer ==
    /\ proc.at = "up"
    /\ apos < Len(AccountLog)
    /\ apos' = apos + 1
    /\ LET a == AccountLog[apos + 1]
       IN cache' = [cache EXCEPT ![a] = Owner[a]]
    /\ UNCHANGED <<log, offsets, proc, group, tpos, work, conn, registry, mishaps, history>>

-----------------------------------------------------------------------------
(***************************************************************************)
(* The transfer consumer.                                                  *)
(***************************************************************************)
Current == log[tpos]

Alive == proc.at # "down"

\* The group coordinator assigns the partition to one member of a group.  A
\* group without a committed offset starts at LastOffset: what was published
\* before is not owed to anybody.  The other instances joined long ago.
Join ==
    /\ proc.at = "up"
    /\ tpos = -1
    /\ \A j \in Peers : group # newInstanceConsumerGroup(j, 0)
    /\ LET from == offsets[group]
       IN /\ tpos' = IF from = -1 THEN Len(log) ELSE from
          /\ due' = IF from = -1 THEN {} ELSE due
    /\ UNCHANGED <<log, offsets, proc, group, apos, cache, work, conn, registry, mishaps, got>>

\* A lost session: the reader joins again, from what it committed.
Rejoin ==
    /\ Mishap
    /\ proc.at = "up"
    /\ tpos # -1
    /\ work.at = "fetch"
    /\ tpos' = -1
    /\ UNCHANGED <<log, offsets, proc, group, apos, cache, work, conn, registry, history>>

runTransferEventsConsumer ==
    /\ proc.at = "up"
    /\ tpos \in 0 .. Len(log) - 1
    /\ work.at = "fetch"
    /\ tpos' = tpos + 1
    /\ work' = [work EXCEPT !.at = "route", !.parties = Parties(log[tpos + 1])]
    /\ UNCHANGED <<log, offsets, proc, group, apos, cache, conn, registry, mishaps, history>>

\* The next party is resolved: from the cache, else (no entry, or one older
\* than its ttl) by accounts-svc, whose answer the cache keeps.  A party that
\* does not resolve gets no signal.
resolve ==
    LET a == work.parties[1]
        Found(u) == work' = [work EXCEPT !.parties = Tail(@),
                                         !.signals = @ \o signalsFor(Current, u)]
    IN /\ Alive
       /\ work.parties # <<>>
       /\ \/ /\ cache[a] # None
             /\ Found(cache[a])
             /\ UNCHANGED <<cache, mishaps, due>>
          \/ /\ Found(Owner[a])
             /\ cache' = [cache EXCEPT ![a] = Owner[a]]
             /\ UNCHANGED <<mishaps, due>>
          \/ /\ Mishap
             /\ Found(None)
             /\ due' = {d \in due : ~ /\ conn[d[1]].user = Owner[a]
                                      /\ d[2] = tpos}
             /\ UNCHANGED cache
       /\ UNCHANGED <<log, offsets, proc, reader, conn, registry, got>>

\* The next signal once every party is resolved: send takes the sockets that
\* are registered for the user right now, often none.
send ==
    /\ Alive
    /\ work.at = "route"
    /\ work.parties = <<>>
    /\ work.signals # <<>>
    /\ LET conns == registry[work.signals[1][1]]
       IN work' = [work EXCEPT !.at = IF conns = {} THEN "route" ELSE "write",
                               !.signals = Tail(@),
                               !.snapshot = conns]
    /\ UNCHANGED <<log, offsets, proc, reader, cache, conn, registry, mishaps, history>>

\* One write, after the lock was released.  A live peer receives the frame; a
\* vanished one may have it buffered, or time out, which closes the socket.
write ==
    /\ Alive
    /\ work.at = "write"
    /\ \E c \in work.snapshot :
         /\ work' = [work EXCEPT !.at = IF work.snapshot = {c} THEN "route" ELSE @,
                                 !.snapshot = @ \ {c}]
         /\ \/ /\ conn[c].sock = "open"
               /\ got' = got \cup {<<c, tpos>>}
               /\ UNCHANGED conn
            \/ /\ conn[c].sock = "vanished"
               /\ \E s \in {"vanished", "shut"} : conn' = [conn EXCEPT ![c].sock = s]
               /\ UNCHANGED got
            \/ /\ conn[c].sock = "shut"
               /\ UNCHANGED <<conn, got>>
    /\ UNCHANGED <<log, offsets, proc, reader, cache, registry, mishaps, due>>

\* The offset is committed whatever became of the signals.
commit ==
    /\ Alive
    /\ work.at = "route"
    /\ work.parties = <<>>
    /\ work.signals = <<>>
    /\ work' = NoWork
    /\ \/ offsets' = [offsets EXCEPT ![group] = tpos] /\ UNCHANGED mishaps
       \/ Mishap /\ UNCHANGED offsets
    /\ UNCHANGED <<log, proc, reader, cache, conn, registry, history>>

-----------------------------------------------------------------------------
(***************************************************************************)
(* Processes and producers.                                                *)
(***************************************************************************)
\* SIGTERM cancels the fetch and the shutdown contexts.
Shutdown ==
    /\ Mishap
    /\ proc.at = "up"
    /\ proc' = [proc EXCEPT !.at = "draining"]
    /\ UNCHANGED <<log, offsets, reader, cache, work, conn, registry, history>>

\* The process ends, drained or not, and its memory and sockets with it.
Exit ==
    /\ \/ proc.at = "up" /\ Mishap
       \/ proc.at = "draining" /\ UNCHANGED mishaps
    /\ proc' = [proc EXCEPT !.at = "down"]
    /\ cache' = newAccountCache
    /\ registry' = newWSRegistry
    /\ work' = NoWork
    /\ conn' = [c \in Conns |-> IF conn[c].at # "idle"
                                THEN [conn[c] EXCEPT !.at = "done", !.sock = "shut"]
                                ELSE conn[c]]
    /\ apos' = 0
    /\ tpos' = -1
    /\ UNCHANGED <<log, offsets, group, history>>

startKafkaConsumers ==
    /\ proc.at = "down"
    /\ LET boot == proc.boots + 1
       IN /\ proc' = [at |-> "up", boots |-> boot]
          /\ group' = newInstanceConsumerGroup(Self, boot)
    /\ UNCHANGED <<log, offsets, apos, tpos, cache, work, conn, registry, mishaps, history>>

\* The users an event concerns: who paid, who was paid, whose deposit it is.
Concerns(m) ==
    CASE m.type = "TransferCompleted" -> {Owner[m.from], Owner[m.to]}
      [] m.type \in {"TransferFailed", "TransferRejected", "DepositCredited"} ->
           {Owner[m.from]}
      [] OTHER -> {}

\* transfers-svc's relay publishes an event.
PublishEvent ==
    /\ Len(log) < MaxMessages
    /\ \E m \in TransferEvents :
         /\ log' = Append(log, m)
         /\ due' = due \cup {<<c, Len(log) + 1>> : c \in
                       {d \in Conns : Registered(d) /\ conn[d].user \in Concerns(m)}}
    /\ UNCHANGED <<offsets, proc, reader, cache, work, conn, registry, mishaps, got>>

-----------------------------------------------------------------------------
consumer ==
    \/ resolve
    \/ send
    \/ write
    \/ commit

handler(c) == ack(c) \/ selectDone(c) \/ remove(c)

GatewayNext ==
    \/ PublishEvent
    \/ runAccountEventsConsumer
    \/ Join
    \/ Rejoin
    \/ runTransferEventsConsumer
    \/ consumer
    \/ Shutdown
    \/ Exit
    \/ startKafkaConsumers
    \/ \E c \in Conns, t \in Tokens : handleWS(c, t)
    \/ \E c \in Conns :
         \/ handler(c)
         \/ runHeartbeat(c)
         \/ PeerLeaves(c)

GatewaySpec == GatewayInit /\ [][GatewayNext]_gatewayVars

\* Goroutines are scheduled, tickers tick and the coordinator answers.  Nobody
\* promises that a client dials, stays, or that a stopped process is restarted.
GatewayFairness ==
    /\ WF_gatewayVars(Join)
    /\ WF_gatewayVars(runTransferEventsConsumer)
    /\ WF_gatewayVars(consumer)
    /\ \A c \in Conns :
         /\ WF_gatewayVars(handler(c))
         /\ WF_gatewayVars(runHeartbeat(c))

GatewayFairSpec == GatewaySpec /\ GatewayFairness

-----------------------------------------------------------------------------
(***************************************************************************)
(* Properties.                                                             *)
(***************************************************************************)

\* A frame only ever reaches a socket that proved to belong to a user the event
\* concerns; the recipient of a transfer that moved nothing hears nothing
\* (signalsForTransferEvent, "must never regress").
OnlyParties ==
    \A g \in got : conn[g[1]].user \in Concerns(log[g[2]])

\* A socket whose peer is gone leaves the registry, pong or no pong, so it does
\* not hold one of its user's slots forever (runHeartbeat's comment).
DeadPeersReaped ==
    \A c \in Conns :
      (Registered(c) /\ conn[c].sock # "open") ~> ~Registered(c)

\* A socket that is registered when an event of its user is published is written
\* a signal of it while it stays up, whatever other instances read, unless the
\* account cannot be resolved or the reader first joins after the event
\* (newInstanceConsumerGroup: "every instance must see every event").
SignalsArrive ==
    \A c \in Conns, k \in 1 .. MaxMessages :
      (<<c, k>> \in due) ~> \/ <<c, k>> \in got
                            \/ <<c, k>> \notin due
                            \/ conn[c].sock # "open"
                            \/ proc.at # "up"
=============================================================================

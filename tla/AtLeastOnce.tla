---------------------------- MODULE AtLeastOnce ----------------------------
(***************************************************************************)
(* What notifications-svc promises about the events of transfer.events,    *)
(* without saying how: while an event is open its parties may be mailed,   *)
(* again if need be; once it is closed nobody is.  "sent" needs a mail,    *)
(* "skipped" is a decision to send no more, "passed" is an event the       *)
(* consumer group left behind.                                             *)
(***************************************************************************)
EXTENDS Naturals

CONSTANTS
    Parties,     \* who can be mailed
    MaxEvents    \* bound: events published

VARIABLES
    published,   \* how many events exist
    mailed,      \* who got a mail about an event, at least once
    outcome      \* how the event was closed

abstract == <<published, mailed, outcome>>

Outcomes == {"open", "sent", "skipped", "passed"}

AbstractInit ==
    /\ published \in 0 .. MaxEvents
    /\ mailed = [i \in 1 .. MaxEvents |-> {}]
    /\ outcome = [i \in 1 .. MaxEvents |-> IF i <= published THEN "passed" ELSE "open"]

Publish ==
    /\ published < MaxEvents
    /\ published' = published + 1
    /\ UNCHANGED <<mailed, outcome>>

Mail(i, p) ==
    /\ i <= published
    /\ outcome[i] = "open"
    /\ mailed' = [mailed EXCEPT ![i] = @ \cup {p}]
    /\ UNCHANGED <<published, outcome>>

Close(i, how) ==
    /\ i <= published
    /\ outcome[i] = "open"
    /\ how = "sent" => mailed[i] # {}
    /\ outcome' = [outcome EXCEPT ![i] = how]
    /\ UNCHANGED <<published, mailed>>

\* An event that was mailed is redelivered, and dead-lettered this time.
Bury(i) ==
    /\ i <= published
    /\ outcome[i] = "sent"
    /\ outcome' = [outcome EXCEPT ![i] = "skipped"]
    /\ UNCHANGED <<published, mailed>>

\* The group's position moves past several open events at once.
Pass(n) ==
    /\ n <= published
    /\ outcome' = [i \in 1 .. MaxEvents |->
                     IF i <= n /\ outcome[i] = "open" THEN "passed" ELSE outcome[i]]
    /\ UNCHANGED <<published, mailed>>

AbstractNext ==
    \/ Publish
    \/ \E i \in 1 .. MaxEvents :
         \/ \E p \in Parties : Mail(i, p)
         \/ \E how \in {"sent", "skipped"} : Close(i, how)
         \/ Bury(i)
         \/ Pass(i)

AbstractSpec == AbstractInit /\ [][AbstractNext]_abstract
=============================================================================

----------------------------- MODULE MCDeposits -----------------------------
(* Small instances of Deposits for TLC. *)
EXTENDS Deposits, TLC

\* Account 1 is genesis; account 2 the user's.
MCOwner == [d \in Deposits |-> 2]

MCAmount == [d \in Deposits |-> 1]

\* Replicas are interchangeable, and so are webhook deliveries.
MCSymmetry == Permutations(Workers) \cup Permutations(Webhooks)
=============================================================================

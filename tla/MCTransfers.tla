---------------------------- MODULE MCTransfers -----------------------------
(* Small instances of Transfers for TLC. *)
EXTENDS Transfers, TLC

\* Account 2 can pay one of the two transfers of its keys, not both.
MCOpening == [a \in Accounts |-> IF a = 1 THEN 0 - 2 ELSE IF a = 2 THEN 2 ELSE 0]

Body(k, sender, recipient, amount) ==
    [key |-> k, sender |-> sender, recipient |-> recipient, amount |-> amount]

CONSTANTS k1, k2

\* One request, a second transfer that competes for the balance, and the same
\* key with another recipient, whose ledger account is not provisioned yet.
MCRequests ==
    {Body(k1, 2, 3, 2), Body(k2, 2, 3, 1), Body(k2, 2, 4, 1)}

\* One transfer only, retried.
MCOneTransfer == {Body(k1, 2, 3, 2)}

\* Handlers are interchangeable, and so are reconcilers.
MCSymmetry == Permutations(Handlers) \cup Permutations(Reconcilers)
=============================================================================

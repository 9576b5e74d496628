----------------------------- MODULE MCGateway -----------------------------
(***************************************************************************)
(* One instance beside another, two users with an account each, and dials  *)
(* enough for a user to reach the cap.                                     *)
(***************************************************************************)
EXTENDS Gateway

CONSTANTS ann, ben

MCOwner == [a1 |-> ann, a2 |-> ben]

MCAccountLog == << "a1" >>     \* the other account is only known to accounts-svc

E(type, from, to) == [type |-> type, from |-> from, to |-> to]

MCTransferEvents ==
    {E("TransferCompleted", "a1", "a2"),
     E("TransferRejected", "a1", "a2")}
=============================================================================

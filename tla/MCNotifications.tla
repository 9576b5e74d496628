--------------------------- MODULE MCNotifications ---------------------------
(***************************************************************************)
(* One user the projection knows and one that it still has to learn of;    *)
(* one old transfer event, and new ones of every shape the consumer tells  *)
(* apart.  The transfer consumer alone, with both users known, leaves room *)
(* for several faults.                                                     *)
(***************************************************************************)
EXTENDS Notifications

CONSTANTS ann, ben

M(type, from, to, corrupt) == [type |-> type, from |-> from, to |-> to, corrupt |-> corrupt]

MCTransfers ==
    {M("TransferCompleted", ann, ben, FALSE),
     M("DepositCredited", ann, None, TRUE),
     M("", None, None, FALSE)}

MCMaxLog == [user |-> 2, account |-> 1, transfer |-> 2]

MCMaxLogTransfers == [user |-> 0, account |-> 0, transfer |-> 2]

MCPublished == << M("TransferFailed", ann, None, FALSE) >>
=============================================================================

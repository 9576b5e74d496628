----------------------------- MODULE MCStartup -----------------------------
(***************************************************************************)
(* Two processes: two of one service on one schema, or of two services.    *)
(***************************************************************************)
EXTENDS Startup, TLC

CONSTANTS p, q

Runs(a, b) == (p :> a) @@ (q :> b)

MCDeployments ==
    {Runs("accounts", "accounts"), Runs("accounts", "ledger"),
     Runs("transfers", "transfers"), Runs("notifications", "auth"), Runs("fraud", "fraud")}

MCTarget == [s \in Services |-> IF s = "fraud" THEN 1 ELSE 2]

MCDeployed == [s \in Services |-> IF s \in {"accounts", "transfers"} THEN 1 ELSE 0]
=============================================================================

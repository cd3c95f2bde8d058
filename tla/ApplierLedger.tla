---------------------------- MODULE ApplierLedger ----------------------------
(* Applier implements Ledger: the refinement mapping. *)
EXTENDS Applier

\* What the server performed on behalf of applies, over all runs.
PerformedSteps ==
    UNION {{<<p, i>> : i \in {j \in Index(p) : Landed(p, j)}} : p \in Plan}

L == INSTANCE Ledger WITH
        landed <- PerformedSteps,
        Part <- [p \in Plan |-> [n \in Namespace |-> StepsIn(p, n)]]

\* Every step of the applier is a step of the ledger, or none: concurrent runs,
\* lost answers, crashes and deletions included, the annotation is a seal over
\* completed work.
ImplementsLedger == L!LedgerSpec
=============================================================================

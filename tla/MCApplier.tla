------------------------------ MODULE MCApplier ------------------------------
(* Small instances of Applier: three workloads in two namespaces. *)
EXTENDS ApplierLedger, SequencesExt

CONSTANTS r1, r2, r3, r4, w1, w2, w3, n1, n2, c1, c2

MCNsOf == w1 :> n1 @@ w2 :> n1 @@ w3 :> n2

Set(w, c)  == [target |-> w, class |-> c, supported |-> TRUE]
Other(w, c) == [target |-> w, class |-> c, supported |-> FALSE]

\* "p" spans both namespaces, with n1 split around n2; "q" is a later plan for
\* one workload of "p"; "b" has a step whose kind has no patch and a step
\* without a class.
AllPlans == [
    p |-> <<Set(w1, c1), Set(w3, c1), Set(w2, c1)>>,
    q |-> <<Set(w1, c2)>>,
    b |-> <<Set(w1, c2), Other(w2, c2), Set(w3, NoClass)>>]
AllHashes == [p |-> "hash-p", q |-> "hash-q", b |-> "hash-b"]

MCSteps == [p \in Plan |-> AllPlans[p]]
MCHash  == [p \in Plan |-> AllHashes[p]]
MCStamp == Range(MCHash)

Symmetry == Permutations({r1, r2, r3, r4} \cap Run)
=============================================================================

------------------------------ MODULE MCSession ------------------------------
(* Scripts of one plan over three workloads in two namespaces. *)
EXTENDS Session

CONSTANTS w1, w2, w3, n1, n2, c1

MCNsOf == [w \in {w1, w2, w3} |-> IF w = w3 THEN n2 ELSE n1]
Set(w) == [target |-> w, class |-> c1, supported |-> TRUE]
MCSteps == [p |-> <<Set(w1), Set(w3), Set(w2)>>]
MCHash  == [p |-> "hash-p"]

\* The script is of the kind the theorem about exit code 0 is for.
ASSUME CycleFits == ScriptFits /\ AppliesFirst /\ OneStepEach

Cycle == <<"apply", "apply", "apply", "rollback", "rollback", "rollback">>
=============================================================================

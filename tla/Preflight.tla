------------------------------ MODULE Preflight ------------------------------
(***************************************************************************)
(* pkg/preflight: the facts collected from one RuntimeClass and the node    *)
(* list, and the findings derived from them.  Pure operators; Gate runs them*)
(* against a cluster that changes.  Collect keeps COUNTS of nodes, one per  *)
(* obstacle, and Evaluate reads the counts only: which obstacles fall on the*)
(* same node is forgotten in between.                                       *)
(*                                                                          *)
(* A node is [ready, labels, taints, os]: whether its Ready condition is    *)
(* True, its labels as a set of key=value pairs, its taints, and the image. *)
(* A RuntimeClass is [selector, tolerations, overhead].                     *)
(***************************************************************************)
EXTENDS Naturals, FiniteSets

CONSTANTS
    NoRuntimeClass, \* the RuntimeClass asked for does not exist
    AutoLabel       \* the pair eks.amazonaws.com/compute-type=auto

\* tolerates: an empty effect or key on the toleration matches any taint.
Tolerates(t, taint) ==
    /\ t.effect \in {"", taint.effect}
    /\ t.key \in {"", taint.key}
    /\ \/ t.operator \in {"", "Equal"} /\ t.value = taint.value
       \/ t.operator = "Exists"

\* taintedWithoutToleration: PreferNoSchedule only lowers the priority.
EveryEffect(taint) == TRUE \* mutant: PreferNoSchedule counts as well
Hard(taint) == taint.effect \in {"NoSchedule", "NoExecute"}
Tainted(node, tolerations) ==
    \E taint \in node.taints :
        Hard(taint) /\ \A t \in tolerations : ~Tolerates(t, taint)

\* MatchesRuntimeClass: nothing matches without a selector.
Matches(rc, node) == /\ rc # NoRuntimeClass
                     /\ rc.selector # {}
                     /\ rc.selector \subseteq node.labels

IsAuto(node) == AutoLabel \in node.labels
\* Auto Mode nodes run Bottlerocket too and are counted once, as Auto Mode.
IsBottlerocket(node) == ~IsAuto(node) /\ node.os = "Bottlerocket"

\* Collect: nodes is a function from node names to nodes.
Collect(rc, nodes) ==
    LET All == DOMAIN nodes
        M == {n \in All : Matches(rc, nodes[n])}
        tolerations == IF rc = NoRuntimeClass THEN {} ELSE rc.tolerations
    IN  [found |-> rc # NoRuntimeClass,
         selector |-> rc # NoRuntimeClass /\ rc.selector # {},
         overhead |-> rc # NoRuntimeClass /\ rc.overhead,
         total |-> Cardinality(All),
         matching |-> Cardinality(M),
         matchingReady |-> Cardinality({n \in M : nodes[n].ready}),
         matchingTainted |-> Cardinality({n \in M : Tainted(nodes[n], tolerations)}),
         auto |-> Cardinality({n \in All : IsAuto(nodes[n])}),
         matchingAuto |-> Cardinality({n \in M : IsAuto(nodes[n])}),
         bottlerocket |-> Cardinality({n \in All : IsBottlerocket(nodes[n])}),
         matchingBottlerocket |-> Cardinality({n \in M : IsBottlerocket(nodes[n])})]

Finding(id, severity) == [id |-> id, severity |-> severity]

\* The first obstacle between the RuntimeClass and a Ready node, if any.
RuntimeClassFindings(f) ==
    (IF ~f.found THEN {Finding("runtimeclass-missing", "error")}
     ELSE IF ~f.selector
       THEN {Finding("runtimeclass-no-node-selector", "error")}
     ELSE IF f.matching = 0
       THEN {Finding("runtimeclass-no-matching-nodes", "error")}
     ELSE IF f.matchingReady = 0
       THEN {Finding("runtimeclass-no-ready-matching-nodes", "error")}
     ELSE {})
    \cup (IF f.found /\ ~f.overhead
            THEN {Finding("runtimeclass-no-overhead", "info")} ELSE {})

\* mutant: strictly more affected nodes than candidates
NeverAll(affected, candidates) ==
    IF affected > candidates THEN "error" ELSE "warn"
\* Nothing can schedule when every candidate is affected.
AllOrSome(affected, candidates) ==
    IF affected >= candidates THEN "error" ELSE "warn"

TaintFindings(f) ==
    IF f.matching = 0 \/ f.matchingTainted = 0 THEN {}
    ELSE {Finding("runtimeclass-taint-without-toleration",
                  IF f.matchingTainted = f.matching THEN "error" ELSE "warn")}

\* Nodes that can never run runsc.  The candidates are the matching nodes, or
\* the whole cluster when none matches.
PlatformFindings(f) ==
    LET candidates == IF f.matching = 0 THEN f.total ELSE f.matching
        auto   == IF f.matching = 0 THEN f.auto ELSE f.matchingAuto
        bottle == IF f.matching = 0 THEN f.bottlerocket
                                    ELSE f.matchingBottlerocket
    IN  (IF candidates > 0 /\ auto > 0
           THEN {Finding("eks-auto-mode-nodes", AllOrSome(auto, candidates))}
           ELSE {})
        \cup
        (IF candidates > 0 /\ bottle > 0
           THEN {Finding("bottlerocket-nodes", AllOrSome(bottle, candidates))}
           ELSE {})

\* GPU findings stop at "warn" and are left out: they never block.
Evaluate(f) ==
    RuntimeClassFindings(f) \cup TaintFindings(f) \cup PlatformFindings(f)

IsBlocking(findings) == \E x \in findings : x.severity = "error"
=============================================================================

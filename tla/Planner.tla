-------------------------------- MODULE Planner --------------------------------
(***************************************************************************)
(* pkg/planner: a scan report becomes an ordered plan.  Pure operators.     *)
(*                                                                          *)
(* A workload is a natural number: its place in the order by namespace, kind*)
(* and name, in which reports are sorted and ties are broken.  The rows of  *)
(* a report map <<w, n>>, the n-th row about workload w, to its verdict     *)
(* (module Classifier): sorted, and a workload may have several.            *)
(***************************************************************************)
EXTENDS Naturals, FiniteSets

CONSTANTS
    Workload,  \* places in the order by namespace, kind and name
    KindOf     \* the kind of each

Kinds == <<"Deployment", "StatefulSet", "DaemonSet", "CronJob", "Job", "Pod">>

ASSUME PlannerAssumption ==
    /\ Workload \subseteq Nat /\ IsFiniteSet(Workload)
    /\ KindOf \in [Workload -> {Kinds[k] : k \in DOMAIN Kinds}]

\* kindMigrationBlocker: the API rejects the patch of a Pod or of a Job.
PatchableInPlace(kind) == kind \notin {"Pod", "Job"}

\* mutant: --include-review is not looked at
ReviewIncluded(rows, options) ==
    {r \in DOMAIN rows :
        rows[r].compatibility # "incompatible" /\ PatchableInPlace(KindOf[r[1]])}
\* The partition; options are [includeReview, class, toleration].
Included(rows, options) ==
    {r \in DOMAIN rows :
        /\ \/ rows[r].compatibility = "compatible"
           \/ rows[r].compatibility = "review" /\ options.includeReview
        /\ PatchableInPlace(KindOf[r[1]])}
Excluded(rows, options) == DOMAIN rows \ Included(rows, options)

KindRiskWeight(kind) ==
    CASE kind \in {"Deployment", "Job", "CronJob"} -> 0
      [] kind = "DaemonSet" -> 3 [] kind = "StatefulSet" -> 5
      [] OTHER -> 1
\* mutant: two warnings until there is a weight
TwoWarnings(n) == IF n >= 2 THEN 3 ELSE 0
WarnWeight(n) == IF n >= 2 THEN 3 ELSE IF n = 1 THEN 2 ELSE 0
InfoWeight(reasons, rule) ==
    IF rule \notin DOMAIN reasons \/ reasons[rule] # "info" THEN 0
    ELSE IF rule = "network-throughput" THEN 2 ELSE 1
Score(kind, reasons) ==
    KindRiskWeight(kind)
    + WarnWeight(Cardinality({r \in DOMAIN reasons : reasons[r] = "warn"}))
    + InfoWeight(reasons, "network-throughput")
    + InfoWeight(reasons, "syscall-heavy")

Risk(rows, r) == Score(KindOf[r[1]], rows[r].reasons)

\* Order: by risk, ties by place; the sort is stable.
Before(rows, q, r) ==
    \/ Risk(rows, q) < Risk(rows, r)
    \/ /\ Risk(rows, q) = Risk(rows, r)
       /\ q[1] < r[1] \/ (q[1] = r[1] /\ q[2] < r[2])
Position(rows, S, r) ==
    Cardinality({q \in S : Before(rows, q, r)}) + 1
Order(rows, S) ==
    [i \in 1..Cardinality(S) |-> CHOOSE r \in S : Position(rows, S, r) = i]

WaitForKind(kind) ==
    IF kind \in {"Deployment", "StatefulSet", "DaemonSet"} THEN "Ready"
    ELSE "Running"

Step(rows, options, r) ==
    [target |-> r[1], class |-> options.class, toleration |-> options.toleration,
     waitFor |-> WaitForKind(KindOf[r[1]]), risk |-> Risk(rows, r),
     notes |-> DOMAIN rows[r].reasons]
PlanSteps(rows, options) ==
    LET order == Order(rows, Included(rows, options))
    IN  [i \in DOMAIN order |-> Step(rows, options, order[i])]

\* SHA-256 of steps and options, taken for an injective function; whatever else
\* a plan carries is no part of it.
ComputePlanHash(steps, options) == <<steps, options>>

\* metadata is what the envelope carries: when and from which scan.
PlanOf(rows, options, metadata, warnings) ==
    LET steps == PlanSteps(rows, options) IN
    [steps |-> steps, options |-> options,
     excluded |-> Excluded(rows, options),
     hash |-> ComputePlanHash(steps, options),
     metadata |-> metadata, warnings |-> warnings]
=============================================================================

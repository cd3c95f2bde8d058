--------------------------------- MODULE Gate ---------------------------------
(***************************************************************************)
(* pkg/agentmoat.Apply in front of the applier: the preflight gate.  The    *)
(* gate reads the RuntimeClass, then the nodes, decides, and only then does *)
(* the applier send its patches, while nodes join, fail, are tainted or     *)
(* relabelled and the RuntimeClass is edited.                               *)
(***************************************************************************)
EXTENDS Preflight

CONSTANTS
    Node,           \* node names
    Shapes,         \* what a node may look like
    RuntimeClasses, \* what the RuntimeClass may look like, or NoRuntimeClass
    MaxChanges      \* changes to the cluster during one apply

ASSUME GateAssumption ==
    /\ IsFiniteSet(Node)
    /\ MaxChanges \in Nat
    /\ \A s \in Shapes : s.ready \in BOOLEAN /\ s.os \in {"AL2023", "Bottlerocket"}

\* What the API server admits: an effect of a taint is one of three, and a
\* toleration without a key has the operator Exists.
ASSUME AdmissionAssumption ==
    /\ \A s \in Shapes : \A taint \in s.taints :
          taint.effect \in {"NoSchedule", "NoExecute", "PreferNoSchedule"}
    /\ \A class \in RuntimeClasses \ {NoRuntimeClass} : \A t \in class.tolerations :
          /\ t.operator \in {"", "Equal", "Exists"}
          /\ t.key = "" => t.operator = "Exists"

\* gvisorToleration: what a plan made with --add-toleration patches into a pod.
PlanToleration ==
    [key |-> "runtime", operator |-> "Equal", value |-> "gvisor", effect |-> "NoSchedule"]

VARIABLES
    rc, nodes,              \* the cluster
    skip,                   \* --skip-preflight
    tolerating,             \* the plan was made with --add-toleration
    pc, rcSeen, nodesSeen,  \* one apply, and what it has read
    outcome,                \* how the apply ended, and each step's status
    changes,
    moments, changed        \* history, kept for the properties: the cluster from
                            \* the gate's first read to its second, and what of
                            \* it changed in between

cluster == <<rc, nodes>>
history == <<moments, changed>>
vars == <<cluster, skip, tolerating, pc, rcSeen, nodesSeen, outcome, changes, history>>

Moment == [rc |-> rc, nodes |-> nodes]

Init ==
    /\ rc \in RuntimeClasses
    /\ nodes \in [Node -> Shapes]
    /\ skip \in BOOLEAN
    /\ tolerating \in BOOLEAN
    /\ pc = "start"
    /\ rcSeen = NoRuntimeClass
    /\ nodesSeen = << >>
    /\ outcome = "none"
    /\ changes = 0
    /\ moments = {} /\ changed = {}

\* preflight.Collect's first call; a missing RuntimeClass is a fact.
GetRuntimeClass ==
    /\ pc = "start" /\ ~skip
    /\ rcSeen' = rc
    /\ pc' = "list"
    /\ moments' = {Moment}
    /\ UNCHANGED <<cluster, skip, tolerating, nodesSeen, outcome, changes, changed>>

\* Its second call: one list, hence one moment of the nodes.
ListNodes ==
    /\ pc = "list"
    /\ nodesSeen' = nodes
    /\ pc' = "decide"
    /\ UNCHANGED <<cluster, skip, tolerating, rcSeen, outcome, changes, history>>

\* Either call may fail (no RBAC on nodes, network): the apply is an error.
PreflightError ==
    /\ pc \in {"start", "list"} /\ ~skip
    /\ pc' = "end"
    /\ outcome' = "error"
    /\ UNCHANGED <<cluster, skip, tolerating, rcSeen, nodesSeen, changes, history>>

\* preflight.Run is given the name of the RuntimeClass, and nothing else of
\* the plan.
Findings == Evaluate(Collect(rcSeen, nodesSeen))

\* An error finding blocks the apply: every step is reported skipped, exit 5.
Decide ==
    /\ pc = "decide"
    /\ IF IsBlocking(Findings)
         THEN pc' = "end" /\ outcome' = "blocked"
         ELSE pc' = "apply" /\ UNCHANGED outcome
    /\ UNCHANGED <<cluster, skip, tolerating, rcSeen, nodesSeen, changes, history>>

SkipPreflight ==
    /\ pc = "start" /\ skip
    /\ pc' = "apply"
    /\ UNCHANGED <<cluster, skip, tolerating, rcSeen, nodesSeen, outcome, changes, history>>

\* applier.Apply (module Applier), here only the fact that it ran.
RunApplier ==
    /\ pc = "apply"
    /\ pc' = "end"
    /\ outcome' = "ran"
    /\ UNCHANGED <<cluster, skip, tolerating, rcSeen, nodesSeen, changes, history>>

\* Somebody changes one part of the cluster.
Change(part) ==
    /\ pc # "end"
    /\ changes < MaxChanges /\ changes' = changes + 1
    /\ IF pc = "list"
         THEN changed' = changed \cup {part} /\ moments' = moments \cup {Moment'}
         ELSE UNCHANGED history
    /\ UNCHANGED <<skip, tolerating, pc, rcSeen, nodesSeen, outcome>>

NodeChanges(n) ==
    /\ \E s \in Shapes : nodes' = [nodes EXCEPT ![n] = s]
    /\ UNCHANGED rc
    /\ Change("nodes")

RuntimeClassChanges ==
    /\ rc' \in RuntimeClasses
    /\ UNCHANGED nodes
    /\ Change("rc")

Next ==
    \/ GetRuntimeClass \/ ListNodes \/ PreflightError \/ Decide
    \/ SkipPreflight \/ RunApplier
    \/ RuntimeClassChanges \/ \E n \in Node : NodeChanges(n)

Spec == Init /\ [][Next]_vars

-----------------------------------------------------------------------------
\* What the scheduler and the kubelet would do with a migrated pod: admission
\* merges selector and tolerations into the pod, a taint other than
\* PreferNoSchedule repels the pod unless one of the pod's tolerations has its
\* effect (or none), its key (or none) and, unless Exists, its value; and
\* runsc has to be on the node.
Repels(node, tolerations) ==
    \E taint \in node.taints :
        /\ taint.effect # "PreferNoSchedule"
        /\ ~\E t \in tolerations :
              /\ t.effect = taint.effect \/ t.effect = ""
              /\ t.key = taint.key \/ (t.key = "" /\ t.operator = "Exists")
              /\ t.operator = "Exists" \/ t.value = taint.value
CanHost(class, node, tolerations) ==
    /\ Matches(class, node)
    /\ node.ready
    /\ ~Repels(node, class.tolerations \cup tolerations)
    /\ AutoLabel \notin node.labels /\ node.os # "Bottlerocket"

\* At that moment, no node could host a pod that brings these tolerations.
NoHost(m, tolerations) == \A n \in Node : ~CanHost(m.rc, m.nodes[n], tolerations)

\* The gate saw the cluster as it never was: the RuntimeClass from before a
\* change, the nodes from after another.
Torn == changed = {"rc", "nodes"}

(* Properties. *)

\* An apply is not refused for nothing: at some moment between the two reads
\* no node could host a pod of a plan that leaves placement to the
\* RuntimeClass, however the cluster changed, unless both that class and the
\* nodes changed between the reads.
BlockedRightly ==
    outcome = "blocked" /\ ~tolerating /\ ~Torn => \E m \in moments : NoHost(m, {})

\* The advice of the finding helps (docs/preflight.md:58, evaluate.go:210): an
\* apply of a plan made with --add-toleration is not refused while a node
\* could host its pods with the toleration they bring.
AdviceHelps ==
    outcome = "blocked" /\ tolerating /\ ~Torn =>
      \E m \in moments : NoHost(m, {PlanToleration})

\* An apply is refused whenever a single cause rules out every node the
\* RuntimeClass selects, however the counts came about, and whenever it
\* selects none: what runs was free of each at a moment between the two reads,
\* unless both parts changed in between. Only --skip-preflight gets past that.
SingleCauseBlocks ==
    outcome = "ran" /\ ~skip /\ ~Torn =>
      \E m \in moments :
        LET S == {n \in Node : Matches(m.rc, m.nodes[n])} IN
        /\ \E n \in S : m.nodes[n].ready
        /\ \E n \in S : ~Repels(m.nodes[n], m.rc.tolerations)
        /\ \E n \in S : ~IsAuto(m.nodes[n])
        /\ \E n \in S : ~IsBottlerocket(m.nodes[n])
=============================================================================

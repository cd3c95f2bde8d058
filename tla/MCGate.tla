-------------------------------- MODULE MCGate --------------------------------
(* Two nodes over the labels, taints and images that the findings tell apart. *)
EXTENDS Gate, TLC

GvisorTaint == [key |-> "runtime", value |-> "gvisor", effect |-> "NoSchedule"]
BatchTaint  == [key |-> "batch", value |-> "yes", effect |-> "NoExecute"]
SoftTaint   == [key |-> "batch", value |-> "yes", effect |-> "PreferNoSchedule"]
\* Put on a node that is not ready by the node lifecycle controller.
DownTaint   == [key |-> "not-ready", value |-> "", effect |-> "NoSchedule"]

Toleration(k, op, v, e) == [key |-> k, operator |-> op, value |-> v, effect |-> e]
Gvisor   == Toleration("runtime", "Equal", "gvisor", "NoSchedule")
AnyBatch == Toleration("batch", "Exists", "", "")

Shape(ready, labels, taints, os) ==
    [ready |-> ready, labels |-> labels, taints |-> taints, os |-> os]
\* Nodes the RuntimeClass selects: ready or not, under each kind of taint,
\* Auto Mode (which runs Bottlerocket) and Bottlerocket; and some it does not.
MCShapes ==
    LET selected == {"runtime=gvisor"} IN
    {Shape(TRUE, selected, t, "AL2023") :
        t \in {{}, {GvisorTaint}, {BatchTaint}, {SoftTaint}, {GvisorTaint, BatchTaint}}}
    \cup {Shape(TRUE, selected, {}, "Bottlerocket"),
          Shape(TRUE, selected \cup {"auto"}, {GvisorTaint}, "Bottlerocket"),
          Shape(FALSE, selected, {DownTaint}, "AL2023"),
          Shape(TRUE, {}, {}, "AL2023"),
          Shape(TRUE, {"auto"}, {}, "Bottlerocket")}
\* Nodes that can run runsc, and no taint but the one the advice is about.
AdviceShapes == {s \in MCShapes : /\ s.ready /\ s.os = "AL2023"
                                  /\ s.taints \subseteq {GvisorTaint}}

RC(sel, tol) == [selector |-> sel, tolerations |-> tol, overhead |-> FALSE]
MCRuntimeClasses ==
    {NoRuntimeClass, RC({}, {}), RC({"runtime=gvisor"}, {}),
     RC({"runtime=gvisor"}, {Gvisor}), RC({"runtime=gvisor"}, {AnyBatch})}

\* The nodes are interchangeable.
NodeSymmetry == Permutations(Node)
=============================================================================

-------------------------------- MODULE MCScan --------------------------------
(* Nine workloads: a cron job with a job and its pod, a deployment with a pod, a *)
(* pod of its own; in a second namespace a deployment and a stateful set; and a *)
(* system daemon.  The natural 99 is a controller that no list shows. *)
EXTENDS Scan

MCKindOf == <<"CronJob", "Deployment", "Job", "Pod", "Pod", "Pod",
              "Deployment", "StatefulSet", "DaemonSet">>
MCNamespaceOf == <<"a", "a", "a", "a", "a", "a", "b", "b", "kube-system">>

(* Pod specs: one that suits gVisor, and one for each reason why one may not. *)
Container == [init |-> FALSE, privileged |-> FALSE, caps |-> {}, gpu |-> {},
              env |-> {}, runs |-> "image", image |-> {}]
One(c) == [host |-> {}, volumes |-> {}, containers |-> {c}]
Plain == One(Container)
GpuPod == One([Container EXCEPT !.gpu = {"gpu"}])
MigPod == One([Container EXCEPT !.gpu = {"mig"}])
Redis == One([Container EXCEPT !.image = {"redis"}])
Systemd == One([Container EXCEPT !.image = {"ubi-init"}])

\* Two for each cluster.
Specs == <<
    Plain, GpuPod, MigPod, Redis, Systemd,
    One([Container EXCEPT !.runs = "command: init"]),
    One([Container EXCEPT !.privileged = TRUE, !.init = TRUE]),
    One([Container EXCEPT !.image = {"nginx", "cilium"}]),
    One([Container EXCEPT !.image = {"nginx", "redis"}]),
    One([Container EXCEPT !.env = {"uses-fuse"}]),
    One([Container EXCEPT !.caps = {"SYS_ADMIN"}, !.image = {"ubi-init"}]),
    One([Container EXCEPT !.caps = {"NET_RAW"}]),
    One([Container EXCEPT !.caps = {"BPF"}, !.image = {"other cilium"}]),
    One([Container EXCEPT !.caps = {"PERFMON", "net_raw"}]),
    [Plain EXCEPT !.host = {"network"}],
    [Plain EXCEPT !.host = {"pid"}],
    [Plain EXCEPT !.host = {"ipc"}],
    [Plain EXCEPT !.volumes = {"hostPath"}],
    [Plain EXCEPT !.volumes = {"hostPath: /dev/kvm"}],
    [Plain EXCEPT !.volumes = {"csi: fuse"}],
    GpuPod,
    [Plain EXCEPT !.containers = {[Container EXCEPT !.runs = "command"],
                        [Container EXCEPT !.init = TRUE, !.runs = "args: init"]}]>>

Object(spec, owners) ==
    [spec |-> spec, annotations |-> {}, owners |-> owners, selected |-> TRUE]
Owner(kind_, id) == {[kind |-> kind_, controller |-> TRUE, id |-> id]}
Marked(a) == [Object(Plain, {}) EXCEPT !.annotations = {a}]
Unselected(object) == [object EXCEPT !.selected = FALSE]

Base == <<Object(Plain, {}), Object(Plain, {}), Object(Plain, Owner("CronJob", 1)),
          Object(Plain, Owner("Job", 3)), Object(Plain, Owner("ReplicaSet", 2)),
          Object(Plain, {}), Object(Plain, {}), Object(Plain, {}),
          Object([Plain EXCEPT !.host = {"network"}], {})>>

\* The two deployments with every spec; the jobs and pods with
\* other owners, among them a job of a controller that the scan does not know
\* and a ReplicaSet of nobody.
Workloads ==
    {[Base EXCEPT ![2] = Object(Specs[2 * k - 1], {}),
                  ![7] = Object(Specs[2 * k], {})] : k \in 1..Len(Specs) \div 2}
    \cup {[Base EXCEPT ![2] = Marked(a), ![7] = Object(Redis, {})] :
            a \in {"needs-raw-socket", "uses-iouring", "runs-systemd"}}
    \cup {[Base EXCEPT ![2] = Object(GpuPod, {}), ![9] = Object(Redis, {}),
                       ![3] = Object(Plain, Owner("Workflow", 99)),
                       ![5] = Object(Plain, Owner("ReplicaSet", 99))],
          [Base EXCEPT ![1] = Unselected(Base[1]), ![3] = Unselected(Base[3]),
                       ![6] = Unselected(Base[6]), ![9] = Object(Plain, {})]}

\* A pod may cease to be controlled by the deployment, and another may come.
MCShapesOf == <<
    {Absent, Base[1]},
    {Absent, Base[2], Object(Redis, {})},
    {Absent, Base[3], Object(Plain, {})},
    {Absent, Base[4], Object(Plain, {})},
    {Absent, [Base[5] EXCEPT !.owners = {[kind |-> "ReplicaSet", controller |-> FALSE, id |-> 2]}]},
    {Absent, Object(Plain, Owner("ReplicaSet", 2))},
    {Object(GpuPod, {})},
    {Object(Redis, {})},
    {Absent}>>

(* Nodes that the RuntimeClass selects, or not, with GPUs or without. *)
NoGpu == [capacity |-> FALSE, product |-> "", driver |-> "", mig |-> ""]
Shape(labels, gpu) ==
    [ready |-> TRUE, labels |-> labels, taints |-> {}, os |-> "AL2023", gpu |-> gpu]
Selected == {"runtime=gvisor"}
T4(driver) == [capacity |-> TRUE, product |-> "T4", driver |-> driver, mig |-> "none"]
A100Mig == [capacity |-> TRUE, product |-> "A100", driver |-> "535", mig |-> "single"]
P4 == [capacity |-> TRUE, product |-> "P4", driver |-> "535", mig |-> ""]
NoLabels == [NoGpu EXCEPT !.capacity = TRUE]
MCShapes == {Shape(Selected, T4("535")), Shape(Selected, P4), Shape({}, NoGpu)}
Both(s, t) == [n \in Node |-> IF n = "g" THEN s ELSE t]
T4OrP4 == Both(Shape(Selected, T4("535")), Shape({}, P4))

MCRuntimeClass == [selector |-> Selected, tolerations |-> {}, overhead |-> TRUE]
MCRuntimeClasses == {MCRuntimeClass, NoRuntimeClass}
MCInitClusters ==
    {[objects |-> ws, rc |-> MCRuntimeClass, nodes |-> T4OrP4] : ws \in Workloads}

Probe(date) == [drivers |-> {"535"},
                runsc |-> [release |-> date # 0, date |-> date, point |-> 0]]
Saved(ns, probe, runsc, class) ==
    [counts |-> Collect(MCRuntimeClass, ns), probe |-> probe, runsc |-> runsc,
     gpu |-> CollectGPU(MCRuntimeClass, ns, probe), class |-> class]
\* Facts whose cards were supported by the release that wrote them, or by hand.
Outdated(f) == [f EXCEPT !.gpu = {[g EXCEPT !.product = "supported"] : g \in @}]
\* Reports of a probe, of a preflight, of an old probe: every row of the table.
MCSavedFacts ==
    {Saved(ns, Probe(20260914), Probe(20260914).runsc, "gvisor") :
        ns \in {T4OrP4,
                Both(Shape(Selected, T4("535")), Shape(Selected, T4("470"))),
                Both(Shape(Selected, T4("470")), Shape(Selected, A100Mig)),
                Both(Shape({}, NoLabels), Shape({}, NoGpu))}}
    \cup {Saved(Both(Shape(Selected, T4("535")), Shape({}, NoGpu)),
                Probe(20260701), NoRunsc, "gvisor"),
          Saved(Both(Shape({}, NoGpu), Shape({}, NoGpu)),
                NotProbed, Probe(0).runsc, "kata"),
          Outdated(Saved(Both(Shape(Selected, P4), Shape({}, NoGpu)),
                         Probe(20260914), NoRunsc, "gvisor"))}
MCLaterFacts == {Saved(Both(Shape(Selected, T4("535")), Shape({}, NoGpu)),
                       Probe(20260914), NoRunsc, "gvisor")}

Call(namespaces, selector, source, rules) ==
    [command |-> "scan", targets |-> {}, namespaces |-> namespaces, includeSystem |-> FALSE,
     selector |-> selector, facts |-> source, rules |-> rules, class |-> "gvisor"]
Rules == <<[id |-> "host-path-mount", severity |-> "info"],
           [id |-> "no-such-rule", severity |-> "error"],
           [id |-> "redis", severity |-> "high"],
           [id |-> "network-throughput", severity |-> "warn"],
           [id |-> "perf-events", severity |-> "error"]>>
MCInvocations ==
    {Call(<< >>, FALSE, "live", << >>), Call(<<"b", "a">>, TRUE, "skip", << >>),
     Call(<< >>, FALSE, "file", << >>), Call(<<"b", "b">>, FALSE, "skip", << >>),
     [Call(<< >>, FALSE, "file", Rules) EXCEPT !.includeSystem = TRUE],
     [Call(<< >>, FALSE, "file", << >>) EXCEPT !.command = "assess", !.targets = {5}],
     [Call(<<"a">>, FALSE, "live", << >>) EXCEPT !.command = "explain"],
     [Call(<<"b">>, FALSE, "file", Rules) EXCEPT !.command = "explain",
                                                 !.targets = {7, 8}]}

Wanted(review, toleration) ==
    [includeReview |-> review, class |-> "gvisor", toleration |-> toleration]
MCPlanOptions == {Wanted(FALSE, FALSE), Wanted(TRUE, FALSE)}
=============================================================================

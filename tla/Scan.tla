--------------------------------- MODULE Scan ---------------------------------
(***************************************************************************)
(* pkg/agentmoat Scan and Plan over pkg/scanner: workloads are listed kind  *)
(* by kind, scope by scope and page by page, the cluster facts are read or  *)
(* loaded, every workload is classified, and a plan is made of the report,  *)
(* while workloads and nodes come, go and change.  The API server serves the*)
(* pages of one list from one moment, or refuses a stale continue token.    *)
(*                                                                          *)
(* A workload object is Absent or [spec, annotations, owners, selected]:    *)
(* owners are [kind, controller, id], id being the controller the object    *)
(* descends from, directly or by a ReplicaSet; selected says whether its    *)
(* labels match the selector.                                               *)
(***************************************************************************)
EXTENDS Explainer, Planner

CONSTANTS
    NamespaceOf,      \* the namespace of each workload
    SystemNamespaces, \* the reserved ones and those called kube-*
    PageSize,         \* the Limit of a list call
    Absent,           \* no such object
    ShapesOf,         \* what each object may become, Absent included
    Node, Shapes,     \* node names, and what a node may become
    RuntimeClasses,   \* what the RuntimeClass may look like
    InitClusters,     \* the clusters to start from: [objects, rc, nodes]
    SavedFacts,       \* the facts of the reports --facts may name for a scan
    LaterFacts,       \* and for a plan
    Invocations,      \* [command, targets, namespaces, includeSystem, selector,
                      \*  facts, rules, class], command: scan, assess or explain
    PlanOptions,      \* [includeReview, class, toleration]
    MaxScans, MaxPlans, MaxChanges

\* assess names a workload and has no selector.
ASSUME ScanAssumption ==
    /\ NamespaceOf \in [Workload -> STRING]
    /\ PageSize \in Nat \ {0} /\ MaxScans \in Nat
    /\ MaxPlans \in Nat /\ MaxChanges \in Nat
    /\ Invocations # {}
    /\ \A o \in Invocations :
          /\ o.targets \subseteq Workload /\ o.namespaces \in Seq(STRING)
          /\ o.rules \in Seq([id : STRING, severity : STRING])
          /\ o.command = "assess" => ~o.selector /\ o.targets # {}

\* What the abstraction keeps of an object and of the facts in a file, the three
\* levels of support of a report; and who controls what: the built-in
\* controllers make jobs of cron jobs and pods of the others, deployments by
\* their ReplicaSets, and every workload of the six kinds is in Workload.
IsObject(w, s) ==
    /\ s.spec.host \subseteq {"network", "pid", "ipc"}
    /\ s.spec.volumes \subseteq {"hostPath", "hostPath: /dev/kvm", "csi: fuse"}
    /\ \A c \in s.spec.containers : c.env \subseteq {"uses-fuse"}
    /\ \A o \in {x \in s.owners : x.controller} :
          IF o.id \in Workload
            THEN \/ KindOf[w] = "Job" /\ o.kind = "CronJob" /\ KindOf[o.id] = o.kind
                 \/ /\ KindOf[w] = "Pod"
                    /\ o.kind \in {"StatefulSet", "DaemonSet", "Job"}
                    /\ KindOf[o.id] = o.kind
                 \/ /\ KindOf[w] = "Pod"
                    /\ o.kind = "ReplicaSet" /\ KindOf[o.id] = "Deployment"
            ELSE o.kind \notin {Kinds[k] : k \in DOMAIN Kinds}

ASSUME ClusterAssumption ==
    /\ \A c \in InitClusters :
          /\ DOMAIN c.objects = Workload /\ DOMAIN c.nodes = Node
          /\ c.rc \in RuntimeClasses
    /\ \A w \in Workload :
          \A s \in ShapesOf[w] \cup {c.objects[w] : c \in InitClusters} :
            s = Absent \/ IsObject(w, s)
    /\ \A f \in SavedFacts :
          f # NoFacts => \A g \in f.gpu :
                           g.product \in {"supported", "unsupported", "unknown"}

VARIABLES
    objects, rc, nodes,  \* the cluster
    opts,                \* the options of this scan
    pc,
    kind, scope,         \* which list: positions in Kinds and in Scopes
    cont,                \* what is left of the list: its later pages
    rows,                \* what is enumerated so far: rows[<<w, n>>] is the n-th
                         \* object called w
    rcSeen,              \* the RuntimeClass, read before the nodes
    facts, results,      \* the report
    seen,                \* history: what each object has been since the start
    moments,             \* history: so the RuntimeClass with the nodes, <<rc, nodes>>
    plans,               \* history: the plans made, with their scans
    scans, changes

cluster == <<objects, rc, nodes, seen, moments, changes>>
listing == <<kind, scope, cont, rows>>
vars == <<cluster, opts, pc, listing, rcSeen, facts, results, plans, scans>>

Nothing == << >>  \* the function without arguments

Init ==
    /\ \E c \in InitClusters :
          objects = c.objects /\ rc = c.rc /\ nodes = c.nodes
    /\ opts = CHOOSE o \in Invocations : TRUE
    /\ pc = "idle"
    /\ kind = 1 /\ scope = 1
    /\ cont = Nothing /\ rows = Nothing
    /\ rcSeen = NoRuntimeClass
    /\ facts = NoFacts
    /\ results = Nothing
    /\ seen = [w \in Workload |-> {objects[w]}]
    /\ moments = {<<rc, nodes>>}
    /\ plans = {}
    /\ scans = 0 /\ changes = 0

(* pkg/scanner. *)

ClusterWide == opts.namespaces = << >>
\* listScopes: one list over everything, or one for each namespace.
Scopes == IF ClusterWide THEN << "" >> ELSE opts.namespaces

ShouldSkipSystem(w) ==
    ClusterWide /\ ~opts.includeSystem /\ NamespaceOf[w] \in SystemNamespaces

HasControllerOfKind(object, kinds) ==
    \E o \in object.owners : o.controller /\ o.kind \in kinds
\* mutant: ReplicaSets are the only controllers of pods
OnlyReplicaSets(w, object) ==
    CASE KindOf[w] = "Job" -> HasControllerOfKind(object, {"CronJob"})
      [] KindOf[w] = "Pod" -> HasControllerOfKind(object, {"ReplicaSet"})
      [] OTHER -> FALSE
\* appendJobs and appendPods leave out what a controller already stands for.
Represented(w, object) ==
    CASE KindOf[w] = "Job" -> HasControllerOfKind(object, {"CronJob"})
      [] KindOf[w] = "Pod" -> HasControllerOfKind(object,
             {"ReplicaSet", "StatefulSet", "DaemonSet", "Job"})
      [] OTHER -> FALSE

\* A command is called with any of the options.
Start ==
    /\ pc \in {"idle", "report", "failed"} /\ scans < MaxScans
    /\ scans' = scans + 1
    /\ opts' \in Invocations
    /\ pc' = IF opts'.command = "assess" THEN "get" ELSE "list"
    /\ kind' = 1 /\ scope' = 1
    /\ cont' = Nothing /\ rows' = Nothing
    /\ facts' = NoFacts /\ rcSeen' = NoRuntimeClass /\ results' = Nothing
    /\ seen' = [w \in Workload |-> {objects[w]}]
    /\ moments' = {<<rc, nodes>>}
    /\ UNCHANGED <<objects, rc, nodes, changes, plans>>

\* What the API answers to a list call: all of it is of one moment.
Listed ==
    [w \in {v \in Workload : /\ objects[v] # Absent
                             /\ KindOf[v] = Kinds[kind]
                             /\ Scopes[scope] \in {"", NamespaceOf[v]}
                             /\ opts.selector => objects[v].selected}
        |-> objects[w]]

\* The first PageSize objects, in the order of namespaces and names.
PageOf(list) ==
    {w \in DOMAIN list : Cardinality({v \in DOMAIN list : v < w}) < PageSize}

\* The appends: the rows of a page.
Kept(list) ==
    Restrict(list, {w \in PageOf(list) :
                      ~ShouldSkipSystem(w) /\ ~Represented(w, list[w])})

\* out = append(out, ...), for the pages of a list and list after list: what is
\* listed again, because its namespace was named again, gets another row.
Copies(w) == Cardinality({r \in DOMAIN rows : r[1] = w})
Appended(page) ==
    [r \in DOMAIN rows \cup {<<w, Copies(w) + 1>> : w \in DOMAIN page} |->
        IF r \in DOMAIN rows THEN rows[r] ELSE page[r[1]]]

\* mutant: one scope too many
AdvanceTooFar ==
    IF scope <= Len(Scopes) THEN
      /\ scope' = scope + 1 /\ UNCHANGED <<kind, pc>>
    ELSE IF kind < Len(Kinds) THEN
      /\ scope' = 1 /\ kind' = kind + 1 /\ UNCHANGED pc
    ELSE
      /\ pc' = IF opts.targets = {} THEN "facts" ELSE "filter"
      /\ UNCHANGED <<kind, scope>>
\* The next list: of the same kind in the next namespace, or of the next kind.
Advance ==
    IF scope < Len(Scopes) THEN
      /\ scope' = scope + 1 /\ UNCHANGED <<kind, pc>>
    ELSE IF kind < Len(Kinds) THEN
      /\ scope' = 1 /\ kind' = kind + 1 /\ UNCHANGED pc
    ELSE
      /\ pc' = IF opts.targets = {} THEN "facts" ELSE "filter"
      /\ UNCHANGED <<kind, scope>>

\* mutants: the continue token is not looked at, or not sent back
FirstPageOnly ==
    /\ pc = "list"
    /\ rows' = Appended(Kept(Listed))
    /\ Advance
    /\ UNCHANGED <<cluster, opts, cont, rcSeen, facts, results, plans, scans>>
SamePageAgain ==
    /\ pc = "list"
    /\ rows' = Appended(Kept(Listed))
    /\ IF PageOf(Listed) = DOMAIN Listed THEN Advance
       ELSE UNCHANGED <<kind, scope, pc>>
    /\ UNCHANGED <<cluster, opts, cont, rcSeen, facts, results, plans, scans>>
\* One List call, with the continue token of the page before, if any.
ListPage ==
    /\ pc = "list"
    /\ LET list == IF cont = Nothing THEN Listed ELSE cont
       IN  /\ rows' = Appended(Kept(list))
           /\ cont' = Restrict(list, DOMAIN list \ PageOf(list))
    /\ IF cont' = Nothing THEN Advance ELSE UNCHANGED <<kind, scope, pc>>
    /\ UNCHANGED <<cluster, opts, rcSeen, facts, results, plans, scans>>

\* explain workload: only what bears the name is left, and there has to be one.
Filter ==
    /\ pc = "filter"
    /\ rows' = Restrict(rows, {r \in DOMAIN rows : r[1] \in opts.targets})
    /\ pc' = IF rows' = Nothing THEN "failed" ELSE "facts"
    /\ UNCHANGED <<cluster, opts, kind, scope, cont, rcSeen, facts, results,
                   plans, scans>>

\* assess: the one workload is read by its name, whoever controls it.
GetWorkload ==
    /\ pc = "get"
    /\ rows' = [r \in {w \in opts.targets : objects[w] # Absent} \X {1}
                  |-> objects[r[1]]]
    /\ pc' = IF rows' = Nothing THEN "failed" ELSE "facts"
    /\ UNCHANGED <<cluster, opts, kind, scope, cont, rcSeen, facts, results,
                   plans, scans>>

\* Any error ends the command: before the first call, of the kubeconfig or of the
\* rules file; later, of a call, an expired continue token included.
CallFails ==
    /\ pc \in {"list", "get"}
    /\ pc' = "failed"
    /\ UNCHANGED <<cluster, opts, listing, rcSeen, facts, results, plans, scans>>

(* The cluster facts: read, skipped, or loaded from a saved report. *)

\* loadClusterFacts takes the facts of a file as they are, with the verdicts on
\* its GPUs that were right when and where it was written.
LoadFacts ==
    /\ pc = "facts" /\ opts.facts # "live"
    /\ facts' \in IF opts.facts = "file" THEN SavedFacts ELSE {NoFacts}
    /\ pc' = "classify"
    /\ UNCHANGED <<cluster, opts, listing, rcSeen, results, plans, scans>>

\* A --facts file that cannot be read, or carries no facts, is an error.
LoadFactsFails ==
    /\ pc = "facts" /\ opts.facts = "file"
    /\ pc' = "failed"
    /\ UNCHANGED <<cluster, opts, listing, rcSeen, facts, results, plans, scans>>

GetRuntimeClass ==
    /\ pc = "facts" /\ opts.facts = "live"
    /\ rcSeen' = rc
    /\ pc' = "nodes"
    /\ UNCHANGED <<cluster, opts, listing, facts, results, plans, scans>>

ListNodes ==
    /\ pc = "nodes"
    /\ facts' = [counts |-> Collect(rcSeen, nodes),
                 gpu |-> CollectGPU(rcSeen, nodes, NotProbed),
                 probe |-> NotProbed, runsc |-> NoRunsc, class |-> opts.class]
    /\ pc' = "classify"
    /\ UNCHANGED <<cluster, opts, listing, rcSeen, results, plans, scans>>

\* Reads that are denied or fail leave the scan without facts.
FactsSkipped ==
    /\ pc \in {"facts", "nodes"} /\ opts.facts = "live"
    /\ pc' = "classify"
    /\ UNCHANGED <<cluster, opts, listing, rcSeen, facts, results, plans, scans>>

(* The report and the plans made of it. *)

Classify ==
    /\ pc = "classify"
    /\ results' =
         [r \in DOMAIN rows |->
            LET registry == Registry(opts.rules)
                verdict == ClassifyWithFacts(rows[r], registry, facts)
            IN  IF opts.command = "explain"
                THEN ExplainWorkload(rows[r], verdict, registry) ELSE verdict]
    /\ pc' = "report"
    /\ UNCHANGED <<cluster, opts, listing, rcSeen, facts, plans, scans>>

\* planWarnings: what can stop the plan from landing; nothing without facts,
\* and nothing but that when they are about another RuntimeClass.
PlanWarnings(f, class) ==
    IF f = NoFacts THEN {}
    ELSE IF f.class # class THEN {"cluster-facts-runtime-class-mismatch"}
    ELSE {x.id : x \in {y \in Evaluate(f.counts) \cup GpuFindings(f.gpu) :
                          y.severity # "info"}}

\* plan: at once, or later from the saved report; --facts then replaces the
\* facts for the warnings, and no verdict.
MakePlan ==
    /\ pc = "report" /\ opts.command = "scan" /\ Cardinality(plans) < MaxPlans
    /\ \E options \in PlanOptions, f \in {facts} \cup LaterFacts :
          plans' = plans \cup
            {[rows |-> rows, results |-> results, facts |-> facts, scan |-> opts,
              plan |-> PlanOf(results, options, scans,
                            PlanWarnings(f, options.class))]}
    /\ UNCHANGED <<cluster, opts, pc, listing, rcSeen, facts, results, scans>>

(* The cluster, meanwhile. *)

Meanwhile ==
    /\ pc \notin {"idle", "report", "failed"}
    /\ changes < MaxChanges /\ changes' = changes + 1
    /\ UNCHANGED <<opts, pc, listing, rcSeen, facts, results, plans, scans>>

WorkloadChanges(w) ==
    /\ Meanwhile
    /\ \E s \in ShapesOf[w] \ {objects[w]} :
          /\ objects' = [objects EXCEPT ![w] = s]
          /\ seen' = [seen EXCEPT ![w] = @ \cup {s}]
    /\ UNCHANGED <<rc, nodes, moments>>

NodeChanges(n) ==
    /\ Meanwhile
    /\ \E s \in Shapes \ {nodes[n]} : nodes' = [nodes EXCEPT ![n] = s]
    /\ moments' = moments \cup {<<rc, nodes'>>}
    /\ UNCHANGED <<objects, seen, rc>>

RuntimeClassChanges ==
    /\ Meanwhile
    /\ rc' \in RuntimeClasses \ {rc}
    /\ moments' = moments \cup {<<rc', nodes>>}
    /\ UNCHANGED <<objects, seen, nodes>>

Proceed ==
    \/ ListPage \/ Filter \/ GetWorkload
    \/ LoadFacts \/ GetRuntimeClass \/ ListNodes \/ Classify
Next ==
    \/ Start \/ Proceed \/ MakePlan
    \/ CallFails \/ LoadFactsFails \/ FactsSkipped
    \/ \E w \in Workload : WorkloadChanges(w)
    \/ \E n \in Node : NodeChanges(n)
    \/ RuntimeClassChanges

\* A call of a running scan is answered; no call has to fail.
Spec == Init /\ [][Next]_vars /\ WF_vars(Proceed)

-----------------------------------------------------------------------------
(* Properties. *)

TypeOK ==
    /\ DOMAIN objects = Workload
    /\ \A w \in Workload : objects[w] \in seen[w]
    /\ rc \in RuntimeClasses /\ DOMAIN nodes = Node
    /\ <<rc, nodes>> \in moments
    /\ opts \in Invocations
    /\ pc \in {"idle", "list", "filter", "get", "facts", "nodes", "classify",
              "report", "failed"}
    /\ kind \in DOMAIN Kinds /\ scope \in DOMAIN Scopes
    /\ DOMAIN cont \subseteq Workload
    /\ DOMAIN rows \subseteq Workload \X (Nat \ {0})
    /\ facts # NoFacts => pc \in {"classify", "report"}
    /\ DOMAIN results \subseteq Workload \X (Nat \ {0})
    /\ Cardinality(plans) <= MaxPlans
    /\ scans \in 0..MaxScans /\ changes \in 0..MaxChanges

\* The objects above w that it descends from, and w: pod, job, cron job.
Controllers(w) == {o.id : o \in {x \in objects[w].owners : x.controller}}
Family(w) ==
    LET above == Controllers(w) \cap Workload
    IN  {w} \cup above
        \cup UNION {Controllers(v) \cap Workload :
                      v \in {u \in above : objects[u] # Absent}}
InView(w) ==
    /\ objects[w] # Absent
    /\ opts.selector => objects[w].selected
    /\ IF opts.namespaces = << >>
         THEN opts.includeSystem \/ NamespaceOf[w] \notin SystemNamespaces
         ELSE \E i \in DOMAIN opts.namespaces : opts.namespaces[i] = NamespaceOf[w]

Steady(w) == \A v \in Family(w) : seen[v] = {objects[v]} /\ InView(v)
\* A ReplicaSet that no Deployment made stands above w.
Bare(w) == \E o \in objects[w].owners : o.kind = "ReplicaSet" /\ o.id \notin Workload

\* No two of the lists show the same objects.
NamedOnce ==
    \A i, j \in DOMAIN Scopes : i # j => Scopes[i] # Scopes[j] /\ Scopes[i] # ""

\* Whatever changes elsewhere while the lists are read, page by page: if a
\* workload, and all that it descends from, is in view and has not changed
\* since the scan began, the report has rows for exactly one of them, the one
\* none of the others controls.  Pods of bare ReplicaSets have none.  And no
\* workload, steady or not, has two rows, unless a namespace is named twice.
OneRowPerFamily ==
    pc = "report" /\ opts.targets = {} =>
      /\ \A w \in Workload :
           objects[w] # Absent /\ Steady(w) /\ ~Bare(w) =>
             {r[1] : r \in DOMAIN results} \cap Family(w)
               = {v \in Family(w) : Controllers(v) \cap Workload = {}}
      /\ NamedOnce => \A r \in DOMAIN results : r[2] = 1

\* No row is made up or put together from two moments: it is what the object
\* was at some time of the scan, in view and, in a list, without a controller of
\* its own among the kinds that the scan lists.
RowsWereReal ==
    \A r \in DOMAIN rows :
      /\ rows[r] \in seen[r[1]] \ {Absent}
      /\ opts.selector => rows[r].selected
      /\ opts.command # "assess" =>
           \A o \in rows[r].owners : ~(o.controller /\ o.id \in Workload)

\* However the rules are overridden and refined, an explanation says of every
\* rule either that it did not fire, or what of this very workload made it:
\* a finding never comes with nothing to show.
EvidenceForEveryFinding ==
    pc = "report" /\ opts.command = "explain" =>
      \A row \in DOMAIN results :
        LET x == results[row]
        IN  /\ DOMAIN x.findings \cup x.checked = DOMAIN Builtins
            /\ DOMAIN x.findings \cap x.checked = {}
            /\ \A r \in DOMAIN x.findings :
                 \E field \in DOMAIN NoEvidence : x.findings[r][field] # {}

\* What docs/compatibility-checklist.md keeps off gVisor unless an operator asks
\* for it: host namespaces and paths, capabilities, devices and images; but of
\* the images with cilium in their name, which the checklist has without exception,
\* only those of the three references that matchEBPF knows: others are planned.
KeepOff(w) ==
    \/ w.spec.host # {} \/ w.spec.volumes # {}
    \/ "needs-raw-socket" \in w.annotations \/ "uses-iouring" \in w.annotations
    \/ "runs-systemd" \in w.annotations
    \/ \E c \in w.spec.containers :
          \/ c.privileged \/ c.env # {}
          \/ ~c.init /\ c.runs \in {"command: init", "args: init"}
          \/ c.caps \cap {"NET_RAW", "BPF", "PERFMON", "SYS_ADMIN"} # {}
          \/ c.image \cap {"cilium", "tetragon", "falco"} # {}

\* RefreshGPUSupport would change nothing: the verdicts on the groups are those
\* of this release, on the driver list that is in the facts.
Refreshed(f) ==
    \A g \in f.gpu : /\ g.product = ProductSupport(g.key.product)
                     /\ g.driver = DriverSupport(g.key.driver, f.probe)
\* The groups a pod may land on, by the facts: those the RuntimeClass selects,
\* if any.
Reachable(f) ==
    {g \in f.gpu : (\E h \in f.gpu : h.matching > 0) => g.matching > 0}
\* docs/gpu-nvproxy.md: a probe has confirmed the card and the driver of every
\* node the pod may land on.  The file says so, and when its verdicts are those
\* of this release, it is so.
GpuServed(w, f) ==
    \A c \in w.spec.containers :
      c.gpu # {} =>
        /\ "mig" \notin c.gpu
        /\ f # NoFacts /\ Reachable(f) # {}
        /\ \A g \in Reachable(f) :
             /\ ~g.key.mig /\ g.product = "supported" /\ g.driver = "supported"
             /\ Refreshed(f) => /\ g.key.product \in SupportedProducts
                                /\ f.probe # NotProbed
                                /\ g.key.driver \in f.probe.drivers

\* Unless the operator overrides rules or asks for the workloads under review,
\* no step of a plan touches a workload that is to be kept off gVisor; and one
\* that asks for a GPU only on the word of a file: what a scan reads of a
\* cluster that may have changed by the time it is read never suffices.
PlansKeepOff ==
    \A p \in plans :
      p.scan.rules = << >> /\ ~p.plan.options.includeReview =>
        \A i \in DOMAIN p.plan.steps :
          \E r \in DOMAIN p.rows \ p.plan.excluded :
            /\ r[1] = p.plan.steps[i].target
            /\ ~KeepOff(p.rows[r]) /\ GpuServed(p.rows[r], p.facts)
            /\ RequestsGPU(p.rows[r]) => p.scan.facts = "file"

\* docs/gpu-nvproxy.md, "Only unsupported cards or MIG-sliced nodes": a scan of
\* the cluster that finds an error in a GPU request is for a MIG slice, or there
\* was a time of the scan at which every GPU node that the pod could land on had
\* an unsupported card or was sliced.  The RuntimeClass, read before the nodes,
\* may be of an earlier time.  This is about the nodes one by one, whatever the
\* groups they were counted in.
CanLandOn(class, ns) ==
    LET gpus == {n \in Node : HasGPU(ns[n])}
        selected == {n \in gpus : Matches(class, ns[n])}
    IN  IF selected = {} THEN gpus ELSE selected
Useless(node) ==
    \/ node.gpu.mig \notin {"", "none"}
    \/ node.gpu.product \notin {""} \cup SupportedProducts
CondemnedForCause ==
    pc = "report" /\ opts.facts = "live" /\ opts.command = "scan" /\ opts.rules = << >> =>
      \A r \in DOMAIN results :
        "gpu-passthrough" \in DOMAIN results[r].reasons
        /\ results[r].reasons["gpu-passthrough"] = "error"
        /\ ~RequestsMIG(rows[r])
        => \E before, after \in moments :
             /\ CanLandOn(before[1], after[2]) # {}
             /\ \A n \in CanLandOn(before[1], after[2]) : Useless(after[2][n])

\* A plan accounts for every row of its report once, and low-risk workloads
\* roll first: with the same findings, one whose controller restarts freely
\* before a DaemonSet, and that before a StatefulSet; under the same kind of
\* controller, one that nothing was found against before one with warnings or
\* an overhead; and equals in the order of the report.
Fragile(k) == CASE k = "StatefulSet" -> 2 [] k = "DaemonSet" -> 1 [] OTHER -> 0
Burden(reasons) ==
    {r \in DOMAIN reasons : \/ reasons[r] = "warn"
                            \/ r \in {"network-throughput", "syscall-heavy"}}
RollsBefore(p, q, r) ==
    LET rq == p.results[q].reasons
        rr == p.results[r].reasons
    IN  \/ rq = rr /\ Fragile(KindOf[q[1]]) < Fragile(KindOf[r[1]])
        \/ KindOf[q[1]] = KindOf[r[1]] /\ Burden(rq) = {} /\ Burden(rr) # {}
        \/ KindOf[q[1]] = KindOf[r[1]] /\ rq = rr /\ q[1] < r[1]
\* The rows of w among those of S.
About(S, w) == {r \in S : r[1] = w}
LowRiskFirst ==
    \A p \in plans :
      LET steps == p.plan.steps
          planned == DOMAIN p.rows \ p.plan.excluded
      IN  /\ p.plan.excluded \subseteq DOMAIN p.rows
          /\ \A i \in DOMAIN steps : About(planned, steps[i].target) # {}
          /\ \A w \in Workload :
               Cardinality({i \in DOMAIN steps : steps[i].target = w})
                 = Cardinality(About(planned, w))
          /\ \A i, j \in DOMAIN steps :
               (\A q \in About(planned, steps[i].target),
                   r \in About(planned, steps[j].target) : RollsBefore(p, q, r))
               => i < j

\* Every scan ends, however many pages and lists there are.
ScanEnds == pc \in {"list", "get"} ~> pc \in {"report", "failed"}
=============================================================================

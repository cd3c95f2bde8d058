------------------------------ MODULE Classifier ------------------------------
(***************************************************************************)
(* pkg/classifier: the built-in rules, their overrides, the refinement of   *)
(* two of them by cluster facts, and the verdict.  Pure operators.          *)
(*                                                                          *)
(* A workload is [spec, annotations].  A pod spec is [host, volumes,        *)
(* containers]: the host namespaces it shares, the kinds of its volumes, and*)
(* its containers.  A container is [init, privileged, caps, gpu, env, runs, *)
(* image]: gpu are the nvidia.com/* resources it requests, runs is where its*)
(* process comes from (command, args or image) and whether that is systemd, *)
(* image the hints its image reference contains.  Annotations are those set *)
(* to "true".  Facts are NoFacts or [gpu, probe, runsc]: GPU groups, what   *)
(* the probe read and the runsc release, as in module Gpu.                  *)
(***************************************************************************)
EXTENDS Gpu, SequencesExt

CONSTANTS
    NoFacts,     \* no cluster facts: skipped, or denied by RBAC
    NoRunsc      \* a runsc release nobody has read

ErrorRules == {"raw-socket", "host-network", "host-pid", "host-ipc",
               "privileged", "ebpf", "kvm-nested"}
WarnRules  == {"host-path-mount", "gpu-passthrough", "fuse-mount", "io-uring",
               "perf-events", "systemd-init"}
InfoRules  == {"network-throughput", "syscall-heavy"}

\* RegisterBuiltins: a registry maps the rules to their severities.
Builtins == [r \in ErrorRules \cup WarnRules \cup InfoRules |->
                IF r \in ErrorRules THEN "error"
                ELSE IF r \in WarnRules THEN "warn" ELSE "info"]

\* LoadYAML: entries with an unknown id or severity are skipped; the last of
\* several entries for a rule wins.
Registry(overrides) ==
    [r \in DOMAIN Builtins |->
       LET valid == {i \in DOMAIN overrides :
                       /\ overrides[i].id = r
                       /\ overrides[i].severity \in {"info", "warn", "error"}}
       IN  IF valid = {} THEN Builtins[r] ELSE overrides[Max(valid)].severity]

(* The Match predicates. *)

HasCap(w, caps) == \E c \in w.spec.containers : c.caps \cap caps # {}
HasHint(w, hints) == \E c \in w.spec.containers : c.image \cap hints # {}

RequestsGPU(w) == \E c \in w.spec.containers : c.gpu # {}
RequestsMIG(w) == \E c \in w.spec.containers : "mig" \in c.gpu

\* ContainerRunsSystemd: a command hides the args, and both hide the image.
\* Init containers have to exit, hence do not count.
RunsSystemd(w) ==
    \/ "runs-systemd" \in w.annotations
    \/ \E c \in w.spec.containers :
          /\ ~c.init
          /\ \/ c.runs \in {"command: init", "args: init"}
             \/ c.runs = "image" /\ "ubi-init" \in c.image

Fires(w) == {
    <<"raw-socket", \/ "needs-raw-socket" \in w.annotations
                    \/ HasCap(w, {"NET_RAW"})>>,
    <<"host-network", "network" \in w.spec.host>>,
    <<"host-pid", "pid" \in w.spec.host>>,
    <<"host-ipc", "ipc" \in w.spec.host>>,
    <<"privileged", \E c \in w.spec.containers : c.privileged>>,
    <<"ebpf", HasHint(w, {"cilium", "tetragon", "falco"}) \/ HasCap(w, {"BPF"})>>,
    <<"kvm-nested", "hostPath: /dev/kvm" \in w.spec.volumes>>,
    <<"host-path-mount",
        w.spec.volumes \cap {"hostPath", "hostPath: /dev/kvm"} # {}>>,
    <<"gpu-passthrough", RequestsGPU(w)>>,
    <<"fuse-mount", \/ "csi: fuse" \in w.spec.volumes
                    \/ \E c \in w.spec.containers : "uses-fuse" \in c.env>>,
    <<"io-uring", "uses-iouring" \in w.annotations>>,
    <<"perf-events", HasCap(w, {"PERFMON", "SYS_ADMIN"})>>,
    <<"systemd-init", RunsSystemd(w)>>,
    <<"network-throughput", HasHint(w, {"nginx", "envoy", "haproxy", "traefik"})>>,
    <<"syscall-heavy", HasHint(w, {"redis", "memcached"})>>}
Fired(w) == {r \in DOMAIN Builtins : <<r, TRUE>> \in Fires(w)}

(* The Refine hooks: the severity that replaces the configured one. *)

\* Only the groups with a node the RuntimeClass selects, if there is any.
Eligible(groups) ==
    LET matching == {g \in groups : g.matching > 0}
    IN  IF matching = {} THEN groups ELSE matching

\* mutant: usable nodes are enough
AnyReady(t, base) == IF "ready" \in t THEN "info" ELSE base
\* What tallyGPU makes of a group.
Tally(g) ==
    IF g.key.mig \/ g.product = "unsupported" THEN "blocked"
    ELSE IF g.product = "unknown" THEN "unknown"
    ELSE IF g.driver = "supported" THEN "ready"
    ELSE IF g.driver = "unsupported" THEN "driverBad" ELSE "unconfirmed"
\* mutant: one node that cannot serve is enough
AnyBlocked(t, base) ==
    IF t = {"ready"} THEN "info" ELSE IF "blocked" \in t THEN "error" ELSE base
\* The table of refineFromGPUFacts, top to bottom; t are the buckets in use.
GpuTable(t, base) ==
    IF t = {"ready"} THEN "info"
    ELSE IF "ready" \in t THEN "warn"
    ELSE IF "unconfirmed" \in t THEN base
    ELSE IF "driverBad" \in t THEN "error"
    ELSE IF "unknown" \in t THEN base ELSE "error"
RefineGPU(w, facts, base) ==
    IF RequestsMIG(w) THEN "error"
    ELSE IF facts = NoFacts \/ facts.gpu = {} THEN base
    ELSE GpuTable({Tally(g) : g \in Eligible(facts.gpu)}, base)

\* Releases are [release, date, point]; a build without a release tag cannot
\* be compared.
Older(a, b) == a.date < b.date \/ (a.date = b.date /\ a.point < b.point)
SystemdMinRunsc == [release |-> TRUE, date |-> 20260831, point |-> 0]
\* runscVersion: reports of older probes only carry it beside the driver list.
RunscVersion(facts) ==
    IF facts.runsc # NoRunsc THEN facts.runsc
    ELSE IF facts.gpu # {} /\ facts.probe # NotProbed THEN facts.probe.runsc
    ELSE NoRunsc
RefineSystemd(facts, base) ==
    LET v == RunscVersion(facts)
    IN  IF /\ facts # NoFacts
           /\ v # NoRunsc
           /\ v.release /\ Older(v, SystemdMinRunsc)
        THEN "error" ELSE base

Refine(r, w, facts, base) ==
    CASE r = "gpu-passthrough" -> RefineGPU(w, facts, base)
      [] r = "systemd-init" -> RefineSystemd(facts, base)
      [] OTHER -> base

(* The verdict.  Reasons map the rules that fired to their severities. *)

Compatibility(reasons) ==
    LET severities == {reasons[r] : r \in DOMAIN reasons}
    IN  IF "error" \in severities THEN "incompatible"
        ELSE IF "warn" \in severities THEN "review" ELSE "compatible"

ClassifyWithFacts(w, registry, facts) ==
    LET reasons == [r \in Fired(w) |-> Refine(r, w, facts, registry[r])]
    IN  [reasons |-> reasons, compatibility |-> Compatibility(reasons)]
=============================================================================

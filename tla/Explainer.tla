------------------------------- MODULE Explainer -------------------------------
(***************************************************************************)
(* pkg/explainer/workload.go: for every rule that fired, what in the        *)
(* workload made it fire.  The extractors look at the workload for          *)
(* themselves, apart from the Match predicates of the classifier, and look  *)
(* wider: the hint "other cilium" is an image that has the name but none of *)
(* the three references that the classifier takes for "cilium".             *)
(***************************************************************************)
EXTENDS Classifier

NoEvidence == [namespaces |-> {}, containers |-> {}, capabilities |-> {},
               annotations |-> {}, images |-> {}, volumes |-> {}, gpus |-> {}]

\* Names in any case count here, unlike in the classifier.
Canonical(cap) ==
    CASE cap = "net_raw" -> "NET_RAW" [] cap = "bpf" -> "BPF" [] OTHER -> cap
CapabilitiesHit(w, caps) ==
    {h \in w.spec.containers \X caps : \E cap \in h[1].caps : Canonical(cap) = h[2]}
AnnotationsHit(w, keys) == w.annotations \cap keys
ImagesMatched(w, hints) == {c \in w.spec.containers : c.image \cap hints # {}}
HostNamespaces == [rule \in {"host-network", "host-pid", "host-ipc"} |->
                     [NoEvidence EXCEPT !.namespaces = {rule}]]

\* mutant: the annotation that switches the rule on is no evidence
PodSpecOnly(w) ==
    LET main == {c \in w.spec.containers : ~c.init}
    IN  [NoEvidence EXCEPT
           !.containers = {c \in main : c.runs \in {"command: init", "args: init"}},
           !.images = {c \in main : c.runs = "image" /\ "ubi-init" \in c.image}]
SystemdEvidence(w) ==
    LET main == {c \in w.spec.containers : ~c.init}
    IN  [NoEvidence EXCEPT
           !.annotations = AnnotationsHit(w, {"runs-systemd"}),
           !.containers = {c \in main : c.runs \in {"command: init", "args: init"}},
           !.images = {c \in main : c.runs = "image" /\ "ubi-init" \in c.image}]

Evidence(rule, w) ==
    CASE rule \in DOMAIN HostNamespaces -> HostNamespaces[rule]
      [] rule = "privileged" -> [NoEvidence EXCEPT
           !.containers = {c \in w.spec.containers : c.privileged}]
      [] rule = "raw-socket" -> [NoEvidence EXCEPT
           !.capabilities = CapabilitiesHit(w, {"NET_RAW"}),
           !.annotations = AnnotationsHit(w, {"needs-raw-socket"})]
      [] rule = "ebpf" -> [NoEvidence EXCEPT
           !.images = ImagesMatched(w, {"cilium", "other cilium", "tetragon", "falco"}),
           !.capabilities = CapabilitiesHit(w, {"BPF"})]
      [] rule = "kvm-nested" -> [NoEvidence EXCEPT
           !.volumes = w.spec.volumes \cap {"hostPath: /dev/kvm"}]
      [] rule = "host-path-mount" -> [NoEvidence EXCEPT
           !.volumes = w.spec.volumes \cap {"hostPath", "hostPath: /dev/kvm"}]
      [] rule = "gpu-passthrough" -> [NoEvidence EXCEPT
           !.gpus = UNION {c.gpu : c \in w.spec.containers}]
      [] rule = "fuse-mount" -> [NoEvidence EXCEPT
           !.volumes = w.spec.volumes \cap {"csi: fuse"},
           !.containers = {c \in w.spec.containers : "uses-fuse" \in c.env}]
      [] rule = "io-uring" -> [NoEvidence EXCEPT
           !.annotations = AnnotationsHit(w, {"uses-iouring"})]
      [] rule = "perf-events" -> [NoEvidence EXCEPT
           !.capabilities = CapabilitiesHit(w, {"PERFMON", "SYS_ADMIN"})]
      [] rule = "network-throughput" -> [NoEvidence EXCEPT
           !.images = ImagesMatched(w, {"nginx", "envoy", "haproxy", "traefik"})]
      [] rule = "syscall-heavy" -> [NoEvidence EXCEPT
           !.images = ImagesMatched(w, {"redis", "memcached"})]
      [] rule = "systemd-init" -> SystemdEvidence(w)

ExplainWorkload(w, verdict, registry) ==
    [reasons |-> verdict.reasons, compatibility |-> verdict.compatibility,
     findings |-> [r \in DOMAIN verdict.reasons |-> Evidence(r, w)],
     checked |-> DOMAIN registry \ DOMAIN verdict.reasons]
=============================================================================

---------------------------------- MODULE Gpu ----------------------------------
(***************************************************************************)
(* pkg/preflight/gpu.go: the GPU nodes, grouped by what decides whether     *)
(* nvproxy works on them, and the findings about the groups.  A node has,   *)
(* beside the fields of Preflight, gpu: [capacity, product, driver, mig],   *)
(* whether the device plugin advertises a GPU, and the labels of GPU Feature*)
(* Discovery, "" where a label is missing.  What the probe read from runsc  *)
(* is NotProbed or [drivers, runsc].                                        *)
(***************************************************************************)
EXTENDS Preflight

CONSTANTS
    SupportedProducts, \* NvproxySupportedProducts, as product labels
    NotProbed          \* facts that no probe has completed

HasGPU(node) == node.gpu.product # "" \/ node.gpu.capacity

\* MIG is any strategy but "none".
GpuKeyOf(node) == [product |-> node.gpu.product, driver |-> node.gpu.driver,
                   mig |-> node.gpu.mig \notin {"", "none"}]

ProductSupport(product) ==
    IF product = "" THEN "unknown"
    ELSE IF product \in SupportedProducts THEN "supported" ELSE "unsupported"

DriverSupport(driver, probe) ==
    IF driver = "" \/ probe = NotProbed THEN "unknown"
    ELSE IF driver \in probe.drivers THEN "supported" ELSE "unsupported"

\* collectGPU, then RefreshGPUSupport: the groups with their verdicts.  There
\* is no group exactly when no node has a GPU.
CollectGPU(rc, nodes, probe) ==
    LET gpus == {n \in DOMAIN nodes : HasGPU(nodes[n])}
        Of(k) == {n \in gpus : GpuKeyOf(nodes[n]) = k}
        matching == {n \in gpus : Matches(rc, nodes[n])}
    IN  {[key |-> k,
          nodes |-> Cardinality(Of(k)),
          matching |-> Cardinality(Of(k) \cap matching),
          product |-> ProductSupport(k.product),
          driver |-> DriverSupport(k.driver, probe)]
            : k \in {GpuKeyOf(nodes[n]) : n \in gpus}}

\* bucketGPUGroups and gpuFindings: one finding for each bucket that is not
\* empty.  Severities stop at "warn": a GPU problem blocks nothing else.
Bucket(g) ==
    IF g.key.mig THEN Finding("gpu-mig-enabled", "warn")
    ELSE IF g.product = "unknown" THEN Finding("gpu-product-unknown", "info")
    ELSE IF g.product = "unsupported"
      THEN Finding("gpu-product-unsupported", "warn")
    ELSE IF g.driver = "supported" THEN Finding("gpu-nvproxy-ready", "info")
    ELSE IF g.driver = "unsupported"
      THEN Finding("gpu-driver-unsupported", "warn")
    ELSE Finding("gpu-driver-unconfirmed", "info")
GpuFindings(groups) == {Bucket(g) : g \in groups}
=============================================================================

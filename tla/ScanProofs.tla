------------------------------ MODULE ScanProofs ------------------------------
(***************************************************************************)
(* What the scan reports and what is planned of it, for any cluster, any    *)
(* changes to it meanwhile, any options and any facts.                      *)
(***************************************************************************)
EXTENDS Scan, PlannerProofs, SequenceTheorems, WellFoundedInduction

(* The classifier. *)

Severities == {"info", "warn", "error"}

\* There are finitely many rules.
LEMMA RulesFinite == IsFiniteSet(DOMAIN Builtins)
<1> DEFINE s == <<"raw-socket", "host-network", "host-pid", "host-ipc",
                  "privileged", "ebpf", "kvm-nested", "host-path-mount",
                  "gpu-passthrough", "fuse-mount", "io-uring", "perf-events",
                  "systemd-init", "network-throughput", "syscall-heavy">>
<1>1. s \in Seq(DOMAIN Builtins) /\ \A r \in DOMAIN Builtins : \E n \in 1..Len(s) : s[n] = r
  BY DEF Builtins, ErrorRules, WarnRules, InfoRules
<1> QED
  BY <1>1 DEF IsFiniteSet

\* Some number of a set of positions is the greatest.
LEMMA MaxIsMember ==
    ASSUME NEW n \in Nat, NEW S \in SUBSET (1..n), S # {}
    PROVE  Max(S) \in S
<1> DEFINE T == {n - i : i \in S}
<1>1. T \in SUBSET Nat
  OBVIOUS
<1>2. T # {}
  OBVIOUS
<1>3. PICK x \in T : \A y \in T : <<y, x>> \notin OpToRel(<, Nat)
  BY <1>1, <1>2, NatLessThanWellFounded, WFMin
<1>4. PICK i \in S : x = n - i
  OBVIOUS
<1>5. ASSUME NEW k \in S PROVE i >= k
  <2>1. n - k \in T
    OBVIOUS
  <2>2. ~(n - k < x) /\ n - k \in Nat /\ x \in Nat
    BY <1>1, <1>3, <2>1 DEF OpToRel
  <2> QED
    BY <1>4, <2>2
<1> QED
  BY <1>4, <1>5 DEF Max

\* Whatever is overridden, every rule has one of the three severities; and
\* nothing overridden is nothing changed.
LEMMA RegistryTyped ==
    ASSUME NEW overrides \in Seq([id : STRING, severity : STRING])
    PROVE  /\ DOMAIN Registry(overrides) = DOMAIN Builtins
           /\ \A r \in DOMAIN Builtins : Registry(overrides)[r] \in Severities
           /\ overrides = << >> => Registry(overrides) = Builtins
<1>1. \A r \in DOMAIN Builtins : Builtins[r] \in Severities
  BY DEF Builtins, Severities
<1>2. ASSUME NEW r \in DOMAIN Builtins PROVE Registry(overrides)[r] \in Severities
  <2> DEFINE valid == {i \in DOMAIN overrides :
                         /\ overrides[i].id = r
                         /\ overrides[i].severity \in {"info", "warn", "error"}}
  <2>1. valid # {} => Max(valid) \in valid
    <3>1. Len(overrides) \in Nat /\ valid \in SUBSET (1..Len(overrides))
      OBVIOUS
    <3> QED
      BY <3>1, MaxIsMember
  <2>2. Registry(overrides)[r] = IF valid = {} THEN Builtins[r]
                                 ELSE overrides[Max(valid)].severity
    BY DEF Registry
  <2> QED
    BY <1>1, <2>1, <2>2 DEF Severities
<1>3. overrides = << >> => Registry(overrides) = Builtins
  BY DEF Registry, Builtins
<1> QED
  BY <1>2, <1>3 DEF Registry

\* Refinement by facts stays within the severities.
LEMMA RefineTyped ==
    ASSUME NEW r, NEW w, NEW f, NEW base \in Severities
    PROVE  Refine(r, w, f, base) \in Severities
<1>1. RefineSystemd(f, base) \in Severities
  BY DEF RefineSystemd, Severities
<1>2. \A t : GpuTable(t, base) \in Severities
  BY DEF GpuTable, Severities
<1>3. RefineGPU(w, f, base) \in Severities
  BY <1>2 DEF RefineGPU, Severities
<1> QED
  BY <1>1, <1>3 DEF Refine

\* A verdict gives a reason for every rule that fired, and no other, and an
\* error among them makes the workload incompatible, a warning at least one
\* for review.
LEMMA VerdictTyped ==
    ASSUME NEW w, NEW f, NEW overrides \in Seq([id : STRING, severity : STRING])
    PROVE  LET verdict == ClassifyWithFacts(w, Registry(overrides), f)
           IN  /\ DOMAIN verdict.reasons = Fired(w)
               /\ \A r \in Fired(w) :
                    /\ verdict.reasons[r] = Refine(r, w, f, Registry(overrides)[r])
                    /\ verdict.reasons[r] \in Severities
                    /\ verdict.reasons[r] = "error" => verdict.compatibility = "incompatible"
                    /\ verdict.reasons[r] = "warn" => verdict.compatibility # "compatible"
               /\ verdict.compatibility = Compatibility(verdict.reasons)
<1> DEFINE verdict == ClassifyWithFacts(w, Registry(overrides), f)
<1>1. /\ DOMAIN verdict.reasons = Fired(w)
      /\ \A r \in Fired(w) : verdict.reasons[r] = Refine(r, w, f, Registry(overrides)[r])
      /\ verdict.compatibility = Compatibility(verdict.reasons)
  BY DEF ClassifyWithFacts
<1>2. \A r \in Fired(w) : verdict.reasons[r] \in Severities
  BY <1>1, RegistryTyped, RefineTyped DEF Fired
<1>3. ASSUME NEW r \in Fired(w)
      PROVE  /\ verdict.reasons[r] = "error" => verdict.compatibility = "incompatible"
             /\ verdict.reasons[r] = "warn" => verdict.compatibility # "compatible"
  BY <1>1 DEF Compatibility
<1> QED
  BY <1>1, <1>2, <1>3

-----------------------------------------------------------------------------
(* Reports and the plans made of them. *)

\* Facts that are not from a file are none, or have the verdicts of this release,
\* and no probe behind them.
Sourced(o, f) ==
    f # NoFacts =>
      /\ \A g \in f.gpu : g.product \in {"supported", "unsupported", "unknown"}
      /\ o.facts # "file" => Refreshed(f) /\ f.probe = NotProbed

\* A report's results are the verdicts on its rows.
ReportOf(o, theRows, f, theResults) ==
    /\ o \in Invocations
    /\ Sourced(o, f)
    /\ DOMAIN theRows \subseteq Workload \X (Nat \ {0}) /\ IsFiniteSet(DOMAIN theRows)
    /\ DOMAIN theResults = DOMAIN theRows
    /\ \A r \in DOMAIN theRows :
         LET verdict == ClassifyWithFacts(theRows[r], Registry(o.rules), f)
         IN  /\ IsObject(r[1], theRows[r])
             /\ theResults[r] =
                  IF o.command = "explain"
                  THEN ExplainWorkload(theRows[r], verdict, Registry(o.rules))
                  ELSE verdict

\* A plan is what the planner makes of a report.
MadeOf(p) ==
    /\ ReportOf(p.scan, p.rows, p.facts, p.results)
    /\ p.scan.command = "scan"
    /\ p.plan.steps = PlanSteps(p.results, p.plan.options)
    /\ p.plan.excluded = Excluded(p.results, p.plan.options)

\* The planner can take any report.
LEMMA ReportTyped ==
    ASSUME NEW p, MadeOf(p)
    PROVE  /\ Report(p.results, DOMAIN p.results)
           /\ \A w \in DOMAIN p.results :
                /\ w[1] \in Workload
                /\ KindOf[w[1]] \in {Kinds[k] : k \in DOMAIN Kinds}
                /\ p.scan.rules \in Seq([id : STRING, severity : STRING])
                /\ p.results[w] = ClassifyWithFacts(p.rows[w], Registry(p.scan.rules), p.facts)
<1>1. DOMAIN p.results \subseteq Workload \X (Nat \ {0})
  BY DEF MadeOf, ReportOf
<1>2. IsFiniteSet(DOMAIN p.results) /\ DOMAIN p.results \subseteq Nat \X Nat
  <2>1. IsFiniteSet(DOMAIN p.results)
    BY DEF MadeOf, ReportOf
  <2> QED
    BY <1>1, <2>1, PlannerAssumption
<1>3. ASSUME NEW w \in DOMAIN p.results
      PROVE  /\ w[1] \in Workload
             /\ KindOf[w[1]] \in {Kinds[k] : k \in DOMAIN Kinds}
             /\ p.scan.rules \in Seq([id : STRING, severity : STRING])
             /\ p.results[w] = ClassifyWithFacts(p.rows[w], Registry(p.scan.rules), p.facts)
  <2>1. w[1] \in Workload /\ KindOf[w[1]] \in {Kinds[k] : k \in DOMAIN Kinds}
    BY <1>1, PlannerAssumption
  <2>2. p.scan.rules \in Seq([id : STRING, severity : STRING])
    BY ScanAssumption DEF MadeOf, ReportOf
  <2>3. p.results[w] = ClassifyWithFacts(p.rows[w], Registry(p.scan.rules), p.facts)
    BY DEF MadeOf, ReportOf
  <2> QED
    BY <2>1, <2>2, <2>3
<1>4. ASSUME NEW w \in DOMAIN p.results
      PROVE  IsFiniteSet(DOMAIN p.results[w].reasons)
  <2>1. DOMAIN p.results[w].reasons = Fired(p.rows[w])
    BY <1>3, VerdictTyped
  <2>2. Fired(p.rows[w]) \subseteq DOMAIN Builtins
    BY DEF Fired
  <2> QED
    BY <2>1, <2>2, RulesFinite, FS_Subset
<1> QED
  BY <1>2, <1>3, <1>4 DEF Report

\* What rolls before has the smaller risk, or the same and the smaller place.
LEMMA RollsByRisk ==
    ASSUME NEW p, MadeOf(p),
           NEW v \in Included(p.results, p.plan.options),
           NEW w \in Included(p.results, p.plan.options),
           RollsBefore(p, v, w)
    PROVE  Before(p.results, v, w)
<1> DEFINE rv == p.results[v].reasons
           rw == p.results[w].reasons
           warns(reasons) == {r \in DOMAIN reasons : reasons[r] = "warn"}
<1>1. v \in DOMAIN p.results /\ w \in DOMAIN p.results
  BY DEF Included
<1>2. Risk(p.results, v) \in Nat /\ Risk(p.results, w) \in Nat
  BY <1>1, ReportTyped, RiskInNat DEF Report
<1>3. /\ IsFiniteSet(warns(rv)) /\ Cardinality(warns(rv)) \in Nat
      /\ IsFiniteSet(warns(rw)) /\ Cardinality(warns(rw)) \in Nat
  BY <1>1, ReportTyped, FS_Subset, FS_CardinalityType DEF Report
<1> DEFINE kv == KindRiskWeight(KindOf[v[1]])
           kw == KindRiskWeight(KindOf[w[1]])
           rest(reasons) == WarnWeight(Cardinality(warns(reasons)))
                            + InfoWeight(reasons, "network-throughput")
                            + InfoWeight(reasons, "syscall-heavy")
<1>4. /\ kv \in Nat /\ kw \in Nat
      /\ \A n \in Nat : WarnWeight(n) \in Nat
      /\ \A reasons, rule : InfoWeight(reasons, rule) \in Nat
  BY DEF KindRiskWeight, WarnWeight, InfoWeight
<1>5. /\ rest(rv) \in Nat /\ rest(rw) \in Nat
      /\ Risk(p.results, v) = kv + rest(rv)
      /\ Risk(p.results, w) = kw + rest(rw)
  <2>1. /\ WarnWeight(Cardinality(warns(rv))) \in Nat
        /\ WarnWeight(Cardinality(warns(rw))) \in Nat
    BY <1>3, <1>4
  <2>2. /\ Risk(p.results, v) = kv + WarnWeight(Cardinality(warns(rv)))
                                + InfoWeight(rv, "network-throughput")
                                + InfoWeight(rv, "syscall-heavy")
        /\ Risk(p.results, w) = kw + WarnWeight(Cardinality(warns(rw)))
                                + InfoWeight(rw, "network-throughput")
                                + InfoWeight(rw, "syscall-heavy")
    BY DEF Risk, Score
  <2> HIDE DEF kv, kw, rv, rw, warns
  <2> QED
    BY <1>4, <2>1, <2>2
<1>6. CASE rv = rw /\ Fragile(KindOf[v[1]]) < Fragile(KindOf[w[1]])
  <2>1. kv < kw
    <3>1. \A k \in {Kinds[i] : i \in DOMAIN Kinds} :
            k \in {"Deployment", "StatefulSet", "DaemonSet", "CronJob", "Job", "Pod"}
      BY DEF Kinds
    <3>2. /\ KindOf[v[1]] \in {Kinds[i] : i \in DOMAIN Kinds}
          /\ KindOf[w[1]] \in {Kinds[i] : i \in DOMAIN Kinds}
      BY <1>1, ReportTyped
    <3>3. KindOf[v[1]] # "Pod"
      BY DEF Included, PatchableInPlace
    <3> QED
      BY <1>6, <3>1, <3>2, <3>3 DEF Fragile, KindRiskWeight
  <2>2. rest(rv) = rest(rw)
    BY <1>6
  <2> HIDE DEF kv, kw, rest
  <2> QED
    BY <1>4, <1>5, <2>1, <2>2 DEF Before
<1>7. CASE KindOf[v[1]] = KindOf[w[1]] /\ Burden(rv) = {} /\ Burden(rw) # {}
  <2>1. rest(rv) = 0
    <3>1. warns(rv) = {}
      BY <1>7 DEF Burden
    <3>2. Cardinality(warns(rv)) = 0
      BY <3>1, FS_EmptySet
    <3>3. "network-throughput" \notin DOMAIN rv /\ "syscall-heavy" \notin DOMAIN rv
      BY <1>7 DEF Burden
    <3> QED
      BY <3>2, <3>3 DEF WarnWeight, InfoWeight
  <2>2. rest(rw) > 0
    <3>1. PICK r \in DOMAIN rw : rw[r] = "warn" \/ r \in {"network-throughput", "syscall-heavy"}
      BY <1>7 DEF Burden
    <3>2. rw[r] \in Severities /\ rw[r] # "error"
      <4>1. p.results[w].compatibility # "incompatible"
        BY DEF Included
      <4> QED
        BY <1>1, <3>1, <4>1, ReportTyped, VerdictTyped
    <3>3. CASE rw[r] = "warn"
      <4>1. warns(rw) # {}
        BY <3>1, <3>3
      <4>2. Cardinality(warns(rw)) # 0
        BY <1>3, <4>1, FS_EmptySet
      <4>3. WarnWeight(Cardinality(warns(rw))) > 0
        BY <1>3, <4>2 DEF WarnWeight
      <4>4. WarnWeight(Cardinality(warns(rw))) \in Nat
        BY <1>3, <1>4
      <4> HIDE DEF warns, rw
      <4> QED
        BY <1>4, <4>3, <4>4
    <3>4. CASE rw[r] # "warn"
      <4>1. rw[r] = "info"
        BY <3>2, <3>4 DEF Severities
      <4>2. InfoWeight(rw, r) > 0
        BY <3>1, <4>1 DEF InfoWeight
      <4>3. WarnWeight(Cardinality(warns(rw))) \in Nat
        BY <1>3, <1>4
      <4>4. r \in {"network-throughput", "syscall-heavy"}
        BY <3>1, <3>4
      <4> HIDE DEF warns, rw
      <4> QED
        BY <1>4, <4>2, <4>3, <4>4
    <3> QED
      BY <3>3, <3>4
  <2>3. kv = kw
    BY <1>7
  <2> HIDE DEF kv, kw, rest
  <2> QED
    BY <1>4, <1>5, <2>1, <2>2, <2>3 DEF Before
<1>8. CASE KindOf[v[1]] = KindOf[w[1]] /\ rv = rw /\ v[1] < w[1]
  <2>1. Risk(p.results, v) = Risk(p.results, w)
    BY <1>5, <1>8
  <2> QED
    BY <1>8, <2>1 DEF Before
<1> QED
  BY <1>6, <1>7, <1>8 DEF RollsBefore

\* The steps of a plan are what the report includes, once each, by risk.
LEMMA StepsOfReport ==
    ASSUME NEW p, MadeOf(p)
    PROVE  LET included == Included(p.results, p.plan.options)
               order == Order(p.results, included)
               n == Cardinality(included)
           IN  /\ n \in Nat
               /\ DOMAIN p.plan.steps = 1..n
               /\ order \in [1..n -> included]
               /\ \A r \in included : \E i \in 1..n : order[i] = r
               /\ \A i \in 1..n : p.plan.steps[i].target = order[i][1]
               /\ \A i, j \in 1..n : i < j <=> Before(p.results, order[i], order[j])
               /\ included = DOMAIN p.rows \ p.plan.excluded
               /\ p.plan.excluded \subseteq DOMAIN p.rows
<1> DEFINE included == Included(p.results, p.plan.options)
           order == Order(p.results, included)
           ranked == PlanSteps(p.results, p.plan.options)
           n == Cardinality(included)
<1>1. Report(p.results, DOMAIN p.results)
  BY ReportTyped
<1>2. /\ n \in Nat
      /\ DOMAIN ranked = 1..n
      /\ order \in [1..n -> included]
      /\ \A r \in included : \E i \in 1..n : order[i] = r
      /\ \A i \in 1..n : ranked[i] = Step(p.results, p.plan.options, order[i])
      /\ \A i, j \in 1..n : i < j <=> Before(p.results, order[i], order[j])
      /\ included \cup Excluded(p.results, p.plan.options) = DOMAIN p.results
      /\ included \cap Excluded(p.results, p.plan.options) = {}
  <2>1. n \in Nat /\ DOMAIN ranked = 1..n
    BY <1>1, PlanIsRanked, Zenon
  <2>2. /\ order \in [1..n -> included]
        /\ \A r \in included : \E i \in 1..n : order[i] = r
    <3>1. order \in [1..n -> included]
      BY <1>1, PlanIsRanked, Zenon
    <3>2. Report(p.results, included)
      BY <1>1, FS_Subset DEF Report, Included
    <3>3. \A r \in included : \E i \in 1..n : order[i] = r
      BY <3>2, OrderRanks
    <3> QED
      BY <3>1, <3>3
  <2>3. \A i \in 1..n : ranked[i] = Step(p.results, p.plan.options, order[i])
    BY <2>2 DEF PlanSteps
  <2>4. \A i, j \in 1..n : i < j <=> Before(p.results, order[i], order[j])
    BY <1>1, PlanIsRanked, Zenon
  <2>5. /\ included \cup Excluded(p.results, p.plan.options) = DOMAIN p.results
        /\ included \cap Excluded(p.results, p.plan.options) = {}
    BY <1>1, PlanIsRanked, Zenon
  <2> HIDE DEF ranked, order, included, n
  <2> QED
    BY <2>1, <2>2, <2>3, <2>4, <2>5
<1>3. /\ p.plan.steps = ranked
      /\ p.plan.excluded = Excluded(p.results, p.plan.options)
      /\ DOMAIN p.results = DOMAIN p.rows
  BY DEF MadeOf, ReportOf
<1> HIDE DEF ranked, order, included, n
<1>4. \A i \in 1..n : ranked[i].target = order[i][1]
  BY <1>2 DEF Step
<1>5. included = DOMAIN p.rows \ p.plan.excluded /\ p.plan.excluded \subseteq DOMAIN p.rows
  BY <1>2, <1>3
<1> QED
  BY <1>2, <1>3, <1>4, <1>5 DEF ranked, order, included, n

\* A plan accounts for its report, and what rolls before stands before.
LEMMA PlansByRisk ==
    ASSUME NEW p, MadeOf(p)
    PROVE  LET steps == p.plan.steps
               planned == DOMAIN p.rows \ p.plan.excluded
           IN  /\ p.plan.excluded \subseteq DOMAIN p.rows
               /\ \A i \in DOMAIN steps : About(planned, steps[i].target) # {}
               /\ \A w \in Workload :
                    Cardinality({i \in DOMAIN steps : steps[i].target = w})
                      = Cardinality(About(planned, w))
               /\ \A i, j \in DOMAIN steps :
                    (\A q \in About(planned, steps[i].target),
                        r \in About(planned, steps[j].target) : RollsBefore(p, q, r))
                    => i < j
<1> DEFINE included == Included(p.results, p.plan.options)
           order == Order(p.results, included)
           steps == p.plan.steps
           n == Cardinality(included)
<1>1. /\ n \in Nat
      /\ DOMAIN steps = 1..n
      /\ order \in [1..n -> included]
      /\ \A r \in included : \E i \in 1..n : order[i] = r
      /\ \A i \in 1..n : steps[i].target = order[i][1]
      /\ \A i, j \in 1..n : i < j <=> Before(p.results, order[i], order[j])
      /\ included = DOMAIN p.rows \ p.plan.excluded
      /\ p.plan.excluded \subseteq DOMAIN p.rows
  BY StepsOfReport, Zenon
<1>2. ASSUME NEW v \in included, NEW w \in included, RollsBefore(p, v, w)
      PROVE  Before(p.results, v, w)
  BY <1>2, RollsByRisk
<1> HIDE DEF included, order, steps, n
<1>3. \A i \in 1..n : order[i] \in About(included, steps[i].target)
  BY <1>1 DEF About
<1>4. ASSUME NEW w \in Workload
      PROVE  Cardinality({i \in 1..n : steps[i].target = w}) = Cardinality(About(included, w))
  <2> DEFINE S == {i \in 1..n : steps[i].target = w}
             T == About(included, w)
             f == [i \in S |-> order[i]]
  <2>1. IsFiniteSet(S)
    <3>1. IsFiniteSet(1..n)
      BY <1>1, FS_Interval
    <3> QED
      BY <3>1, FS_Subset
  <2>2. f \in [S -> T]
    BY <1>3
  <2>3. \A i, j \in S : f[i] = f[j] => i = j
    <3> SUFFICES ASSUME NEW i \in S, NEW j \in S, order[i] = order[j]
                 PROVE  i = j
      OBVIOUS
    <3>1. i < j <=> Before(p.results, order[i], order[i])
      BY <1>1
    <3>2. j < i <=> Before(p.results, order[i], order[i])
      BY <1>1
    <3> QED
      BY <1>1, <3>1, <3>2
  <2>4. \A r \in T : \E i \in S : f[i] = r
    BY <1>1 DEF About
  <2>5. f \in Bijection(S, T)
    BY <2>2, <2>3, <2>4 DEF Bijection, Injection, Surjection, IsInjective
  <2>6. ExistsBijection(S, T)
    BY <2>5 DEF ExistsBijection
  <2> QED
    BY <2>1, <2>6, FS_Bijection
<1>5. ASSUME NEW i \in 1..n, NEW j \in 1..n,
             \A q \in About(included, steps[i].target),
                r \in About(included, steps[j].target) : RollsBefore(p, q, r)
      PROVE  i < j
  <2>1. RollsBefore(p, order[i], order[j])
    BY <1>3, <1>5
  <2> QED
    BY <1>1, <1>2, <2>1
<1>6. /\ p.plan.excluded \subseteq DOMAIN p.rows
      /\ \A i \in DOMAIN steps : About(included, steps[i].target) # {}
      /\ \A w \in Workload :
           Cardinality({i \in DOMAIN steps : steps[i].target = w})
             = Cardinality(About(included, w))
      /\ \A i, j \in DOMAIN steps :
           (\A q \in About(included, steps[i].target),
               r \in About(included, steps[j].target) : RollsBefore(p, q, r))
           => i < j
  <2>1. \A i \in DOMAIN steps : About(included, steps[i].target) # {}
    BY <1>1, <1>3
  <2>2. \A w \in Workload :
          Cardinality({i \in DOMAIN steps : steps[i].target = w})
            = Cardinality(About(included, w))
    BY <1>1, <1>4
  <2>3. \A i, j \in DOMAIN steps :
           (\A q \in About(included, steps[i].target),
               r \in About(included, steps[j].target) : RollsBefore(p, q, r))
           => i < j
    <3> SUFFICES ASSUME NEW i \in DOMAIN steps, NEW j \in DOMAIN steps,
                        \A q \in About(included, steps[i].target),
                           r \in About(included, steps[j].target) : RollsBefore(p, q, r)
                 PROVE  i < j
      OBVIOUS
    <3>1. i \in 1..n /\ j \in 1..n
      BY <1>1
    <3> QED
      BY <1>5, <3>1
  <2> QED
    BY <1>1, <2>1, <2>2, <2>3
<1>7. included = DOMAIN p.rows \ p.plan.excluded
  BY <1>1
<1> HIDE DEF steps
<1> QED
  BY <1>6, <1>7, Zenon DEF steps

\* When each rule fires.
LEMMA FiredWhen ==
    ASSUME NEW w
    PROVE  /\ "raw-socket" \in Fired(w) <=>
                  "needs-raw-socket" \in w.annotations \/ HasCap(w, {"NET_RAW"})
           /\ "host-network" \in Fired(w) <=> "network" \in w.spec.host
           /\ "host-pid" \in Fired(w) <=> "pid" \in w.spec.host
           /\ "host-ipc" \in Fired(w) <=> "ipc" \in w.spec.host
           /\ "privileged" \in Fired(w) <=> \E c \in w.spec.containers : c.privileged
           /\ "ebpf" \in Fired(w) <=>
                  HasHint(w, {"cilium", "tetragon", "falco"}) \/ HasCap(w, {"BPF"})
           /\ "kvm-nested" \in Fired(w) <=> "hostPath: /dev/kvm" \in w.spec.volumes
           /\ "host-path-mount" \in Fired(w) <=>
                  w.spec.volumes \cap {"hostPath", "hostPath: /dev/kvm"} # {}
           /\ "gpu-passthrough" \in Fired(w) <=> RequestsGPU(w)
           /\ "fuse-mount" \in Fired(w) <=>
                  \/ "csi: fuse" \in w.spec.volumes
                  \/ \E c \in w.spec.containers : "uses-fuse" \in c.env
           /\ "io-uring" \in Fired(w) <=> "uses-iouring" \in w.annotations
           /\ "perf-events" \in Fired(w) <=> HasCap(w, {"PERFMON", "SYS_ADMIN"})
           /\ "systemd-init" \in Fired(w) <=> RunsSystemd(w)
           /\ "network-throughput" \in Fired(w) <=>
                  HasHint(w, {"nginx", "envoy", "haproxy", "traefik"})
           /\ "syscall-heavy" \in Fired(w) <=> HasHint(w, {"redis", "memcached"})
<1>1. \A r \in {"raw-socket", "host-network", "host-pid", "host-ipc",
               "privileged", "ebpf", "kvm-nested", "host-path-mount",
               "gpu-passthrough", "fuse-mount", "io-uring", "perf-events",
               "systemd-init", "network-throughput", "syscall-heavy"} :
         r \in Fired(w) <=> <<r, TRUE>> \in Fires(w)
  BY DEF Fired, Builtins, ErrorRules, WarnRules, InfoRules
<1>2. "raw-socket" \in Fired(w) <=>
          "needs-raw-socket" \in w.annotations \/ HasCap(w, {"NET_RAW"})
  BY <1>1 DEF Fires, HasCap
<1>3. "host-network" \in Fired(w) <=> "network" \in w.spec.host
  BY <1>1 DEF Fires
<1>4. "host-pid" \in Fired(w) <=> "pid" \in w.spec.host
  BY <1>1 DEF Fires
<1>5. "host-ipc" \in Fired(w) <=> "ipc" \in w.spec.host
  BY <1>1 DEF Fires
<1>6. "privileged" \in Fired(w) <=>
          \E c \in w.spec.containers : c.privileged
  BY <1>1 DEF Fires
<1>7. "ebpf" \in Fired(w) <=>
          HasHint(w, {"cilium", "tetragon", "falco"}) \/ HasCap(w, {"BPF"})
  BY <1>1 DEF Fires, HasCap, HasHint
<1>8. "kvm-nested" \in Fired(w) <=>
          "hostPath: /dev/kvm" \in w.spec.volumes
  BY <1>1 DEF Fires
<1>9. "host-path-mount" \in Fired(w) <=>
          w.spec.volumes \cap {"hostPath", "hostPath: /dev/kvm"} # {}
  BY <1>1 DEF Fires
<1>10. "gpu-passthrough" \in Fired(w) <=> RequestsGPU(w)
  BY <1>1 DEF Fires, RequestsGPU
<1>11. "fuse-mount" \in Fired(w) <=>
           \/ "csi: fuse" \in w.spec.volumes
           \/ \E c \in w.spec.containers : "uses-fuse" \in c.env
  BY <1>1 DEF Fires
<1>12. "io-uring" \in Fired(w) <=> "uses-iouring" \in w.annotations
  BY <1>1 DEF Fires
<1>13. "perf-events" \in Fired(w) <=>
           HasCap(w, {"PERFMON", "SYS_ADMIN"})
  BY <1>1 DEF Fires, HasCap
<1>14. "systemd-init" \in Fired(w) <=> RunsSystemd(w)
  BY <1>1 DEF Fires, RunsSystemd
<1>15. "network-throughput" \in Fired(w) <=>
           HasHint(w, {"nginx", "envoy", "haproxy", "traefik"})
  BY <1>1 DEF Fires, HasHint
<1>16. "syscall-heavy" \in Fired(w) <=>
           HasHint(w, {"redis", "memcached"})
  BY <1>1 DEF Fires, HasHint
<1> QED
  BY <1>2, <1>3, <1>4, <1>5, <1>6, <1>7, <1>8, <1>9,
     <1>10, <1>11, <1>12, <1>13, <1>14, <1>15, <1>16

\* Against what is to be kept off gVisor, some rule finds an error or asks for
\* a review, whatever the facts.
LEMMA FoundAgainst ==
    ASSUME NEW w, NEW s, IsObject(w, s), KeepOff(s), NEW f
    PROVE  \E r \in Fired(s) : Refine(r, s, f, Builtins[r]) \in {"warn", "error"}
<1> DEFINE hard == {"raw-socket", "host-network", "host-pid", "host-ipc",
                    "privileged", "ebpf", "kvm-nested", "host-path-mount",
                    "fuse-mount", "io-uring", "perf-events", "systemd-init"}
<1>1. \E r \in hard : r \in Fired(s)
  <2>1. CASE s.spec.host # {}
    <3>1. "network" \in s.spec.host \/ "pid" \in s.spec.host \/ "ipc" \in s.spec.host
      BY <2>1 DEF IsObject
    <3> QED
      BY <3>1, FiredWhen
  <2>2. CASE s.spec.volumes # {}
    <3>1. \/ s.spec.volumes \cap {"hostPath", "hostPath: /dev/kvm"} # {}
          \/ "csi: fuse" \in s.spec.volumes
      BY <2>2 DEF IsObject
    <3> QED
      BY <3>1, FiredWhen
  <2>3. CASE \/ "needs-raw-socket" \in s.annotations
             \/ "uses-iouring" \in s.annotations
             \/ "runs-systemd" \in s.annotations
    BY <2>3, FiredWhen DEF RunsSystemd
  <2>4. ASSUME NEW c \in s.spec.containers, c.privileged \/ c.env # {}
        PROVE  \E r \in hard : r \in Fired(s)
    <3>1. c.privileged \/ "uses-fuse" \in c.env
      BY <2>4 DEF IsObject
    <3> QED
      BY <3>1, FiredWhen
  <2>5. ASSUME NEW c \in s.spec.containers, ~c.init,
               c.runs \in {"command: init", "args: init"}
        PROVE  \E r \in hard : r \in Fired(s)
    BY <2>5, FiredWhen DEF RunsSystemd
  <2>6. ASSUME NEW c \in s.spec.containers,
               c.caps \cap {"NET_RAW", "BPF", "PERFMON", "SYS_ADMIN"} # {}
        PROVE  \E r \in hard : r \in Fired(s)
    <3>1. \/ HasCap(s, {"NET_RAW"}) \/ HasCap(s, {"BPF"})
          \/ HasCap(s, {"PERFMON", "SYS_ADMIN"})
      BY <2>6 DEF HasCap
    <3> QED
      BY <3>1, FiredWhen
  <2>7. ASSUME NEW c \in s.spec.containers,
               c.image \cap {"cilium", "tetragon", "falco"} # {}
        PROVE  \E r \in hard : r \in Fired(s)
    <3>1. HasHint(s, {"cilium", "tetragon", "falco"})
      BY <2>7 DEF HasHint
    <3> QED
      BY <3>1, FiredWhen
  <2> QED
    BY <2>1, <2>2, <2>3, <2>4, <2>5, <2>6, <2>7 DEF KeepOff
<1>2. PICK r \in hard : r \in Fired(s)
  BY <1>1
<1>3. Builtins[r] \in {"warn", "error"}
  BY <1>2 DEF Builtins, ErrorRules, WarnRules, InfoRules
<1>4. CASE r = "systemd-init"
  BY <1>2, <1>3, <1>4 DEF Refine, RefineSystemd
<1>5. CASE r # "systemd-init"
  BY <1>2, <1>3, <1>5 DEF Refine
<1> QED
  BY <1>4, <1>5

\* A GPU workload with nothing but a remark against it is driven by nvproxy on
\* every node that the RuntimeClass may send it to, by the facts; and these are
\* from a file.
LEMMA RemarkMeansServed ==
    ASSUME NEW o, NEW s, NEW f, Sourced(o, f), RefineGPU(s, f, "warn") = "info"
    PROVE  GpuServed(s, f) /\ o.facts = "file"
<1>1. ~RequestsMIG(s) /\ f # NoFacts /\ f.gpu # {}
  BY DEF RefineGPU
<1> DEFINE groups == Eligible(f.gpu)
<1>2. {Tally(g) : g \in groups} = {"ready"}
  <2> DEFINE t == {Tally(g) : g \in groups}
  <2>1. GpuTable(t, "warn") = "info"
    BY <1>1 DEF RefineGPU
  <2> HIDE DEF t
  <2>2. t = {"ready"}
    BY <2>1 DEF GpuTable
  <2> QED
    BY <2>2 DEF t
<1>3. \A g \in groups : Tally(g) = "ready"
  <2> SUFFICES ASSUME NEW g \in groups PROVE Tally(g) = "ready"
    OBVIOUS
  <2>1. Tally(g) \in {Tally(h) : h \in groups}
    OBVIOUS
  <2> QED
    BY <1>2, <2>1
<1>4. \A g \in groups :
        ~g.key.mig /\ g.product \notin {"unsupported", "unknown"} /\ g.driver = "supported"
  BY <1>3 DEF Tally
<1>5. groups \subseteq f.gpu /\ groups # {} /\ Reachable(f) = groups
  BY <1>1 DEF Eligible, Reachable
<1>6. \A g \in groups :
        ~g.key.mig /\ g.product = "supported" /\ g.driver = "supported"
  BY <1>1, <1>4, <1>5 DEF Sourced
<1> HIDE DEF groups
<1>7. ASSUME Refreshed(f), NEW g \in groups
      PROVE  /\ g.key.product \in SupportedProducts
             /\ f.probe # NotProbed /\ g.key.driver \in f.probe.drivers
  <2>1. /\ ProductSupport(g.key.product) = "supported"
        /\ DriverSupport(g.key.driver, f.probe) = "supported"
    BY <1>5, <1>6, <1>7 DEF Refreshed
  <2> QED
    BY <2>1 DEF ProductSupport, DriverSupport
<1>8. o.facts = "file"
  BY <1>1, <1>5, <1>7 DEF Sourced
<1> QED
  BY <1>1, <1>5, <1>6, <1>7, <1>8 DEF GpuServed, RequestsMIG

\* Nothing that is to be kept off gVisor is in a plan, unless it was asked for.
LEMMA PlanKeepsOff ==
    ASSUME NEW p, MadeOf(p), p.scan.rules = << >>, ~p.plan.options.includeReview,
           NEW i \in DOMAIN p.plan.steps
    PROVE  \E r \in DOMAIN p.rows \ p.plan.excluded :
             /\ r[1] = p.plan.steps[i].target
             /\ ~KeepOff(p.rows[r]) /\ GpuServed(p.rows[r], p.facts)
             /\ RequestsGPU(p.rows[r]) => p.scan.facts = "file"
<1>0. PICK v \in Included(p.results, p.plan.options) :
        v[1] = p.plan.steps[i].target /\ v \in DOMAIN p.rows \ p.plan.excluded
  <2> DEFINE included == Included(p.results, p.plan.options)
             order == Order(p.results, included)
             n == Cardinality(included)
  <2>1. /\ DOMAIN p.plan.steps = 1..n
        /\ order \in [1..n -> included]
        /\ \A k \in 1..n : p.plan.steps[k].target = order[k][1]
        /\ included = DOMAIN p.rows \ p.plan.excluded
    BY StepsOfReport, Zenon
  <2> HIDE DEF included, order, n
  <2>2. order[i] \in included /\ order[i][1] = p.plan.steps[i].target
    BY <2>1
  <2> QED
    BY <2>1, <2>2 DEF included
<1> DEFINE s == p.rows[v]
           reasons == p.results[v].reasons
<1>1. v \in DOMAIN p.results /\ p.results[v].compatibility = "compatible"
  BY DEF Included
<1>2. /\ p.scan.rules \in Seq([id : STRING, severity : STRING])
      /\ p.results[v] = ClassifyWithFacts(s, Registry(p.scan.rules), p.facts)
  BY <1>1, ReportTyped
<1>3. Registry(p.scan.rules) = Builtins
  BY <1>2, RegistryTyped
<1>4. \A r \in Fired(s) : Refine(r, s, p.facts, Builtins[r]) = "info"
  <2> SUFFICES ASSUME NEW r \in Fired(s)
               PROVE  Refine(r, s, p.facts, Builtins[r]) = "info"
    OBVIOUS
  <2> DEFINE verdict == ClassifyWithFacts(s, Registry(p.scan.rules), p.facts)
  <2>1. /\ verdict.reasons[r] = Refine(r, s, p.facts, Registry(p.scan.rules)[r])
        /\ verdict.reasons[r] \in Severities
        /\ verdict.reasons[r] = "error" => verdict.compatibility = "incompatible"
        /\ verdict.reasons[r] = "warn" => verdict.compatibility # "compatible"
    BY <1>2, VerdictTyped
  <2>2. /\ reasons[r] = Refine(r, s, p.facts, Registry(p.scan.rules)[r])
        /\ reasons[r] \in Severities
        /\ reasons[r] = "error" => p.results[v].compatibility = "incompatible"
        /\ reasons[r] = "warn" => p.results[v].compatibility # "compatible"
    BY <1>2, <2>1
  <2> QED
    BY <1>1, <1>3, <2>2 DEF Severities
<1>5. IsObject(v[1], s) /\ Sourced(p.scan, p.facts)
  BY <1>1 DEF MadeOf, ReportOf
<1>6. ~KeepOff(s)
  BY <1>4, <1>5, FoundAgainst
<1>7. GpuServed(s, p.facts) /\ (RequestsGPU(s) => p.scan.facts = "file")
  <2>1. CASE RequestsGPU(s)
    <3>1. "gpu-passthrough" \in Fired(s)
      BY <2>1, FiredWhen
    <3>2. Builtins["gpu-passthrough"] = "warn"
      BY DEF Builtins, ErrorRules, WarnRules, InfoRules
    <3>3. Refine("gpu-passthrough", s, p.facts, "warn") = "info"
      BY <1>4, <3>1, <3>2
    <3> QED
      BY <1>5, <3>3, RemarkMeansServed DEF Refine
  <2>2. CASE ~RequestsGPU(s)
    BY <2>2 DEF RequestsGPU, GpuServed
  <2> QED
    BY <2>1, <2>2
<1> QED
  BY <1>0, <1>6, <1>7

\* The extractors see what the predicates see: whatever fires a rule leaves
\* something to show.
LEMMA SomethingToShow ==
    ASSUME NEW s, NEW r \in Fired(s)
    PROVE  \E field \in DOMAIN NoEvidence : Evidence(r, s)[field] # {}
<1>1. DOMAIN NoEvidence = {"namespaces", "containers", "capabilities",
                           "annotations", "images", "volumes", "gpus"}
  BY DEF NoEvidence
<1>2. \A rule : rule \in DOMAIN HostNamespaces
                  <=> rule \in {"host-network", "host-pid", "host-ipc"}
  BY DEF HostNamespaces
<1>3. ASSUME NEW caps \in SUBSET {"NET_RAW", "BPF", "PERFMON", "SYS_ADMIN"}, HasCap(s, caps)
      PROVE  CapabilitiesHit(s, caps) # {}
  <2>1. PICK c \in s.spec.containers, cap \in caps : cap \in c.caps
    BY <1>3 DEF HasCap
  <2>2. Canonical(cap) = cap
    BY DEF Canonical
  <2>3. <<c, cap>> \in CapabilitiesHit(s, caps)
    BY <2>1, <2>2 DEF CapabilitiesHit
  <2> QED
    BY <2>3
<1>4. ASSUME NEW hints, NEW more, hints \subseteq more, HasHint(s, hints)
      PROVE  ImagesMatched(s, more) # {}
  BY <1>4 DEF HasHint, ImagesMatched
<1>5. RequestsGPU(s) => UNION {c.gpu : c \in s.spec.containers} # {}
  <2> SUFFICES ASSUME NEW c \in s.spec.containers, NEW g \in c.gpu
               PROVE  g \in UNION {d.gpu : d \in s.spec.containers}
    BY DEF RequestsGPU
  <2> QED
    OBVIOUS
<1>6. RunsSystemd(s) => \/ SystemdEvidence(s).annotations # {}
                        \/ SystemdEvidence(s).containers # {}
                        \/ SystemdEvidence(s).images # {}
  <2>1. /\ SystemdEvidence(s).annotations = s.annotations \cap {"runs-systemd"}
        /\ SystemdEvidence(s).containers =
             {c \in s.spec.containers : ~c.init /\ c.runs \in {"command: init", "args: init"}}
        /\ SystemdEvidence(s).images =
             {c \in s.spec.containers :
                ~c.init /\ c.runs = "image" /\ "ubi-init" \in c.image}
    BY DEF SystemdEvidence, NoEvidence, AnnotationsHit
  <2> QED
    BY <2>1 DEF RunsSystemd
<1>7. CASE r = "raw-socket"
  BY <1>1, <1>2, <1>3, <1>7, FiredWhen
     DEF Evidence, NoEvidence, HostNamespaces, AnnotationsHit
<1>8. CASE r = "host-network"
  BY <1>1, <1>2, <1>8, FiredWhen
     DEF Evidence, NoEvidence, HostNamespaces
<1>9. CASE r = "host-pid"
  BY <1>1, <1>2, <1>9, FiredWhen
     DEF Evidence, NoEvidence, HostNamespaces
<1>10. CASE r = "host-ipc"
  BY <1>1, <1>2, <1>10, FiredWhen
     DEF Evidence, NoEvidence, HostNamespaces
<1>11. CASE r = "privileged"
  BY <1>1, <1>2, <1>11, FiredWhen
     DEF Evidence, NoEvidence, HostNamespaces
<1>12. CASE r = "ebpf"
  <2> DEFINE x == Evidence(r, s)
  <2>1. /\ x.images = ImagesMatched(s, {"cilium", "other cilium", "tetragon", "falco"})
        /\ x.capabilities = CapabilitiesHit(s, {"BPF"})
    <3>1. x = [NoEvidence EXCEPT
                 !.images = ImagesMatched(s, {"cilium", "other cilium", "tetragon", "falco"}),
                 !.capabilities = CapabilitiesHit(s, {"BPF"})]
      BY <1>2, <1>12 DEF Evidence
    <3> QED
      BY <3>1 DEF NoEvidence
  <2>2. HasHint(s, {"cilium", "tetragon", "falco"}) => x.images # {}
    BY <1>4, <2>1
  <2>3. HasCap(s, {"BPF"}) => x.capabilities # {}
    BY <1>3, <2>1
  <2> QED
    BY <1>1, <1>12, <2>2, <2>3, FiredWhen
<1>13. CASE r = "kvm-nested"
  BY <1>1, <1>2, <1>13, FiredWhen
     DEF Evidence, NoEvidence, HostNamespaces
<1>14. CASE r = "host-path-mount"
  BY <1>1, <1>2, <1>14, FiredWhen
     DEF Evidence, NoEvidence, HostNamespaces
<1>15. CASE r = "gpu-passthrough"
  BY <1>1, <1>2, <1>5, <1>15, FiredWhen
     DEF Evidence, NoEvidence, HostNamespaces
<1>16. CASE r = "fuse-mount"
  BY <1>1, <1>2, <1>16, FiredWhen
     DEF Evidence, NoEvidence, HostNamespaces
<1>17. CASE r = "io-uring"
  BY <1>1, <1>2, <1>17, FiredWhen
     DEF Evidence, NoEvidence, HostNamespaces, AnnotationsHit
<1>18. CASE r = "perf-events"
  BY <1>1, <1>2, <1>3, <1>18, FiredWhen
     DEF Evidence, NoEvidence, HostNamespaces
<1>19. CASE r = "systemd-init"
  BY <1>1, <1>2, <1>6, <1>19, FiredWhen
     DEF Evidence, NoEvidence, HostNamespaces
<1>20. CASE r = "network-throughput"
  <2> DEFINE hints == {"nginx", "envoy", "haproxy", "traefik"}
  <2>1. Evidence(r, s).images = ImagesMatched(s, hints)
    BY <1>2, <1>20 DEF Evidence, NoEvidence
  <2>2. HasHint(s, hints) => Evidence(r, s).images # {}
    BY <1>4, <2>1
  <2> QED
    BY <1>1, <1>20, <2>2, FiredWhen
<1>21. CASE r = "syscall-heavy"
  <2> DEFINE hints == {"redis", "memcached"}
  <2>1. Evidence(r, s).images = ImagesMatched(s, hints)
    BY <1>2, <1>21 DEF Evidence, NoEvidence
  <2>2. HasHint(s, hints) => Evidence(r, s).images # {}
    BY <1>4, <2>1
  <2> QED
    BY <1>1, <1>21, <2>2, FiredWhen
<1> QED
  BY <1>7, <1>8, <1>9, <1>10, <1>11, <1>12, <1>13, <1>14,
     <1>15, <1>16, <1>17, <1>18, <1>19, <1>20, <1>21
     DEF Fired, Builtins, ErrorRules, WarnRules, InfoRules

-----------------------------------------------------------------------------
(* The scan.  What a list or a get answers was in the cluster since the scan *)
(* began, the report is the verdicts on the rows, and plans keep theirs.     *)

ClusterInv ==
    /\ DOMAIN seen = Workload
    /\ \A w \in Workload : \A s \in seen[w] : s = Absent \/ IsObject(w, s)

\* s is what w was at some time of the scan, and the selector selects it.
Real(w, s) == /\ s \in seen[w] \ {Absent}
              /\ opts.selector => s.selected
RowsInv ==
    /\ pc = "get" => opts.command = "assess"
    /\ \A w \in DOMAIN cont : Real(w, cont[w])
    /\ IsFiniteSet(DOMAIN rows)
    /\ \A r \in DOMAIN rows :
         /\ Real(r[1], rows[r])
         /\ opts.command # "assess" => ~Represented(r[1], rows[r])

ReportInv ==
    /\ Sourced(opts, facts)
    /\ pc = "report" => ReportOf(opts, rows, facts, results)
    /\ IsFiniteSet(plans)
    /\ \A p \in plans : MadeOf(p)

ScanInv == TypeOK /\ ClusterInv /\ RowsInv /\ ReportInv

\* There is at least one scope.
LEMMA ScopesTyped ==
    ASSUME opts \in Invocations
    PROVE  Len(Scopes) \in Nat /\ DOMAIN Scopes = 1..Len(Scopes) /\ Len(Scopes) >= 1
<1>1. opts.namespaces \in Seq(STRING)
  BY ScanAssumption
<1>2. CASE ClusterWide
  BY <1>2 DEF Scopes
<1>3. CASE ~ClusterWide
  <2>1. Len(opts.namespaces) # 0
    BY <1>1, <1>3, EmptySeq, LenProperties DEF ClusterWide
  <2> QED
    BY <1>1, <1>3, <2>1 DEF Scopes
<1> QED
  BY <1>2, <1>3

\* The scan starts with nothing.
LEMMA InitScanInv == Init => ScanInv
<1> SUFFICES ASSUME Init PROVE ScanInv
  OBVIOUS
<1> USE DEF Init, Nothing
<1>1. PICK c \in InitClusters : objects = c.objects /\ rc = c.rc /\ nodes = c.nodes
  OBVIOUS
<1>2. opts \in Invocations
  BY ScanAssumption
<1>3. DOMAIN cont = {} /\ DOMAIN rows = {} /\ DOMAIN results = {}
  OBVIOUS
<1>4. IsFiniteSet(plans) /\ Cardinality(plans) = 0
  BY FS_EmptySet
<1>5. 1 \in DOMAIN Scopes /\ 1 \in DOMAIN Kinds
  BY <1>2, ScopesTyped DEF Kinds
<1>6. TypeOK
  BY <1>1, <1>2, <1>3, <1>4, <1>5, ClusterAssumption, ScanAssumption DEF TypeOK
<1>7. ClusterInv
  BY <1>1, ClusterAssumption DEF ClusterInv
<1>8. RowsInv
  BY <1>3, FS_EmptySet DEF RowsInv
<1>9. ReportInv
  BY <1>4 DEF ReportInv, Sourced
<1> QED
  BY <1>6, <1>7, <1>8, <1>9 DEF ScanInv

\* Moving to the next list keeps the positions in range.
LEMMA AdvanceTyped ==
    ASSUME TypeOK, Advance, UNCHANGED opts
    PROVE  /\ kind' \in DOMAIN Kinds /\ scope' \in DOMAIN Scopes'
           /\ pc' \in {pc, "facts", "filter"}
<1>1. Len(Scopes) \in Nat /\ DOMAIN Scopes = 1..Len(Scopes) /\ Len(Scopes) >= 1
  BY ScopesTyped DEF TypeOK
<1>2. Scopes' = Scopes
  BY DEF Scopes, ClusterWide
<1>3. DOMAIN Kinds = 1..6 /\ Len(Kinds) = 6
  BY DEF Kinds
<1>4. scope' \in {scope, scope + 1, 1} /\ kind' \in {kind, kind + 1}
      /\ (scope' = scope + 1 => scope < Len(Scopes))
      /\ (kind' = kind + 1 => kind < Len(Kinds))
      /\ pc' \in {pc, "facts", "filter"}
  BY <1>1, <1>3 DEF Advance, TypeOK
<1> QED
  BY <1>1, <1>2, <1>3, <1>4 DEF TypeOK

\* What is cut from a list is from that list.
LEMMA PageTyped ==
    ASSUME NEW list
    PROVE  /\ DOMAIN Kept(list) \subseteq DOMAIN list
           /\ \A w \in DOMAIN Kept(list) :
                /\ Kept(list)[w] = list[w] /\ ~Represented(w, list[w])
                /\ ~ShouldSkipSystem(w) /\ w \in PageOf(list)
           /\ \A w \in PageOf(list) :
                ~ShouldSkipSystem(w) /\ ~Represented(w, list[w]) => w \in DOMAIN Kept(list)
BY DEF Kept, Restrict, PageOf

\* A list is of objects that are there, of the kind and in the scope asked for.
LEMMA ListedTyped ==
    ASSUME TypeOK
    PROVE  /\ DOMAIN Listed \subseteq Workload
           /\ \A w \in Workload :
                w \in DOMAIN Listed <=>
                  /\ objects[w] # Absent
                  /\ KindOf[w] = Kinds[kind]
                  /\ Scopes[scope] \in {"", NamespaceOf[w]}
                  /\ opts.selector => objects[w].selected
           /\ \A w \in DOMAIN Listed : Listed[w] = objects[w] /\ Real(w, Listed[w])
BY DEF Listed, TypeOK, Real

\* A page adds one row for each of its objects.
LEMMA AppendedTyped ==
    ASSUME NEW page, DOMAIN page \subseteq Workload,
           DOMAIN rows \subseteq Workload \X (Nat \ {0}), IsFiniteSet(DOMAIN rows)
    PROVE  /\ DOMAIN Appended(page) \subseteq Workload \X (Nat \ {0})
           /\ IsFiniteSet(DOMAIN Appended(page))
           /\ DOMAIN rows \subseteq DOMAIN Appended(page)
           /\ \A r \in DOMAIN rows : Appended(page)[r] = rows[r]
           /\ \A r \in DOMAIN Appended(page) \ DOMAIN rows :
                /\ r[1] \in DOMAIN page /\ r[2] = Copies(r[1]) + 1
                /\ Appended(page)[r] = page[r[1]]
           /\ \A w \in DOMAIN page : <<w, Copies(w) + 1>> \in DOMAIN Appended(page)
<1> DEFINE f == [w \in DOMAIN page |-> <<w, Copies(w) + 1>>]
           new == {<<w, Copies(w) + 1>> : w \in DOMAIN page}
<1>1. \A w \in DOMAIN page : Copies(w) \in Nat
  BY FS_Subset, FS_CardinalityType DEF Copies
<1>2. new \subseteq Workload \X (Nat \ {0})
  BY <1>1
<1>3. IsFiniteSet(new)
  <2>1. IsFiniteSet(DOMAIN page)
    BY PlannerAssumption, FS_Subset
  <2>2. f \in Surjection(DOMAIN page, new)
    BY DEF Surjection
  <2> QED
    BY <2>1, <2>2, FS_Surjection
<1>4. \A r \in new : r[1] \in DOMAIN page /\ r[2] = Copies(r[1]) + 1
  OBVIOUS
<1>5. /\ DOMAIN Appended(page) = DOMAIN rows \cup new
      /\ \A r \in DOMAIN rows \cup new :
           Appended(page)[r] = IF r \in DOMAIN rows THEN rows[r] ELSE page[r[1]]
  BY DEF Appended
<1>6. IsFiniteSet(DOMAIN rows \cup new)
  BY <1>3, FS_Union
<1>7. \A w \in DOMAIN page : <<w, Copies(w) + 1>> \in new
  OBVIOUS
<1> HIDE DEF new
<1> QED
  BY <1>2, <1>4, <1>5, <1>6, <1>7

\* A page adds rows that were in the cluster, and leaves a rest that was.
LEMMA ListPageKept ==
    ASSUME ScanInv, ListPage
    PROVE  ScanInv'
<1> USE DEF ScanInv
<1> DEFINE list == IF cont = Nothing THEN Listed ELSE cont
<1>1. /\ DOMAIN list \subseteq Workload
      /\ \A w \in DOMAIN list : Real(w, list[w])
  BY ListedTyped DEF TypeOK, RowsInv
<1>2. /\ rows' = Appended(Kept(list))
      /\ cont' = Restrict(list, DOMAIN list \ PageOf(list))
      /\ pc = "list"
      /\ IF cont' = Nothing THEN Advance ELSE UNCHANGED <<kind, scope, pc>>
      /\ UNCHANGED <<cluster, opts, rcSeen, facts, results, plans, scans>>
  BY DEF ListPage
<1> HIDE DEF list
<1>3. /\ DOMAIN rows' \subseteq Workload \X (Nat \ {0}) /\ IsFiniteSet(DOMAIN rows')
      /\ \A r \in DOMAIN rows : rows'[r] = rows[r]
      /\ \A r \in DOMAIN rows' \ DOMAIN rows :
           r[1] \in DOMAIN Kept(list) /\ rows'[r] = Kept(list)[r[1]]
  <2>1. DOMAIN Kept(list) \subseteq Workload
    BY <1>1, PageTyped
  <2>2. DOMAIN rows \subseteq Workload \X (Nat \ {0}) /\ IsFiniteSet(DOMAIN rows)
    BY DEF TypeOK, RowsInv
  <2> QED
    BY <1>2, <2>1, <2>2, AppendedTyped
<1>4. /\ DOMAIN cont' \subseteq DOMAIN list
      /\ \A w \in DOMAIN cont' : cont'[w] = list[w]
  BY <1>2 DEF Restrict
<1>5. /\ kind' \in DOMAIN Kinds /\ scope' \in DOMAIN Scopes'
      /\ pc' \in {"list", "facts", "filter"}
  <2>1. CASE cont' = Nothing
    BY <1>2, <2>1, AdvanceTyped
  <2>2. CASE cont' # Nothing
    BY <1>2, <2>2 DEF TypeOK, Scopes, ClusterWide
  <2> QED
    BY <2>1, <2>2
<1>6. UNCHANGED <<objects, rc, nodes, seen, moments, changes>>
  BY <1>2 DEF cluster
<1>7. TypeOK'
  BY <1>1, <1>2, <1>3, <1>4, <1>5, <1>6, PageTyped DEF TypeOK
<1>8. ClusterInv'
  BY <1>6 DEF ClusterInv
<1>9. RowsInv'
  <2>1. \A w \in DOMAIN cont' : Real(w, cont[w])'
    BY <1>1, <1>2, <1>4, <1>6 DEF Real
  <2>2. ASSUME NEW r \in DOMAIN rows'
        PROVE  /\ Real(r[1], rows[r])'
               /\ opts'.command # "assess" => ~Represented(r[1], rows[r])'
    <3>1. CASE r \notin DOMAIN rows
      BY <1>1, <1>2, <1>3, <1>6, <3>1, PageTyped
         DEF Real, Represented, HasControllerOfKind
    <3>2. CASE r \in DOMAIN rows
      BY <1>2, <1>3, <1>6, <3>2 DEF Real, Represented, HasControllerOfKind, RowsInv
    <3> QED
      BY <3>1, <3>2
  <2> QED
    BY <1>3, <1>5, <2>1, <2>2 DEF RowsInv
<1>10. ReportInv'
  BY <1>2, <1>5 DEF ReportInv
<1> QED
  BY <1>7, <1>8, <1>9, <1>10

\* Rows and pages stay real while nobody touches them, whatever else an object
\* becomes.
LEMMA RowsUndisturbed ==
    ASSUME RowsInv, DOMAIN rows \subseteq Workload \X (Nat \ {0}),
           DOMAIN cont \subseteq Workload, UNCHANGED <<opts, cont, rows>>,
           \A w \in Workload : seen[w] \subseteq seen'[w],
           pc' = "get" => pc = "get"
    PROVE  RowsInv'
<1>1. \A w \in DOMAIN cont' : Real(w, cont[w])'
  BY DEF RowsInv, Real
<1>2. \A r \in DOMAIN rows' :
        Real(r[1], rows[r])' /\ (opts'.command # "assess" => ~Represented(r[1], rows[r])')
  BY DEF RowsInv, Real, Represented, HasControllerOfKind
<1> QED
  BY <1>1, <1>2 DEF RowsInv

\* The report and the plans stay what they are while nothing is classified.
LEMMA ReportUndisturbed ==
    ASSUME ReportInv, UNCHANGED plans, Sourced(opts', facts'),
           pc' # "report" \/ UNCHANGED <<pc, opts, rows, facts, results>>
    PROVE  ReportInv'
BY DEF ReportInv, ReportOf, Sourced, Refreshed, MadeOf

\* A command starts from nothing.
LEMMA StartKept ==
    ASSUME ScanInv, Start
    PROVE  ScanInv'
<1> USE DEF ScanInv
<1>1. PICK o \in Invocations : opts' = o
  BY DEF Start
<1>2. /\ scans < MaxScans /\ scans' = scans + 1
      /\ pc' \in {"get", "list"} /\ (pc' = "get" => opts'.command = "assess")
      /\ kind' = 1 /\ scope' = 1
      /\ DOMAIN cont' = {} /\ DOMAIN rows' = {} /\ DOMAIN results' = {}
      /\ facts' = NoFacts
      /\ seen' = [w \in Workload |-> {objects[w]}]
      /\ moments' = {<<rc, nodes>>}
      /\ UNCHANGED <<objects, rc, nodes, changes, plans>>
  BY DEF Start, Nothing
<1>3. (1 \in DOMAIN Scopes)'
  <2>1. o.namespaces \in Seq(STRING)
    BY ScanAssumption
  <2>2. o.namespaces = << >> \/ 1 \in DOMAIN o.namespaces
    BY <2>1, EmptySeq, LenProperties
  <2> QED
    BY <1>1, <2>2 DEF Scopes, ClusterWide
<1>4. TypeOK'
  BY <1>1, <1>2, <1>3, ScanAssumption DEF TypeOK, Kinds
<1>5. ClusterInv'
  BY <1>2 DEF TypeOK, ClusterInv
<1>6. RowsInv'
  BY <1>2, FS_EmptySet DEF RowsInv
<1>7. ReportInv'
  BY <1>2, ReportUndisturbed DEF Sourced
<1> QED
  BY <1>4, <1>5, <1>6, <1>7

\* What explain leaves, and what assess gets, is of the cluster.
LEMMA FilterKept ==
    ASSUME ScanInv, Filter
    PROVE  ScanInv'
<1> USE DEF ScanInv
<1>1. /\ pc = "filter" /\ pc' \in {"failed", "facts"}
      /\ DOMAIN rows' \subseteq DOMAIN rows
      /\ \A r \in DOMAIN rows' : rows'[r] = rows[r]
      /\ UNCHANGED <<objects, rc, nodes, seen, moments, changes, opts, kind, scope, cont,
                     rcSeen, facts, results, plans, scans>>
  BY DEF Filter, Restrict, cluster
<1>2. TypeOK'
  BY <1>1 DEF TypeOK, Scopes, ClusterWide
<1>3. ClusterInv'
  BY <1>1 DEF ClusterInv
<1>4. RowsInv'
  <2>1. \A w \in DOMAIN cont' : Real(w, cont[w])'
    BY <1>1 DEF RowsInv, Real
  <2>2. \A r \in DOMAIN rows' :
          Real(r[1], rows[r])' /\ (opts'.command # "assess" => ~Represented(r[1], rows[r])')
    BY <1>1 DEF RowsInv, Real, Represented, HasControllerOfKind
  <2>3. IsFiniteSet(DOMAIN rows')
    BY <1>1, FS_Subset DEF RowsInv
  <2> QED
    BY <1>1, <2>1, <2>2, <2>3 DEF RowsInv
<1>5. ReportInv'
  BY <1>1, ReportUndisturbed DEF ReportInv
<1> QED
  BY <1>2, <1>3, <1>4, <1>5

LEMMA GetWorkloadKept ==
    ASSUME ScanInv, GetWorkload
    PROVE  ScanInv'
<1> USE DEF ScanInv
<1>1. /\ pc = "get" /\ pc' \in {"failed", "facts"}
      /\ rows' = [r \in {w \in opts.targets : objects[w] # Absent} \X {1}
                    |-> objects[r[1]]]
      /\ UNCHANGED <<objects, rc, nodes, seen, moments, changes, opts, kind, scope, cont,
                     rcSeen, facts, results, plans, scans>>
  BY DEF GetWorkload, cluster
<1>2. /\ DOMAIN rows' \subseteq Workload \X (Nat \ {0})
      /\ IsFiniteSet(DOMAIN rows')
      /\ \A r \in DOMAIN rows' : rows'[r] = objects[r[1]] /\ objects[r[1]] # Absent
  <2> DEFINE there == {w \in opts.targets : objects[w] # Absent}
  <2>1. DOMAIN rows' = there \X {1} /\ there \subseteq Workload
    BY <1>1, ScanAssumption DEF TypeOK
  <2>2. IsFiniteSet(there) /\ IsFiniteSet({1})
    BY <2>1, PlannerAssumption, FS_Subset, FS_Singleton
  <2>3. IsFiniteSet(there \X {1})
    BY <2>2, FS_Product
  <2>4. \A r \in DOMAIN rows' : rows'[r] = objects[r[1]] /\ r[1] \in there
    BY <1>1
  <2> QED
    BY <2>1, <2>3, <2>4
<1>3. TypeOK'
  BY <1>1, <1>2 DEF TypeOK, Scopes, ClusterWide
<1>4. ClusterInv'
  BY <1>1 DEF ClusterInv
<1>5. RowsInv'
  <2>1. opts.command = "assess" /\ ~opts.selector
    BY <1>1, ScanAssumption DEF RowsInv, TypeOK
  <2>2. \A w \in DOMAIN cont' : Real(w, cont[w])'
    BY <1>1 DEF RowsInv, Real
  <2>3. \A r \in DOMAIN rows' : Real(r[1], rows[r])'
    BY <1>1, <1>2, <2>1 DEF Real, TypeOK
  <2> QED
    BY <1>1, <1>2, <2>1, <2>2, <2>3 DEF RowsInv
<1>6. ReportInv'
  BY <1>1, ReportUndisturbed DEF ReportInv
<1> QED
  BY <1>3, <1>4, <1>5, <1>6

\* Failures lose nothing that was found out.
LEMMA FailureKept ==
    ASSUME ScanInv, CallFails \/ LoadFactsFails \/ FactsSkipped
    PROVE  ScanInv'
<1> USE DEF ScanInv
<1>1. /\ pc \in {"list", "get", "facts", "nodes"} /\ pc' \in {"failed", "classify"}
      /\ pc' = "failed" => pc \in {"list", "get", "facts"}
      /\ UNCHANGED <<objects, rc, nodes, seen, moments, changes, opts, kind, scope, cont,
                     rows, rcSeen, facts, results, plans, scans>>
  BY DEF CallFails, LoadFactsFails, FactsSkipped, cluster, listing
<1>2. TypeOK'
  BY <1>1 DEF TypeOK, Scopes, ClusterWide
<1>3. ClusterInv'
  BY <1>1 DEF ClusterInv
<1>4. RowsInv'
  BY <1>1, RowsUndisturbed DEF TypeOK
<1>5. ReportInv'
  BY <1>1, ReportUndisturbed DEF ReportInv
<1> QED
  BY <1>2, <1>3, <1>4, <1>5

\* Facts are from a file, or have their verdicts on GPUs refreshed.
LEMMA FactsKept ==
    ASSUME ScanInv, LoadFacts \/ GetRuntimeClass \/ ListNodes
    PROVE  ScanInv'
<1> USE DEF ScanInv
<1>1. /\ pc \in {"facts", "nodes"} /\ pc' \in {"nodes", "classify"}
      /\ pc' = "nodes" => facts' = facts /\ pc = "facts"
      /\ UNCHANGED <<objects, rc, nodes, seen, moments, changes, opts, kind, scope, cont,
                     rows, results, plans, scans>>
  BY DEF LoadFacts, GetRuntimeClass, ListNodes, cluster, listing
<1>2. Sourced(opts', facts')
  <2>1. CASE LoadFacts
    BY <1>1, <2>1, ClusterAssumption DEF LoadFacts, Sourced
  <2>2. CASE GetRuntimeClass
    BY <1>1, <2>2 DEF GetRuntimeClass, ReportInv, Sourced, Refreshed
  <2>3. CASE ListNodes
    <3>1. /\ facts'.gpu = CollectGPU(rcSeen, nodes, NotProbed)
          /\ facts'.probe = NotProbed
      BY <2>3 DEF ListNodes
    <3>2. \A g \in CollectGPU(rcSeen, nodes, NotProbed) :
            /\ g.product = ProductSupport(g.key.product)
            /\ g.driver = DriverSupport(g.key.driver, NotProbed)
      <4> TAKE g \in CollectGPU(rcSeen, nodes, NotProbed)
      <4>1. PICK k, n, m :
              g = [key |-> k, nodes |-> n, matching |-> m,
                   product |-> ProductSupport(k.product),
                   driver |-> DriverSupport(k.driver, NotProbed)]
        BY DEF CollectGPU
      <4> QED
        BY <4>1
    <3>3. Refreshed(facts')
      BY <3>1, <3>2 DEF Refreshed
    <3>4. \A g \in facts'.gpu : g.product \in {"supported", "unsupported", "unknown"}
      BY <3>1, <3>2 DEF ProductSupport
    <3> QED
      BY <3>1, <3>3, <3>4 DEF Sourced
  <2> QED
    BY <2>1, <2>2, <2>3
<1>3. TypeOK'
  BY <1>1 DEF TypeOK, Scopes, ClusterWide
<1>4. ClusterInv'
  BY <1>1 DEF ClusterInv
<1>5. RowsInv'
  BY <1>1, RowsUndisturbed DEF TypeOK
<1>6. ReportInv'
  BY <1>1, <1>2, ReportUndisturbed DEF ReportInv
<1> QED
  BY <1>3, <1>4, <1>5, <1>6

\* Real rows are objects.
LEMMA RowsAreObjects ==
    ASSUME ScanInv, NEW r \in DOMAIN rows
    PROVE  r[1] \in Workload /\ IsObject(r[1], rows[r])
BY DEF ScanInv, TypeOK, ClusterInv, RowsInv, Real

LEMMA ClassifyKept ==
    ASSUME ScanInv, Classify
    PROVE  ScanInv'
<1> USE DEF ScanInv
<1>1. /\ pc = "classify" /\ pc' = "report"
      /\ DOMAIN results' = DOMAIN rows
      /\ \A w \in DOMAIN rows :
           LET verdict == ClassifyWithFacts(rows[w], Registry(opts.rules), facts)
           IN  results'[w] =
                 IF opts.command = "explain"
                 THEN ExplainWorkload(rows[w], verdict, Registry(opts.rules))
                 ELSE verdict
      /\ UNCHANGED <<objects, rc, nodes, seen, moments, changes, opts, kind, scope, cont,
                     rows, rcSeen, facts, plans, scans>>
  BY DEF Classify, cluster, listing
<1>2. TypeOK'
  BY <1>1 DEF TypeOK, Scopes, ClusterWide
<1>3. ClusterInv'
  BY <1>1 DEF ClusterInv
<1>4. RowsInv'
  BY <1>1, RowsUndisturbed DEF TypeOK
<1>5. ReportOf(opts, rows, facts, results')
  BY <1>1, RowsAreObjects DEF ReportOf, TypeOK, ReportInv, RowsInv
<1>6. ReportInv'
  BY <1>1, <1>5 DEF ReportInv
<1> QED
  BY <1>2, <1>3, <1>4, <1>6

\* A plan is made of the report as it is.
LEMMA MakePlanKept ==
    ASSUME ScanInv, MakePlan
    PROVE  ScanInv'
<1> USE DEF ScanInv
<1>1. PICK options, f :
        plans' = plans \cup
          {[rows |-> rows, results |-> results, facts |-> facts, scan |-> opts,
            plan |-> PlanOf(results, options, scans, PlanWarnings(f, options.class))]}
  BY DEF MakePlan
<1> DEFINE p == [rows |-> rows, results |-> results, facts |-> facts, scan |-> opts,
                 plan |-> PlanOf(results, options, scans, PlanWarnings(f, options.class))]
<1>2. /\ pc = "report" /\ opts.command = "scan" /\ Cardinality(plans) < MaxPlans
      /\ plans' = plans \cup {p}
      /\ UNCHANGED <<objects, rc, nodes, seen, moments, changes, opts, pc, kind, scope, cont,
                     rows, rcSeen, facts, results, scans>>
  BY <1>1 DEF MakePlan, cluster, listing
<1>3. MadeOf(p)
  <2>1. /\ p.plan.steps = PlanSteps(results, options)
        /\ p.plan.excluded = Excluded(results, options)
        /\ p.plan.options = options
    BY DEF PlanOf
  <2>2. ReportOf(opts, rows, facts, results)
    BY <1>2 DEF ReportInv
  <2> QED
    BY <1>2, <2>1, <2>2 DEF MadeOf
<1> HIDE DEF p
<1>4. IsFiniteSet(plans') /\ Cardinality(plans') <= MaxPlans
  <2>1. /\ IsFiniteSet(plans)
        /\ Cardinality(plans) \in Nat /\ MaxPlans \in Nat
    BY ScanAssumption, FS_CardinalityType DEF ReportInv
  <2>2. /\ IsFiniteSet(plans \cup {p})
        /\ Cardinality(plans \cup {p}) <= Cardinality(plans) + 1
    BY <2>1, FS_AddElement
  <2>3. Cardinality(plans \cup {p}) \in Nat
    BY <2>2, FS_CardinalityType
  <2> QED
    BY <1>2, <2>1, <2>2, <2>3
<1>5. TypeOK'
  BY <1>2, <1>4 DEF TypeOK, Scopes, ClusterWide
<1>6. ClusterInv'
  BY <1>2 DEF ClusterInv
<1>7. RowsInv'
  BY <1>2, RowsUndisturbed DEF TypeOK
<1>8. ReportInv'
  <2>1. \A q \in plans' : MadeOf(q)
    BY <1>2, <1>3 DEF ReportInv
  <2>2. Sourced(opts', facts') /\ (pc' = "report" => ReportOf(opts, rows, facts, results)')
    BY <1>2 DEF ReportInv, Sourced, Refreshed
  <2>3. \A q \in plans' : MadeOf(q)'
    BY <2>1 DEF MadeOf, ReportOf, Sourced, Refreshed
  <2> QED
    BY <1>4, <2>2, <2>3 DEF ReportInv, Sourced, Refreshed
<1> QED
  BY <1>5, <1>6, <1>7, <1>8

\* Whatever comes and goes meanwhile, rows stay what objects once were.
LEMMA ChangeKept ==
    ASSUME ScanInv,
           \/ \E w \in Workload : WorkloadChanges(w)
           \/ \E n \in Node : NodeChanges(n)
           \/ RuntimeClassChanges
    PROVE  ScanInv'
<1> USE DEF ScanInv
<1>1. /\ pc \notin {"idle", "report", "failed"}
      /\ changes < MaxChanges /\ changes' = changes + 1
      /\ UNCHANGED <<opts, pc, kind, scope, cont, rows, rcSeen, facts, results,
                     plans, scans>>
  BY DEF WorkloadChanges, NodeChanges, RuntimeClassChanges, Meanwhile, listing
<1>2. /\ DOMAIN objects' = Workload /\ DOMAIN seen' = Workload
      /\ \A w \in Workload : /\ objects'[w] \in seen'[w]
                             /\ seen[w] \subseteq seen'[w]
                             /\ \A s \in seen'[w] : s = Absent \/ IsObject(w, s)
      /\ rc' \in RuntimeClasses /\ DOMAIN nodes' = Node
      /\ <<rc', nodes'>> \in moments'
  <2>1. ASSUME NEW v \in Workload, WorkloadChanges(v)
        PROVE  <1>2!:
    <3>1. PICK s \in ShapesOf[v] :
            /\ objects' = [objects EXCEPT ![v] = s]
            /\ seen' = [seen EXCEPT ![v] = @ \cup {s}]
            /\ UNCHANGED <<rc, nodes, moments>>
      BY <2>1 DEF WorkloadChanges
    <3>2. s = Absent \/ IsObject(v, s)
      BY ClusterAssumption
    <3> QED
      BY <3>1, <3>2 DEF TypeOK, ClusterInv
  <2>2. ASSUME \/ \E n \in Node : NodeChanges(n)
               \/ RuntimeClassChanges
        PROVE  <1>2!:
    <3>1. /\ UNCHANGED <<objects, seen>>
          /\ rc' \in RuntimeClasses
          /\ DOMAIN nodes' = DOMAIN nodes
          /\ <<rc', nodes'>> \in moments'
      BY <2>2 DEF NodeChanges, RuntimeClassChanges, TypeOK
    <3> QED
      BY <3>1 DEF TypeOK, ClusterInv
  <2> QED
    BY <2>1, <2>2
<1>3. TypeOK'
  BY <1>1, <1>2, ScanAssumption DEF TypeOK, Scopes, ClusterWide
<1>4. ClusterInv'
  BY <1>2 DEF ClusterInv
<1>5. RowsInv'
  BY <1>1, <1>2, RowsUndisturbed DEF TypeOK
<1>6. ReportInv'
  BY <1>1, ReportUndisturbed DEF ReportInv
<1> QED
  BY <1>3, <1>4, <1>5, <1>6

LEMMA ScanInvKept ==
    ASSUME ScanInv, [Next]_vars
    PROVE  ScanInv'
<1>1. CASE Start
  BY <1>1, StartKept
<1>2. CASE Proceed
  BY <1>2, ListPageKept, FilterKept, GetWorkloadKept, FactsKept, ClassifyKept
     DEF Proceed
<1>3. CASE MakePlan
  BY <1>3, MakePlanKept
<1>4. CASE CallFails \/ LoadFactsFails \/ FactsSkipped
  BY <1>4, FailureKept
<1>5. CASE \/ \E w \in Workload : WorkloadChanges(w)
           \/ \E n \in Node : NodeChanges(n)
           \/ RuntimeClassChanges
  BY <1>5, ChangeKept
<1>6. CASE UNCHANGED vars
  <2> USE DEF ScanInv
  <2>1. UNCHANGED <<objects, rc, nodes, seen, moments, changes, opts, pc, kind, scope, cont,
                    rows, rcSeen, facts, results, plans, scans>>
    BY <1>6 DEF vars, cluster, listing
  <2>2. TypeOK'
    BY <2>1 DEF TypeOK, Scopes, ClusterWide
  <2>3. ClusterInv'
    BY <2>1 DEF ClusterInv
  <2>4. RowsInv'
    BY <2>1, RowsUndisturbed DEF TypeOK
  <2>5. ReportInv'
    BY <2>1, ReportUndisturbed DEF ReportInv
  <2> QED
    BY <2>2, <2>3, <2>4, <2>5
<1> QED
  BY <1>1, <1>2, <1>3, <1>4, <1>5, <1>6 DEF Next

LEMMA ScanInvAlways == Spec => []ScanInv
<1>1. Init => ScanInv
  BY InitScanInv
<1>2. ScanInv /\ [Next]_vars => ScanInv'
  BY ScanInvKept
<1> QED
  BY <1>1, <1>2, PTL DEF Spec

-----------------------------------------------------------------------------
\* The variables keep their types: positions stay within the lists, facts are
\* there only once they are asked for, and no bound is overrun.
THEOREM ScanTypeCorrect == Spec => []TypeOK
<1>1. ScanInv => TypeOK
  BY DEF ScanInv
<1> QED
  BY <1>1, ScanInvAlways, PTL

\* No row of a scan is made up, or put together from two moments: it is what
\* the object was at some time of the scan, selected, and without a controller
\* among the kinds that the scan lists.
THEOREM RowsAreReal == Spec => []RowsWereReal
<1>1. ASSUME ScanInv PROVE RowsWereReal
  <2> SUFFICES ASSUME NEW r \in DOMAIN rows
               PROVE  /\ rows[r] \in seen[r[1]] \ {Absent}
                      /\ opts.selector => rows[r].selected
                      /\ opts.command # "assess" =>
                           \A o \in rows[r].owners : ~(o.controller /\ o.id \in Workload)
    BY DEF RowsWereReal
  <2>1. Real(r[1], rows[r]) /\ (opts.command # "assess" => ~Represented(r[1], rows[r]))
    BY <1>1 DEF ScanInv, RowsInv
  <2>2. IsObject(r[1], rows[r])
    BY <1>1, RowsAreObjects
  <2>3. ASSUME opts.command # "assess", NEW o \in rows[r].owners,
               o.controller, o.id \in Workload
        PROVE  FALSE
    <3>1. \/ KindOf[r[1]] = "Job" /\ o.kind = "CronJob"
          \/ KindOf[r[1]] = "Pod" /\ o.kind \in {"ReplicaSet", "StatefulSet", "DaemonSet", "Job"}
      BY <2>2, <2>3 DEF IsObject
    <3> QED
      BY <2>1, <2>3, <3>1 DEF Represented, HasControllerOfKind
  <2> QED
    BY <2>1, <2>3 DEF Real
<1> QED
  BY <1>1, ScanInvAlways, PTL

\* An explanation says of every rule that it did not fire, or what made it.
THEOREM EveryFindingHasEvidence == Spec => []EvidenceForEveryFinding
<1>1. ASSUME ScanInv PROVE EvidenceForEveryFinding
  <2> SUFFICES ASSUME pc = "report", opts.command = "explain", NEW w \in DOMAIN results
               PROVE  LET x == results[w]
                      IN  /\ DOMAIN x.findings \cup x.checked = DOMAIN Builtins
                          /\ DOMAIN x.findings \cap x.checked = {}
                          /\ \A r \in DOMAIN x.findings :
                               \E field \in DOMAIN NoEvidence : x.findings[r][field] # {}
    BY DEF EvidenceForEveryFinding
  <2> DEFINE registry == Registry(opts.rules)
             verdict == ClassifyWithFacts(rows[w], registry, facts)
             x == ExplainWorkload(rows[w], verdict, registry)
  <2>1. results[w] = x
    BY <1>1 DEF ScanInv, ReportInv, ReportOf
  <2>2. opts.rules \in Seq([id : STRING, severity : STRING])
    BY <1>1, ScanAssumption DEF ScanInv, TypeOK
  <2>3. DOMAIN registry = DOMAIN Builtins
    BY <2>2, RegistryTyped
  <2>4. DOMAIN verdict.reasons = Fired(rows[w])
    BY <2>2, VerdictTyped
  <2> HIDE DEF registry, verdict
  <2>5. /\ x.findings = [r \in Fired(rows[w]) |-> Evidence(r, rows[w])]
        /\ x.checked = DOMAIN Builtins \ Fired(rows[w])
    BY <2>3, <2>4 DEF ExplainWorkload
  <2>6. Fired(rows[w]) \subseteq DOMAIN Builtins
    BY DEF Fired
  <2>7. \A r \in Fired(rows[w]) :
          \E field \in DOMAIN NoEvidence : Evidence(r, rows[w])[field] # {}
    BY SomethingToShow
  <2>8. /\ results[w].findings = [r \in Fired(rows[w]) |-> Evidence(r, rows[w])]
        /\ results[w].checked = DOMAIN Builtins \ Fired(rows[w])
    BY <2>1, <2>5
  <2> HIDE DEF x
  <2>9. DOMAIN results[w].findings = Fired(rows[w])
    BY <2>8
  <2>10. \A r \in DOMAIN results[w].findings :
           \E field \in DOMAIN NoEvidence : results[w].findings[r][field] # {}
    BY <2>7, <2>8, <2>9
  <2> QED
    BY <2>6, <2>8, <2>9, <2>10
<1> QED
  BY <1>1, ScanInvAlways, PTL

\* Unless rules are overridden or workloads under review asked for, no plan
\* touches a workload that is to be kept off gVisor; and one that asks for a GPU
\* only when the file that the scan was given says of every node group it may
\* land on that nvproxy drives its card, on whose word it goes.
THEOREM NothingKeptOffIsPlanned == Spec => []PlansKeepOff
<1>1. ScanInv => PlansKeepOff
  BY PlanKeepsOff DEF ScanInv, ReportInv, PlansKeepOff
<1> QED
  BY <1>1, ScanInvAlways, PTL

\* Plans account for every row, and roll what is less at risk first.
THEOREM LowRiskRollsFirst == Spec => []LowRiskFirst
<1>1. ScanInv => LowRiskFirst
  BY PlansByRisk DEF ScanInv, ReportInv, LowRiskFirst
<1> QED
  BY <1>1, ScanInvAlways, PTL

-----------------------------------------------------------------------------
(* Page by page and list by list, what stays as it is and stays in view is   *)
(* behind the scan only if it has its row.                                   *)

\* The list that is being read is w's.
Here(w) == /\ KindOf[w] = Kinds[kind]
           /\ Scopes[scope] \in {"", NamespaceOf[w]}
\* Every list of w's, or the pages of it that w was to be on, have been read.
Behind(w) ==
    \/ pc # "list"
    \/ \E k \in 1..(kind - 1) : KindOf[w] = Kinds[k]
    \/ /\ KindOf[w] = Kinds[kind]
       /\ \E s \in 1..(scope - 1) : Scopes[s] \in {"", NamespaceOf[w]}
    \/ Here(w) /\ cont # Nothing /\ w \notin DOMAIN cont

Settled(w) ==
    InView(w) /\ seen[w] = {objects[w]} /\ ~Represented(w, objects[w])

ListInv ==
    /\ pc = "list" => opts.command # "assess"
    /\ pc = "filter" => opts.targets # {}
    /\ opts.targets = {} /\ pc \notin {"idle", "failed"} =>
         \A w \in Workload :
           Settled(w) /\ Behind(w) => \E r \in DOMAIN rows : r[1] = w
\* What has a row has been read, and is not read again.
OnceInv ==
    /\ pc = "list" => \A w \in DOMAIN cont : Here(w)
    /\ NamedOnce => \A r \in DOMAIN rows : r[2] = 1 /\ Behind(r[1])

\* A workload in view is in one of the scopes.
LEMMA InSomeScope ==
    ASSUME TypeOK, NEW w \in Workload, InView(w)
    PROVE  \E s \in DOMAIN Scopes : Scopes[s] \in {"", NamespaceOf[w]}
<1>1. CASE ClusterWide
  <2>1. 1 \in DOMAIN Scopes /\ Scopes[1] = ""
    BY <1>1 DEF Scopes
  <2> QED
    BY <2>1
<1>2. CASE ~ClusterWide
  BY <1>2 DEF InView, Scopes, ClusterWide
<1> QED
  BY <1>1, <1>2

\* What is behind after a page was behind before, or is on that page.
LEMMA PutBehind ==
    ASSUME ScanInv, ListPage, NEW w \in Workload, InView(w), Behind(w)'
    PROVE  \/ Behind(w)
           \/ w \in PageOf(IF cont = Nothing THEN Listed ELSE cont)
<1> USE DEF ScanInv
<1> DEFINE list == IF cont = Nothing THEN Listed ELSE cont
           last == Len(Scopes)
           in(s) == Scopes[s] \in {"", NamespaceOf[w]}
<1>1. /\ pc = "list"
      /\ cont' = Restrict(list, DOMAIN list \ PageOf(list))
      /\ IF cont' = Nothing THEN Advance ELSE UNCHANGED <<kind, scope, pc>>
      /\ UNCHANGED opts
  BY DEF ListPage
<1>2. Scopes' = Scopes
  BY <1>1 DEF Scopes, ClusterWide
<1>3. last \in Nat /\ DOMAIN Scopes = 1..last /\ scope \in 1..last
  BY ScopesTyped DEF TypeOK
<1>4. DOMAIN Kinds = 1..6 /\ Len(Kinds) = 6 /\ kind \in 1..6
  BY DEF Kinds, TypeOK
<1>5. Here(w) /\ ~Behind(w) => w \in DOMAIN list
  <2>1. CASE cont = Nothing
    BY <2>1, ListedTyped DEF Here, InView
  <2>2. CASE cont # Nothing
    BY <2>2 DEF Behind
  <2> QED
    BY <2>1, <2>2
<1>6. DOMAIN cont' = DOMAIN list \ PageOf(list)
  BY <1>1 DEF Restrict
<1> HIDE DEF list, last, in
<1>7. w \in DOMAIN list /\ w \notin DOMAIN cont' => w \in PageOf(list)
  BY <1>6
<1>8. CASE cont' # Nothing
  <2>1. UNCHANGED <<kind, scope, pc>>
    BY <1>1, <1>8
  <2>2. Behind(w) \/ (Here(w) /\ w \notin DOMAIN cont')
    BY <1>1, <1>2, <2>1 DEF Behind, Here
  <2> QED
    BY <1>5, <1>7, <2>2 DEF list
<1>9. CASE cont' = Nothing
  <2>1. w \notin DOMAIN cont'
    BY <1>9 DEF Nothing
  <2>2. \/ /\ scope < last
           /\ scope' = scope + 1 /\ UNCHANGED <<kind, pc>>
        \/ /\ ~(scope < last) /\ kind < 6
           /\ scope' = 1 /\ kind' = kind + 1 /\ UNCHANGED pc
        \/ ~(scope < last) /\ ~(kind < 6)
    BY <1>1, <1>4, <1>9 DEF Advance, last
  <2>3. PICK s \in 1..last : in(s)
    BY <1>3, InSomeScope DEF in
  <2>4. \/ pc' # "list"
        \/ \E k \in 1..(kind' - 1) : KindOf[w] = Kinds[k]
        \/ KindOf[w] = Kinds[kind'] /\ \E t \in 1..(scope' - 1) : in(t)
    BY <1>2, <1>9 DEF Behind, in
  <2>5. \/ \E k \in 1..(kind - 1) : KindOf[w] = Kinds[k]
        \/ KindOf[w] = Kinds[kind] /\ \E t \in 1..scope : in(t)
    <3>1. CASE scope < last /\ scope' = scope + 1 /\ UNCHANGED <<kind, pc>>
      BY <1>1, <1>3, <2>4, <3>1
    <3>2. CASE /\ ~(scope < last) /\ kind < 6
               /\ scope' = 1 /\ kind' = kind + 1 /\ UNCHANGED pc
      <4>1. PICK k \in 1..kind : KindOf[w] = Kinds[k]
        BY <1>1, <1>4, <2>4, <3>2
      <4> QED
        BY <1>3, <1>4, <2>3, <3>2, <4>1
    <3>3. CASE ~(scope < last) /\ ~(kind < 6)
      <4>1. PICK k \in 1..6 : KindOf[w] = Kinds[k]
        BY <1>4, PlannerAssumption
      <4> QED
        BY <1>3, <1>4, <2>3, <3>3, <4>1
    <3> QED
      BY <2>2, <3>1, <3>2, <3>3
  <2>6. Behind(w) \/ Here(w)
    <3>1. ASSUME KindOf[w] = Kinds[kind], NEW t \in 1..scope, in(t)
          PROVE  Behind(w) \/ Here(w)
      <4>1. t = scope \/ t \in 1..(scope - 1)
        BY <1>3
      <4> QED
        BY <3>1, <4>1 DEF Behind, Here, in
    <3> QED
      BY <2>5, <3>1 DEF Behind
  <2> QED
    BY <1>5, <1>7, <2>1, <2>6 DEF list
<1> QED
  BY <1>8, <1>9

\* A page gives every settled workload that it puts behind its row.
LEMMA ListPageCovers ==
    ASSUME ScanInv, ListInv, ListPage
    PROVE  ListInv'
<1> USE DEF ScanInv
<1> DEFINE list == IF cont = Nothing THEN Listed ELSE cont
<1>1. /\ pc = "list" /\ rows' = Appended(Kept(list))
      /\ UNCHANGED <<objects, seen, opts>>
      /\ pc' \in {"list", "facts", "filter"}
      /\ pc' = "filter" => opts.targets # {}
  BY AdvanceTyped DEF ListPage, Advance, cluster
<1>2. \A w \in DOMAIN list : w \in Workload /\ list[w] \in seen[w]
  BY ListedTyped DEF TypeOK, RowsInv, Real
<1> HIDE DEF list
<1>3. /\ DOMAIN rows \subseteq DOMAIN rows'
      /\ \A w \in DOMAIN Kept(list) : <<w, Copies(w) + 1>> \in DOMAIN rows'
  <2>1. DOMAIN Kept(list) \subseteq Workload
    BY <1>2, PageTyped
  <2>2. DOMAIN rows \subseteq Workload \X (Nat \ {0}) /\ IsFiniteSet(DOMAIN rows)
    BY DEF TypeOK, RowsInv
  <2> QED
    BY <1>1, <2>1, <2>2, AppendedTyped
<1>4. ASSUME opts.targets = {}, NEW w \in Workload, Settled(w)', Behind(w)'
      PROVE  \E r \in DOMAIN rows' : r[1] = w
  <2>1. Settled(w) /\ InView(w)
    BY <1>1, <1>4 DEF Settled, InView, Represented, HasControllerOfKind
  <2>2. CASE Behind(w)
    BY <1>1, <1>3, <1>4, <2>1, <2>2 DEF ListInv
  <2>3. CASE w \in PageOf(list)
    <3>1. list[w] = objects[w]
      BY <1>2, <2>1, <2>3 DEF Settled, PageOf
    <3>2. ~ShouldSkipSystem(w) /\ ~Represented(w, list[w])
      BY <2>1, <3>1 DEF Settled, InView, ShouldSkipSystem, ClusterWide
    <3>3. w \in DOMAIN Kept(list)
      BY <2>3, <3>2, PageTyped
    <3>4. <<w, Copies(w) + 1>> \in DOMAIN rows' /\ <<w, Copies(w) + 1>>[1] = w
      BY <1>3, <3>3
    <3> QED
      BY <3>4
  <2> QED
    BY <1>4, <2>1, <2>2, <2>3, PutBehind DEF list
<1> QED
  BY <1>1, <1>4 DEF ListInv

\* Steps that read no list, and leave the rows and the cluster.
LEMMA ListUndisturbed ==
    ASSUME ListInv, UNCHANGED <<objects, seen, opts, rows>>,
           \/ UNCHANGED <<pc, kind, scope, cont>>
           \/ pc \notin {"idle", "list", "failed"} /\ pc' \notin {"list", "filter"}
           \/ pc' = "failed"
    PROVE  ListInv'
<1>1. ASSUME NEW w \in Workload, Settled(w)', pc \notin {"idle", "failed"},
             opts.targets = {}, Behind(w)
      PROVE  \E r \in DOMAIN rows' : r[1] = w
  BY <1>1 DEF ListInv, Settled, InView, Represented, HasControllerOfKind
<1>2. CASE UNCHANGED <<pc, kind, scope, cont>>
  <2>1. \A w \in Workload : Behind(w)' => Behind(w)
    BY <1>2 DEF Behind, Here, Scopes, ClusterWide
  <2> QED
    BY <1>1, <1>2, <2>1 DEF ListInv
<1>3. CASE pc \notin {"idle", "list", "failed"} /\ pc' \notin {"list", "filter"}
  <2>1. \A w \in Workload : Behind(w)
    BY <1>3 DEF Behind
  <2> QED
    BY <1>1, <1>3, <2>1 DEF ListInv
<1>4. CASE pc' = "failed"
  BY <1>4 DEF ListInv
<1> QED
  BY <1>2, <1>3, <1>4

\* What is settled after a change was not what changed.
LEMMA ChangeCovers ==
    ASSUME ScanInv, ListInv,
           \/ \E w \in Workload : WorkloadChanges(w)
           \/ \E n \in Node : NodeChanges(n)
           \/ RuntimeClassChanges
    PROVE  ListInv'
<1> USE DEF ScanInv
<1>1. UNCHANGED <<opts, pc, kind, scope, cont, rows>>
  BY DEF WorkloadChanges, NodeChanges, RuntimeClassChanges, Meanwhile, listing
<1>2. ASSUME NEW w \in Workload, seen'[w] = {objects'[w]}
      PROVE  objects'[w] = objects[w] /\ seen'[w] = seen[w]
  <2>1. ASSUME NEW v \in Workload, WorkloadChanges(v)
        PROVE  objects'[w] = objects[w] /\ seen'[w] = seen[w]
    <3>1. PICK s : /\ s # objects[v]
                   /\ objects' = [objects EXCEPT ![v] = s]
                   /\ seen' = [seen EXCEPT ![v] = @ \cup {s}]
      BY <2>1 DEF WorkloadChanges
    <3>2. w # v
      BY <1>2, <3>1 DEF TypeOK, ClusterInv
    <3> QED
      BY <3>1, <3>2 DEF TypeOK, ClusterInv
  <2>2. CASE (\E n \in Node : NodeChanges(n)) \/ RuntimeClassChanges
    BY <2>2 DEF NodeChanges, RuntimeClassChanges
  <2> QED
    BY <2>1, <2>2
<1>3. \A w \in Workload : Settled(w)' => Settled(w)
  BY <1>1, <1>2 DEF Settled, InView, Represented, HasControllerOfKind
<1>4. \A w \in Workload : Behind(w)' => Behind(w)
  BY <1>1 DEF Behind, Here, Scopes, ClusterWide
<1> QED
  BY <1>1, <1>3, <1>4 DEF ListInv

LEMMA InitListInv == Init => ListInv
BY DEF Init, ListInv

LEMMA ListInvKept ==
    ASSUME ScanInv, ListInv, [Next]_vars
    PROVE  ListInv'
<1> USE DEF ScanInv
<1>1. CASE Start
  <2>1. /\ pc' \in {"get", "list"} /\ (pc' = "get" <=> opts'.command = "assess")
        /\ opts' \in Invocations
        /\ kind' = 1 /\ scope' = 1 /\ cont' = Nothing
    BY <1>1 DEF Start
  <2>2. pc' = "get" => opts'.targets # {}
    BY <2>1, ScanAssumption
  <2>3. pc' = "list" => \A w \in Workload : ~Behind(w)'
    BY <2>1 DEF Behind
  <2> QED
    BY <2>1, <2>2, <2>3 DEF ListInv
<1>2. CASE ListPage
  BY <1>2, ListPageCovers
<1>3. CASE Filter
  BY <1>3 DEF Filter, ListInv
<1>4. CASE GetWorkload
  <2>1. opts.targets # {} /\ UNCHANGED opts
    BY <1>4, ScanAssumption DEF GetWorkload, RowsInv, TypeOK
  <2>2. pc' \in {"failed", "facts"}
    BY <1>4 DEF GetWorkload
  <2> QED
    BY <2>1, <2>2 DEF ListInv
<1>5. CASE LoadFacts \/ GetRuntimeClass \/ ListNodes \/ Classify \/ FactsSkipped
  BY <1>5, ListUndisturbed
     DEF LoadFacts, GetRuntimeClass, ListNodes, Classify, FactsSkipped, cluster, listing
<1>6. CASE CallFails \/ LoadFactsFails
  BY <1>6, ListUndisturbed DEF CallFails, LoadFactsFails, cluster, listing
<1>7. CASE MakePlan
  BY <1>7, ListUndisturbed DEF MakePlan, cluster, listing
<1>8. CASE \/ \E w \in Workload : WorkloadChanges(w)
           \/ \E n \in Node : NodeChanges(n)
           \/ RuntimeClassChanges
  BY <1>8, ChangeCovers
<1>9. CASE UNCHANGED vars
  BY <1>9, ListUndisturbed DEF vars, cluster, listing
<1> QED
  BY <1>1, <1>2, <1>3, <1>4, <1>5, <1>6, <1>7, <1>8, <1>9 DEF Next, Proceed

\* What a page takes from the list, and what was behind before, is behind after.
LEMMA StaysBehind ==
    ASSUME ScanInv, OnceInv, ListPage, NEW w \in Workload,
           \/ Behind(w)
           \/ w \in PageOf(IF cont = Nothing THEN Listed ELSE cont)
    PROVE  Behind(w)'
<1> USE DEF ScanInv
<1> DEFINE list == IF cont = Nothing THEN Listed ELSE cont
           last == Len(Scopes)
           in(s) == Scopes[s] \in {"", NamespaceOf[w]}
<1>1. /\ pc = "list"
      /\ cont' = Restrict(list, DOMAIN list \ PageOf(list))
      /\ IF cont' = Nothing THEN Advance ELSE UNCHANGED <<kind, scope, pc>>
      /\ UNCHANGED opts
  BY DEF ListPage
<1>2. Scopes' = Scopes
  BY <1>1 DEF Scopes, ClusterWide
<1>3. last \in Nat /\ DOMAIN Scopes = 1..last /\ scope \in 1..last
  BY ScopesTyped DEF TypeOK
<1>4. DOMAIN Kinds = 1..6 /\ Len(Kinds) = 6 /\ kind \in 1..6
  BY DEF Kinds, TypeOK
<1>5. w \in PageOf(list) => Here(w) /\ w \in DOMAIN list
  <2>1. PageOf(list) \subseteq DOMAIN list
    BY DEF PageOf
  <2>2. CASE cont = Nothing
    BY <2>1, <2>2, ListedTyped DEF Here
  <2>3. CASE cont # Nothing
    BY <1>1, <2>1, <2>3 DEF OnceInv
  <2> QED
    BY <2>2, <2>3
<1>6. DOMAIN cont' = DOMAIN list \ PageOf(list)
  BY <1>1 DEF Restrict
<1>7. \/ \E k \in 1..(kind - 1) : KindOf[w] = Kinds[k]
      \/ KindOf[w] = Kinds[kind] /\ \E s \in 1..(scope - 1) : in(s)
      \/ Here(w) /\ w \notin DOMAIN cont'
  <2>1. CASE w \in PageOf(list)
    BY <1>5, <1>6, <2>1
  <2>2. CASE Behind(w)
    <3>1. Here(w) /\ cont # Nothing /\ w \notin DOMAIN cont => w \notin DOMAIN cont'
      BY <1>6
    <3> QED
      BY <1>1, <2>2, <3>1 DEF Behind, in
  <2> QED
    BY <2>1, <2>2 DEF list
<1> HIDE DEF list, last, in
<1>8. CASE cont' # Nothing
  BY <1>1, <1>2, <1>7, <1>8 DEF Behind, Here, in
<1>9. CASE cont' = Nothing
  <2>1. \/ \E k \in 1..(kind - 1) : KindOf[w] = Kinds[k]
        \/ KindOf[w] = Kinds[kind] /\ \E s \in 1..scope : in(s)
    <3>1. CASE KindOf[w] = Kinds[kind] /\ \E s \in 1..(scope - 1) : in(s)
      <4>1. \A s \in 1..(scope - 1) : s \in 1..scope
        BY <1>3
      <4> QED
        BY <3>1, <4>1
    <3>2. CASE Here(w)
      <4>1. scope \in 1..scope
        BY <1>3
      <4>2. in(scope) /\ KindOf[w] = Kinds[kind]
        BY <3>2 DEF Here, in
      <4> QED
        BY <4>1, <4>2
    <3> QED
      BY <1>7, <3>1, <3>2
  <2>2. \/ scope' = scope + 1 /\ UNCHANGED <<kind, pc>>
        \/ kind' = kind + 1 /\ UNCHANGED pc
        \/ pc' \in {"facts", "filter"}
    BY <1>1, <1>9 DEF Advance
  <2>3. CASE scope' = scope + 1 /\ UNCHANGED <<kind, pc>>
    <3>1. scope' - 1 = scope /\ kind' = kind
      BY <1>3, <2>3
    <3> QED
      BY <1>2, <2>1, <3>1 DEF Behind, in
  <2>4. CASE kind' = kind + 1 /\ UNCHANGED pc
    <3>1. \E k \in 1..(kind' - 1) : KindOf[w] = Kinds[k]
      BY <1>4, <2>1, <2>4
    <3> QED
      BY <3>1 DEF Behind
  <2>5. CASE pc' \in {"facts", "filter"}
    BY <2>5 DEF Behind
  <2> QED
    BY <2>2, <2>3, <2>4, <2>5
<1> QED
  BY <1>8, <1>9

\* No list shows what is behind, where no two lists show the same.
LEMMA NotListedAgain ==
    ASSUME ScanInv, OnceInv, NamedOnce, pc = "list",
           NEW w \in PageOf(IF cont = Nothing THEN Listed ELSE cont)
    PROVE  w \in Workload /\ ~Behind(w)
<1> USE DEF ScanInv
<1> DEFINE list == IF cont = Nothing THEN Listed ELSE cont
<1>1. w \in DOMAIN list
  BY DEF PageOf
<1>2. Here(w) /\ w \in Workload
  <2>1. CASE cont = Nothing
    BY <1>1, <2>1, ListedTyped DEF Here
  <2>2. CASE cont # Nothing
    BY <1>1, <2>2 DEF OnceInv, TypeOK
  <2> QED
    BY <2>1, <2>2
<1>3. \A k \in 1..(kind - 1) : KindOf[w] # Kinds[k]
  <2>1. kind \in 1..6 /\ KindOf[w] = Kinds[kind]
    <3>1. DOMAIN Kinds = 1..6
      BY DEF Kinds
    <3> QED
      BY <1>2, <3>1 DEF Here, TypeOK
  <2>2. \A j, k \in 1..6 : Kinds[j] = Kinds[k] => j = k
    BY DEF Kinds
  <2>3. \A k \in 1..(kind - 1) : k \in 1..6 /\ k # kind
    BY <2>1
  <2> QED
    BY <2>1, <2>2, <2>3
<1>4. \A s \in 1..(scope - 1) : Scopes[s] \notin {"", NamespaceOf[w]}
  <2>1. Len(Scopes) \in Nat /\ DOMAIN Scopes = 1..Len(Scopes) /\ scope \in 1..Len(Scopes)
    BY ScopesTyped DEF TypeOK
  <2>2. \A s \in 1..(scope - 1) : s \in DOMAIN Scopes /\ s # scope /\ scope \in DOMAIN Scopes
    BY <2>1
  <2> QED
    BY <1>2, <2>2 DEF NamedOnce, Here
<1>5. cont # Nothing => w \in DOMAIN cont
  BY <1>1
<1> QED
  BY <1>2, <1>3, <1>4, <1>5 DEF Behind

LEMMA InitOnceInv == Init => OnceInv
BY DEF Init, OnceInv, Nothing

LEMMA OnceInvKept ==
    ASSUME ScanInv, OnceInv, [Next]_vars
    PROVE  OnceInv'
<1> USE DEF ScanInv
<1>1. CASE Start
  <2>1. DOMAIN cont' = {} /\ DOMAIN rows' = {}
    BY <1>1 DEF Start, Nothing
  <2> QED
    BY <2>1 DEF OnceInv
<1>2. CASE ListPage
  <2> DEFINE list == IF cont = Nothing THEN Listed ELSE cont
  <2>1. /\ pc = "list" /\ rows' = Appended(Kept(list))
        /\ cont' = Restrict(list, DOMAIN list \ PageOf(list))
        /\ IF cont' = Nothing THEN Advance ELSE UNCHANGED <<kind, scope, pc>>
        /\ UNCHANGED opts
    BY <1>2 DEF ListPage
  <2>2. \A w \in DOMAIN list : w \in Workload /\ Here(w)
    <3>1. CASE cont = Nothing
      BY <3>1, ListedTyped DEF Here
    <3>2. CASE cont # Nothing
      BY <2>1, <3>2 DEF OnceInv, TypeOK
    <3> QED
      BY <3>1, <3>2
  <2>3. \A w \in DOMAIN cont' : Here(w)'
    <3>1. DOMAIN cont' \subseteq DOMAIN list
      BY <2>1 DEF Restrict
    <3>2. CASE cont' = Nothing
      BY <3>2 DEF Nothing
    <3>3. CASE cont' # Nothing
      BY <2>1, <2>2, <3>1, <3>3 DEF Here, Scopes, ClusterWide
    <3> QED
      BY <3>2, <3>3
  <2>4. NamedOnce' = NamedOnce
    BY <2>1 DEF NamedOnce, Scopes, ClusterWide
  <2>5. DOMAIN Kept(list) \subseteq Workload /\ DOMAIN Kept(list) \subseteq PageOf(list)
    BY <2>2, PageTyped
  <2>6. DOMAIN rows \subseteq Workload \X (Nat \ {0}) /\ IsFiniteSet(DOMAIN rows)
    BY DEF TypeOK, RowsInv
  <2> HIDE DEF list
  <2>7. ASSUME NamedOnce, NEW r \in DOMAIN rows'
        PROVE  r[2] = 1 /\ Behind(r[1])'
    <3>1. CASE r \in DOMAIN rows
      <4>1. r[1] \in Workload /\ r[2] = 1 /\ Behind(r[1])
        BY <2>6, <2>7, <3>1 DEF OnceInv
      <4> QED
        BY <1>2, <4>1, StaysBehind
    <3>2. CASE r \notin DOMAIN rows
      <4>1. r[1] \in DOMAIN Kept(list) /\ r[2] = Copies(r[1]) + 1
        BY <2>1, <2>5, <2>6, <3>2, AppendedTyped
      <4>2. r[1] \in PageOf(list) /\ r[1] \in Workload
        BY <2>5, <4>1
      <4>3. ~Behind(r[1])
        BY <2>1, <2>7, <4>2, NotListedAgain DEF list
      <4>4. {q \in DOMAIN rows : q[1] = r[1]} = {}
        BY <2>7, <4>3 DEF OnceInv
      <4>5. Copies(r[1]) = 0
        BY <4>4, FS_EmptySet DEF Copies
      <4>6. Behind(r[1])'
        BY <1>2, <4>2, StaysBehind DEF list
      <4> QED
        BY <4>1, <4>5, <4>6
    <3> QED
      BY <3>1, <3>2
  <2> QED
    BY <2>3, <2>4, <2>7 DEF OnceInv
<1>3. CASE Filter \/ GetWorkload
  <2>1. pc' \in {"failed", "facts"} /\ UNCHANGED opts
    BY <1>3 DEF Filter, GetWorkload
  <2>2. \A r \in DOMAIN rows' : r[2] = 1 \/ r \in DOMAIN rows
    BY <1>3 DEF Filter, GetWorkload, Restrict
  <2>3. NamedOnce' = NamedOnce
    BY <2>1 DEF NamedOnce, Scopes, ClusterWide
  <2>4. \A w : Behind(w)'
    BY <2>1 DEF Behind
  <2> QED
    BY <2>1, <2>2, <2>3, <2>4 DEF OnceInv
<1>4. CASE \/ LoadFacts \/ GetRuntimeClass \/ ListNodes \/ Classify
           \/ FactsSkipped \/ CallFails \/ LoadFactsFails
  <2>1. pc' # "list" /\ UNCHANGED <<opts, rows>>
    BY <1>4 DEF LoadFacts, GetRuntimeClass, ListNodes, Classify, FactsSkipped,
                CallFails, LoadFactsFails, listing
  <2>2. NamedOnce' = NamedOnce
    BY <2>1 DEF NamedOnce, Scopes, ClusterWide
  <2>3. \A w : Behind(w)'
    BY <2>1 DEF Behind
  <2> QED
    BY <2>1, <2>2, <2>3 DEF OnceInv
<1>5. CASE \/ MakePlan \/ UNCHANGED vars
           \/ \E w \in Workload : WorkloadChanges(w)
           \/ \E n \in Node : NodeChanges(n)
           \/ RuntimeClassChanges
  <2>1. UNCHANGED <<opts, pc, kind, scope, cont, rows>>
    BY <1>5 DEF MakePlan, WorkloadChanges, NodeChanges, RuntimeClassChanges, Meanwhile,
                vars, cluster, listing
  <2>2. NamedOnce' = NamedOnce
    BY <2>1 DEF NamedOnce, Scopes, ClusterWide
  <2>3. \A w : (Behind(w)' <=> Behind(w)) /\ (Here(w)' <=> Here(w))
    BY <2>1 DEF Behind, Here, Scopes, ClusterWide
  <2> QED
    BY <2>1, <2>2, <2>3 DEF OnceInv
<1> QED
  BY <1>1, <1>2, <1>3, <1>4, <1>5 DEF Next, Proceed

\* In a report of all the lists, a settled family member has a row just if
\* nothing in Workload controls it.
LEMMA RowOrController ==
    ASSUME ScanInv, ListInv, pc = "report", opts.targets = {},
           NEW v \in Workload, InView(v), seen[v] = {objects[v]},
           ~(KindOf[v] = "Pod" /\ Bare(v))
    PROVE  v \in {r[1] : r \in DOMAIN results} <=> Controllers(v) \cap Workload = {}
<1> USE DEF ScanInv
<1>1. DOMAIN results = DOMAIN rows
  BY DEF ReportInv, ReportOf
<1>2. IsObject(v, objects[v])
  BY DEF InView, ClusterInv
<1>3. opts.command # "assess"
  BY ScanAssumption DEF TypeOK
<1>4. v \in {r[1] : r \in DOMAIN rows} <=> ~Represented(v, objects[v])
  <2>1. \A r \in DOMAIN rows :
          r[1] = v => rows[r] = objects[v] /\ ~Represented(v, rows[r])
    BY <1>3 DEF RowsInv, Real
  <2>2. ~Represented(v, objects[v]) => \E r \in DOMAIN rows : r[1] = v
    BY DEF ListInv, Settled, Behind
  <2> QED
    BY <2>1, <2>2
<1>5. ASSUME Controllers(v) \cap Workload # {}
      PROVE  Represented(v, objects[v])
  <2>1. PICK o \in objects[v].owners : o.controller /\ o.id \in Workload
    BY <1>5 DEF Controllers
  <2>2. \/ KindOf[v] = "Job" /\ o.kind = "CronJob"
        \/ KindOf[v] = "Pod" /\ o.kind \in {"ReplicaSet", "StatefulSet", "DaemonSet", "Job"}
    BY <1>2, <2>1 DEF IsObject
  <2> QED
    BY <2>1, <2>2 DEF Represented, HasControllerOfKind
<1>6. ASSUME Represented(v, objects[v])
      PROVE  Controllers(v) \cap Workload # {}
  <2>1. PICK o \in objects[v].owners :
          /\ o.controller
          /\ \/ KindOf[v] = "Job" /\ o.kind = "CronJob"
             \/ KindOf[v] = "Pod" /\ o.kind \in {"ReplicaSet", "StatefulSet", "DaemonSet", "Job"}
    BY <1>6 DEF Represented, HasControllerOfKind
  <2>2. o.id \in Workload
    <3>1. \A k \in {"CronJob", "StatefulSet", "DaemonSet", "Job"} :
            k \in {Kinds[i] : i \in DOMAIN Kinds}
      <4>1. /\ Kinds[4] = "CronJob" /\ Kinds[2] = "StatefulSet"
            /\ Kinds[3] = "DaemonSet" /\ Kinds[5] = "Job"
            /\ {2, 3, 4, 5} \subseteq DOMAIN Kinds
        BY DEF Kinds
      <4> QED
        BY <4>1
    <3>2. o.kind = "ReplicaSet" => o.id \in Workload
      BY <2>1 DEF Bare
    <3>3. o.id \notin Workload => o.kind \notin {Kinds[i] : i \in DOMAIN Kinds}
      BY <1>2, <2>1 DEF IsObject
    <3> QED
      BY <2>1, <3>1, <3>2, <3>3, Zenon
  <2>3. o.id \in Controllers(v)
    BY <2>1 DEF Controllers
  <2> QED
    BY <2>2, <2>3
<1> QED
  BY <1>1, <1>4, <1>5, <1>6

\* What controls something is no pod.
LEMMA ControllersAreNoPods ==
    ASSUME NEW u \in Workload, IsObject(u, objects[u]),
           NEW v \in Controllers(u) \cap Workload
    PROVE  KindOf[v] # "Pod"
<1>1. PICK o \in objects[u].owners : o.controller /\ o.id = v
  BY DEF Controllers
<1> QED
  BY <1>1 DEF IsObject

\* However the cluster changes between the lists and their pages, a family of
\* workloads that stays as it is and in view gets rows for exactly one of them;
\* and no object gets two rows unless a namespace is named twice.
THEOREM FamiliesHaveOneRow == Spec => []OneRowPerFamily
<1>1. ASSUME ScanInv, ListInv, OnceInv PROVE OneRowPerFamily
  <2>0. pc = "report" /\ NamedOnce => \A r \in DOMAIN results : r[2] = 1
    BY <1>1 DEF ScanInv, ReportInv, ReportOf, OnceInv
  <2> SUFFICES ASSUME pc = "report", opts.targets = {}, NEW w \in Workload,
                      objects[w] # Absent, Steady(w), ~Bare(w), NEW v \in Family(w)
               PROVE  v \in {r[1] : r \in DOMAIN results}
                        <=> Controllers(v) \cap Workload = {}
    BY <2>0 DEF OneRowPerFamily
  <2>1. v \in Workload
    BY DEF Family
  <2>2. InView(v) /\ seen[v] = {objects[v]}
    BY DEF Steady
  <2>3. v = w \/ KindOf[v] # "Pod"
    <3>1. \A u \in Workload : objects[u] # Absent => IsObject(u, objects[u])
      BY <1>1 DEF ScanInv, TypeOK, ClusterInv
    <3> QED
      BY <3>1, ControllersAreNoPods DEF Family
  <2> QED
    BY <1>1, <2>1, <2>2, <2>3, RowOrController
<1>2. Init => ScanInv /\ ListInv /\ OnceInv
  BY InitScanInv, InitListInv, InitOnceInv
<1>3. ScanInv /\ ListInv /\ OnceInv /\ [Next]_vars => ScanInv' /\ ListInv' /\ OnceInv'
  BY ScanInvKept, ListInvKept, OnceInvKept
<1> QED
  BY <1>1, <1>2, <1>3, PTL DEF Spec
=============================================================================

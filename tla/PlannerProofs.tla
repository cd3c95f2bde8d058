---------------------------- MODULE PlannerProofs ----------------------------
(***************************************************************************)
(* What the planner's ranking and partition are, for every report and all   *)
(* options.  The order by risk and place is linear, so the positions of a   *)
(* set's members are different numbers, as many as there are members; an    *)
(* injection between finite sets of one size is onto, hence each position   *)
(* is taken and Order finds its workload.                                   *)
(***************************************************************************)
EXTENDS Planner, FiniteSetTheorems, TLAPS

\* Reports in which the rows of S have finitely many reasons.
Report(rows, S) ==
    /\ S \subseteq Nat \X Nat /\ IsFiniteSet(S)
    /\ \A w \in S : IsFiniteSet(DOMAIN rows[w].reasons)

\* A risk is a natural number.
LEMMA RiskInNat ==
    ASSUME NEW rows, NEW w, IsFiniteSet(DOMAIN rows[w].reasons)
    PROVE  Risk(rows, w) \in Nat
<1> DEFINE warns == {r \in DOMAIN rows[w].reasons : rows[w].reasons[r] = "warn"}
<1>1. Cardinality(warns) \in Nat
  <2>1. IsFiniteSet(warns)
    BY FS_Subset
  <2> QED
    BY <2>1, FS_CardinalityType
<1>2. WarnWeight(Cardinality(warns)) \in Nat
  BY DEF WarnWeight
<1>3. KindRiskWeight(KindOf[w[1]]) \in Nat
  BY DEF KindRiskWeight
<1>4. \A rule : InfoWeight(rows[w].reasons, rule) \in Nat
  BY DEF InfoWeight
<1> QED
  BY <1>2, <1>3, <1>4 DEF Risk, Score

\* The order of a plan is linear: of two rows one comes first.
LEMMA BeforeIsLinear ==
    ASSUME NEW rows, NEW S, Report(rows, S)
    PROVE  /\ \A v \in S : ~Before(rows, v, v)
           /\ \A u, v, w \in S :
                Before(rows, u, v) /\ Before(rows, v, w) => Before(rows, u, w)
           /\ \A v, w \in S : v # w => Before(rows, v, w) \/ Before(rows, w, v)
<1>1. \A w \in S : /\ Risk(rows, w) \in Nat
                   /\ w[1] \in Nat /\ w[2] \in Nat /\ w = <<w[1], w[2]>>
  BY RiskInNat DEF Report
<1>2. \A v, w \in S : v # w => v[1] # w[1] \/ v[2] # w[2]
  <2> SUFFICES ASSUME NEW v \in S, NEW w \in S, v[1] = w[1], v[2] = w[2]
               PROVE  v = w
    OBVIOUS
  <2> QED
    BY <1>1
<1> QED
  BY <1>1, <1>2 DEF Before

\* A position is a number between one and the number of candidates, and it
\* grows along the order.
LEMMA PositionsGrow ==
    ASSUME NEW rows, NEW S, Report(rows, S)
    PROVE  /\ \A w \in S : Position(rows, S, w) \in 1..Cardinality(S)
           /\ \A v, w \in S :
                Before(rows, v, w) => Position(rows, S, v) < Position(rows, S, w)
<1> DEFINE Below(w) == {u \in S : Before(rows, u, w)}
<1>1. /\ IsFiniteSet(S) /\ Cardinality(S) \in Nat
      /\ \A w \in S : IsFiniteSet(Below(w)) /\ Cardinality(Below(w)) \in Nat
  BY FS_Subset, FS_CardinalityType DEF Report
<1>2. ASSUME NEW w \in S PROVE Cardinality(Below(w)) < Cardinality(S)
  <2>1. Below(w) \in SUBSET S /\ w \notin Below(w)
    BY BeforeIsLinear
  <2>2. Below(w) # S
    BY <2>1
  <2> QED
    BY <1>1, <2>1, <2>2, FS_Subset
<1>3. ASSUME NEW v \in S, NEW w \in S, Before(rows, v, w)
      PROVE  Cardinality(Below(v)) < Cardinality(Below(w))
  <2>1. Below(v) \in SUBSET Below(w)
    BY <1>3, BeforeIsLinear
  <2>2. v \in Below(w) /\ v \notin Below(v)
    BY <1>3, BeforeIsLinear
  <2>3. Below(v) # Below(w)
    BY <2>2
  <2>4. /\ Cardinality(Below(v)) <= Cardinality(Below(w))
        /\ Cardinality(Below(w)) = Cardinality(Below(v)) => Below(w) = Below(v)
    BY <1>1, <2>1, FS_Subset
  <2> QED
    BY <1>1, <2>3, <2>4
<1>4. \A w \in S : Position(rows, S, w) = Cardinality(Below(w)) + 1
  BY DEF Position
<1> HIDE DEF Below
<1>5. \A w \in S : Position(rows, S, w) \in 1..Cardinality(S)
  BY <1>1, <1>2, <1>4
<1>6. \A v, w \in S :
        Before(rows, v, w) => Position(rows, S, v) < Position(rows, S, w)
  BY <1>1, <1>3, <1>4
<1> QED
  BY <1>5, <1>6

\* Order lists every candidate once, in the order by risk and place.
LEMMA OrderRanks ==
    ASSUME NEW rows, NEW S, Report(rows, S)
    PROVE  LET order == Order(rows, S)
           IN  /\ order \in [1..Cardinality(S) -> S]
               /\ \A w \in S : \E i \in 1..Cardinality(S) : order[i] = w
               /\ \A i, j \in 1..Cardinality(S) :
                    i < j <=> Before(rows, order[i], order[j])
<1> DEFINE N == 1..Cardinality(S)
           f == [w \in S |-> Position(rows, S, w)]
           order == Order(rows, S)
<1>1. IsFiniteSet(S) /\ Cardinality(S) \in Nat /\ IsFiniteSet(N)
      /\ Cardinality(N) = Cardinality(S)
  <2>1. IsFiniteSet(S) /\ Cardinality(S) \in Nat
    BY FS_CardinalityType DEF Report
  <2>2. IsFiniteSet(N) /\ Cardinality(N) = IF 1 > Cardinality(S) THEN 0
                                                  ELSE Cardinality(S) - 1 + 1
    BY <2>1, FS_Interval
  <2> QED
    BY <2>1, <2>2
<1>2. f \in [S -> N]
  BY PositionsGrow
<1>3. \A v, w \in S : f[v] = f[w] => v = w
  <2> SUFFICES ASSUME NEW v \in S, NEW w \in S, v # w PROVE f[v] # f[w]
    OBVIOUS
  <2>1. Before(rows, v, w) \/ Before(rows, w, v)
    BY BeforeIsLinear
  <2>2. f[v] < f[w] \/ f[w] < f[v]
    BY <2>1, PositionsGrow
  <2>3. f[v] \in Nat /\ f[w] \in Nat
    BY <1>1, <1>2
  <2> QED
    BY <2>2, <2>3
<1>4. f \in Surjection(S, N)
  <2>1. f \in Injection(S, N)
    BY <1>2, <1>3 DEF Injection, IsInjective
  <2> QED
    BY <1>1, <2>1, FS_Injection
<1>5. \A i \in N : \E w \in S : Position(rows, S, w) = i
  BY <1>4 DEF Surjection
<1>6. \A i \in N : order[i] \in S /\ Position(rows, S, order[i]) = i
  BY <1>5 DEF Order
<1>7. \A w \in S : \E i \in N : order[i] = w
  <2> SUFFICES ASSUME NEW w \in S PROVE order[f[w]] = w /\ f[w] \in N
    OBVIOUS
  <2>1. f[w] \in N
    BY <1>2
  <2> QED
    BY <1>3, <1>6, <2>1
<1>8. ASSUME NEW i \in N, NEW j \in N
      PROVE  i < j <=> Before(rows, order[i], order[j])
  <2>1. i = Position(rows, S, order[i]) /\ j = Position(rows, S, order[j])
        /\ order[i] \in S /\ order[j] \in S /\ i \in Nat /\ j \in Nat
    BY <1>1, <1>6
  <2>2. Before(rows, order[i], order[j]) => i < j
    BY <2>1, PositionsGrow
  <2>3. Before(rows, order[j], order[i]) => j < i
    BY <2>1, PositionsGrow
  <2>4. i < j => order[i] # order[j]
    BY <2>1
  <2>5. i < j => Before(rows, order[i], order[j])
    BY <2>1, <2>3, <2>4, BeforeIsLinear
  <2> QED
    BY <2>2, <2>5
<1>9. order \in [N -> S]
  BY <1>6 DEF Order
<1> QED
  BY <1>7, <1>8, <1>9

-----------------------------------------------------------------------------
\* A plan accounts for its report: what is included is planned, each row once,
\* in the order by risk and place; what is not is excluded; a workload that is
\* included may be moved, or is under review and was asked for, and is of a kind
\* whose patch the API server takes.
THEOREM PlanIsRanked ==
    ASSUME NEW rows, NEW options, Report(rows, DOMAIN rows)
    PROVE  LET S == Included(rows, options)
               order == Order(rows, S)
               steps == PlanSteps(rows, options)
               n == Cardinality(S)
           IN  /\ n \in Nat
               /\ DOMAIN steps = 1..n
               /\ order \in [1..n -> S]
               /\ \A r \in S : \E i \in 1..n : order[i] = r
               /\ \A i \in 1..n : steps[i] = Step(rows, options, order[i])
               /\ \A i, j \in 1..n : i < j <=> Before(rows, order[i], order[j])
               /\ S \cup Excluded(rows, options) = DOMAIN rows
               /\ S \cap Excluded(rows, options) = {}
               /\ \A r \in S :
                    /\ rows[r].compatibility \in {"compatible", "review"}
                    /\ rows[r].compatibility = "review" => options.includeReview
                    /\ KindOf[r[1]] \notin {"Pod", "Job"}
<1> DEFINE S == Included(rows, options)
           N == 1..Cardinality(S)
           order == Order(rows, S)
           steps == PlanSteps(rows, options)
<1>1. S \subseteq DOMAIN rows
  BY DEF Included
<1>2. Report(rows, S)
  BY <1>1, FS_Subset DEF Report
<1>3. /\ order \in [N -> S]
      /\ \A r \in S : \E i \in N : order[i] = r
      /\ \A i, j \in N : i < j <=> Before(rows, order[i], order[j])
  BY <1>2, OrderRanks
<1>4. /\ DOMAIN steps = N
      /\ \A i \in N : steps[i] = Step(rows, options, order[i])
  BY <1>3 DEF PlanSteps
<1>5. Cardinality(S) \in Nat
  BY <1>2, FS_CardinalityType DEF Report
<1>6. S \cup Excluded(rows, options) = DOMAIN rows /\ S \cap Excluded(rows, options) = {}
  BY <1>1 DEF Excluded
<1>7. \A r \in S : /\ rows[r].compatibility \in {"compatible", "review"}
                   /\ rows[r].compatibility = "review" => options.includeReview
                   /\ KindOf[r[1]] \notin {"Pod", "Job"}
  BY DEF Included, PatchableInPlace
<1> QED
  BY <1>3, <1>4, <1>5, <1>6, <1>7
=============================================================================

------------------------------ MODULE GateProofs ------------------------------
(***************************************************************************)
(* Gate for any nodes, RuntimeClasses and number of changes: the counts that*)
(* the gate decides by say enough about the nodes they were counted from.   *)
(***************************************************************************)
EXTENDS Gate, FiniteSetTheorems, TLAPS

\* What the preflight calls tainted is what repels the pod.
LEMMA TaintedRepels ==
  ASSUME NEW node \in Shapes, NEW class \in RuntimeClasses \ {NoRuntimeClass}
  PROVE  Tainted(node, class.tolerations) <=> Repels(node, class.tolerations)
<1>1. ASSUME NEW taint \in node.taints, NEW t \in class.tolerations
      PROVE  Tolerates(t, taint) <=>
               /\ t.effect = taint.effect \/ t.effect = ""
               /\ t.key = taint.key \/ (t.key = "" /\ t.operator = "Exists")
               /\ t.operator = "Exists" \/ t.value = taint.value
  BY AdmissionAssumption DEF Tolerates
<1>2. ASSUME NEW taint \in node.taints
      PROVE  Hard(taint) <=> taint.effect # "PreferNoSchedule"
  BY AdmissionAssumption DEF Hard
<1> QED
  BY <1>1, <1>2 DEF Tainted, Repels

\* Counting: the part of a finite set with some property is empty, all of it,
\* or neither, as its size is 0, the size of the set, or neither.
LEMMA Parts ==
  ASSUME NEW S, IsFiniteSet(S), NEW T \in SUBSET S
  PROVE  /\ Cardinality(S) \in Nat /\ Cardinality(T) \in Nat
         /\ Cardinality(T) <= Cardinality(S)
         /\ Cardinality(T) = 0 <=> T = {}
         /\ Cardinality(T) = Cardinality(S) <=> T = S
<1>1. IsFiniteSet(T) /\ Cardinality(T) <= Cardinality(S)
      /\ (Cardinality(S) = Cardinality(T) => S = T)
  BY FS_Subset
<1>2. Cardinality(S) \in Nat /\ Cardinality(T) \in Nat
  BY <1>1, FS_CardinalityType
<1>3. Cardinality(T) = 0 <=> T = {}
  BY <1>1, FS_EmptySet
<1> QED
  BY <1>1, <1>2, <1>3

\* The nodes that the RuntimeClass selects.
Selected(class, ns) == {n \in DOMAIN ns : Matches(class, ns[n])}

\* What the findings say of the nodes selected.
LEMMA FindingsMean ==
  ASSUME IsFiniteSet(Node), NEW ns \in [Node -> Shapes],
         NEW class \in RuntimeClasses \cup {NoRuntimeClass}
  PROVE  LET S == Selected(class, ns) IN
         IsBlocking(Evaluate(Collect(class, ns))) <=>
           \/ \A n \in S : ~ns[n].ready
           \/ \A n \in S : Tainted(ns[n], class.tolerations)
           \/ \A n \in S : IsAuto(ns[n])
           \/ \A n \in S : IsBottlerocket(ns[n])
<1> DEFINE S == Selected(class, ns)
           tolerations == IF class = NoRuntimeClass THEN {} ELSE class.tolerations
           R == {n \in S : ns[n].ready}
           T == {n \in S : Tainted(ns[n], tolerations)}
           A == {n \in S : IsAuto(ns[n])}
           B == {n \in S : IsBottlerocket(ns[n])}
           f == Collect(class, ns)
<1>1. /\ f.found <=> class # NoRuntimeClass
      /\ f.selector <=> class # NoRuntimeClass /\ class.selector # {}
      /\ f.matching = Cardinality(S) /\ f.matchingReady = Cardinality(R)
      /\ f.matchingTainted = Cardinality(T)
      /\ f.matchingAuto = Cardinality(A) /\ f.matchingBottlerocket = Cardinality(B)
  BY DEF Collect, Selected
<1>2. IsFiniteSet(S)
  BY FS_Subset DEF Selected
<1>3. class = NoRuntimeClass \/ class.selector = {} => S = {}
  BY DEF Selected, Matches
<1>4. T = {n \in S : Tainted(ns[n], class.tolerations)}
  BY <1>3
<1>5. /\ Cardinality(S) \in Nat
      /\ Cardinality(S) = 0 <=> S = {}
      /\ \A X \in SUBSET S : /\ Cardinality(X) \in Nat /\ Cardinality(X) <= Cardinality(S)
                             /\ Cardinality(X) = 0 <=> X = {}
                             /\ Cardinality(X) = Cardinality(S) <=> X = S
  BY <1>2, Parts
<1> HIDE DEF f, S, R, T, A, B
<1>6. IsBlocking(Evaluate(f)) <=>
        \/ IsBlocking(RuntimeClassFindings(f))
        \/ IsBlocking(TaintFindings(f))
        \/ IsBlocking(PlatformFindings(f))
  BY DEF IsBlocking, Evaluate
<1>7. /\ Finding("runtimeclass-missing", "error").severity = "error"
      /\ Finding("runtimeclass-no-node-selector", "error").severity = "error"
      /\ Finding("runtimeclass-no-matching-nodes", "error").severity = "error"
      /\ Finding("runtimeclass-no-ready-matching-nodes", "error").severity = "error"
      /\ Finding("runtimeclass-no-overhead", "info").severity # "error"
  BY DEF Finding
<1>8. IsBlocking(RuntimeClassFindings(f)) <=>
        ~f.found \/ ~f.selector \/ f.matching = 0 \/ f.matchingReady = 0
  BY <1>7 DEF IsBlocking, RuntimeClassFindings
<1>9. /\ ~IsBlocking({})
      /\ \A id, severity : IsBlocking({Finding(id, severity)}) <=> severity = "error"
      /\ \A X, Y : IsBlocking(X \cup Y) <=> IsBlocking(X) \/ IsBlocking(Y)
  BY DEF IsBlocking, Finding
<1>10. IsBlocking(TaintFindings(f)) <=>
         f.matching # 0 /\ f.matchingTainted # 0 /\ f.matchingTainted = f.matching
  BY <1>9 DEF TaintFindings
<1>11. ASSUME f.matching # 0
       PROVE  IsBlocking(PlatformFindings(f)) <=>
                \/ f.matching > 0 /\ f.matchingAuto > 0 /\ f.matchingAuto >= f.matching
                \/ /\ f.matching > 0 /\ f.matchingBottlerocket > 0
                   /\ f.matchingBottlerocket >= f.matching
  <2> DEFINE auto == IF f.matchingAuto > 0
                       THEN {Finding("eks-auto-mode-nodes",
                                     AllOrSome(f.matchingAuto, f.matching))} ELSE {}
             bottle == IF f.matchingBottlerocket > 0
                         THEN {Finding("bottlerocket-nodes",
                                       AllOrSome(f.matchingBottlerocket, f.matching))}
                         ELSE {}
  <2>1. IsBlocking(auto) <=> f.matchingAuto > 0 /\ f.matchingAuto >= f.matching
    BY <1>9 DEF AllOrSome
  <2>2. IsBlocking(bottle) <=>
          f.matchingBottlerocket > 0 /\ f.matchingBottlerocket >= f.matching
    BY <1>9 DEF AllOrSome
  <2>3. PlatformFindings(f) =
          (IF f.matching > 0 /\ f.matchingAuto > 0
             THEN {Finding("eks-auto-mode-nodes",
                           AllOrSome(f.matchingAuto, f.matching))} ELSE {})
          \cup
          (IF f.matching > 0 /\ f.matchingBottlerocket > 0
             THEN {Finding("bottlerocket-nodes",
                           AllOrSome(f.matchingBottlerocket, f.matching))} ELSE {})
    BY <1>11 DEF PlatformFindings
  <2> QED
    BY <1>9, <2>1, <2>2, <2>3
<1>12. R \in SUBSET S /\ T \in SUBSET S /\ A \in SUBSET S /\ B \in SUBSET S
  BY DEF R, T, A, B
<1>13. /\ R = {} <=> \A n \in S : ~ns[n].ready
       /\ T = S <=> \A n \in S : Tainted(ns[n], class.tolerations)
       /\ A = S <=> \A n \in S : IsAuto(ns[n])
       /\ B = S <=> \A n \in S : IsBottlerocket(ns[n])
  BY <1>4 DEF R, A, B
<1>14. CASE S = {}
  <2>1. IsBlocking(Evaluate(f))
    BY <1>1, <1>5, <1>6, <1>8, <1>14
  <2> QED
    BY <1>14, <2>1 DEF f, S
<1>15. CASE S # {}
  <2>1. f.found /\ f.selector /\ f.matching > 0
    BY <1>1, <1>3, <1>5, <1>15
  <2>2. IsBlocking(RuntimeClassFindings(f)) <=> R = {}
    BY <1>1, <1>5, <1>8, <1>12, <2>1
  <2>3. IsBlocking(TaintFindings(f)) <=> T = S
    BY <1>1, <1>5, <1>10, <1>12, <1>15, <2>1
  <2>4. IsBlocking(PlatformFindings(f)) <=> A = S \/ B = S
    <3>1. Cardinality(A) >= Cardinality(S) <=> A = S
      BY <1>5, <1>12
    <3>2. Cardinality(B) >= Cardinality(S) <=> B = S
      BY <1>5, <1>12
    <3>3. Cardinality(A) \in Nat /\ Cardinality(B) \in Nat /\ Cardinality(S) \in Nat
      BY <1>5, <1>12
    <3> QED
      BY <1>1, <1>11, <2>1, <3>1, <3>2, <3>3
  <2>5. IsBlocking(Evaluate(f)) <=> R = {} \/ T = S \/ A = S \/ B = S
    BY <1>6, <2>2, <2>3, <2>4
  <2> QED
    BY <1>13, <2>5 DEF f, S
<1> QED
  BY <1>14, <1>15

-----------------------------------------------------------------------------
\* Who has decided has read both, and the verdict went by what it read.
Read == /\ nodesSeen \in [Node -> Shapes]
        /\ rcSeen \in RuntimeClasses \cup {NoRuntimeClass}
        /\ ~Torn => [rc |-> rcSeen, nodes |-> nodesSeen] \in moments

\* Between the two reads, what has not changed is still as it was read.
Reading ==
    /\ Moment \in moments
    /\ "rc" \notin changed => rc = rcSeen
    /\ "nodes" \notin changed => [rc |-> rcSeen, nodes |-> nodes] \in moments

GInv ==
    /\ nodes \in [Node -> Shapes] /\ rc \in RuntimeClasses
    /\ rcSeen \in RuntimeClasses \cup {NoRuntimeClass}
    /\ pc \in {"start", "list", "decide", "apply", "end"}
    /\ pc # "end" => outcome = "none"
    /\ pc \in {"list", "decide"} => ~skip
    /\ changed \subseteq {"rc", "nodes"}
    /\ pc = "start" => changed = {}
    /\ pc = "list" => Reading
    /\ pc = "decide" => Read
    /\ (pc = "apply" \/ outcome = "ran") /\ ~skip => Read /\ ~IsBlocking(Findings)
    /\ outcome = "blocked" => Read /\ IsBlocking(Findings)

\* The initial states satisfy the invariant.
LEMMA InitGInv == Init => GInv
BY DEF Init, GInv

\* A change between the two reads is remembered.
LEMMA ChangeKeepsReading ==
  ASSUME GInv, NEW part \in {"rc", "nodes"}, Change(part), pc = "list",
         part = "rc" => UNCHANGED nodes, part = "nodes" => UNCHANGED rc
  PROVE  Reading'
<1>1. /\ changed' = changed \cup {part} /\ moments' = moments \cup {Moment'}
      /\ UNCHANGED rcSeen /\ Reading
  BY DEF Change, GInv
<1>2. Moment' \in moments'
  BY <1>1
<1>3. "rc" \notin changed' => (rc = rcSeen)'
  BY <1>1 DEF Reading
<1>4. "nodes" \notin changed' => [rc |-> rcSeen, nodes |-> nodes]' \in moments'
  BY <1>1 DEF Reading
<1> QED
  BY <1>2, <1>3, <1>4 DEF Reading

\* Somebody's change leaves the invariant as it is.
LEMMA ChangeKeepsGInv ==
  ASSUME GInv, NEW part \in {"rc", "nodes"}, Change(part),
         part = "rc" => UNCHANGED nodes, part = "nodes" => UNCHANGED rc,
         nodes' \in [Node -> Shapes], rc' \in RuntimeClasses
  PROVE  GInv'
<1>1. UNCHANGED <<skip, pc, rcSeen, nodesSeen, outcome>> /\ pc # "end"
  BY DEF Change
<1>2. CASE pc = "list"
  <2>1. Reading'
    BY <1>2, ChangeKeepsReading
  <2>2. changed' \subseteq {"rc", "nodes"}
    BY <1>2 DEF Change, GInv
  <2> QED
    BY <1>1, <1>2, <2>1, <2>2 DEF GInv
<1>3. CASE pc # "list"
  <2>1. UNCHANGED <<moments, changed>>
    BY <1>3 DEF Change, history
  <2> QED
    BY <1>1, <1>3, <2>1 DEF GInv, Read, Torn, Findings
<1> QED
  BY <1>2, <1>3

\* The invariant holds on through every step.
LEMMA NextGInv == GInv /\ [Next]_vars => GInv'
<1> SUFFICES ASSUME GInv, [Next]_vars PROVE GInv'
  OBVIOUS
<1> USE DEF GInv, cluster, history
<1>1. CASE GetRuntimeClass
  <2>1. Reading'
    BY <1>1 DEF GetRuntimeClass, Reading, Moment
  <2> QED
    BY <1>1, <2>1 DEF GetRuntimeClass
<1>2. CASE ListNodes
  <2>1. Read'
    BY <1>2 DEF ListNodes, Read, Reading, Torn, Moment
  <2> QED
    BY <1>2, <2>1 DEF ListNodes
<1>3. CASE PreflightError
  BY <1>3 DEF PreflightError
<1>4. CASE Decide
  BY <1>4 DEF Decide, Read, Torn, Findings
<1>5. CASE SkipPreflight
  BY <1>5 DEF SkipPreflight
<1>6. CASE RunApplier
  BY <1>6 DEF RunApplier, Read, Torn, Findings
<1>7. ASSUME NEW n \in Node, NodeChanges(n) PROVE GInv'
  BY <1>7, ChangeKeepsGInv DEF NodeChanges
<1>8. CASE RuntimeClassChanges
  BY <1>8, ChangeKeepsGInv DEF RuntimeClassChanges
<1>9. CASE UNCHANGED vars
  BY <1>9 DEF vars, Read, Reading, Torn, Moment, Findings
<1> QED
  BY <1>1, <1>2, <1>3, <1>4, <1>5, <1>6, <1>7, <1>8, <1>9 DEF Next

\* No apply of a plan that brings no toleration is refused while, from one of the
\* gate's reads to the other, a node could host the pods, unless both the
\* RuntimeClass and the nodes change between the two reads.
THEOREM NoRefusalForNothing == Spec => []BlockedRightly
<1>1. GInv => BlockedRightly
  <2> SUFFICES ASSUME GInv, outcome = "blocked", ~Torn
               PROVE  \E m \in moments : NoHost(m, {})
    BY DEF BlockedRightly
  <2> DEFINE m == [rc |-> rcSeen, nodes |-> nodesSeen]
  <2>1. /\ Read /\ IsBlocking(Evaluate(Collect(rcSeen, nodesSeen)))
        /\ m \in moments
    BY DEF GInv, Read, Findings
  <2>2. ASSUME NEW n \in Node, CanHost(rcSeen, nodesSeen[n], {}) PROVE FALSE
    <3>1. n \in Selected(rcSeen, nodesSeen) /\ rcSeen \in RuntimeClasses \ {NoRuntimeClass}
          /\ nodesSeen[n] \in Shapes
      BY <2>1, <2>2 DEF Read, CanHost, Matches, Selected
    <3>2. rcSeen.tolerations \cup {} = rcSeen.tolerations
      OBVIOUS
    <3>3. ~Tainted(nodesSeen[n], rcSeen.tolerations)
      BY <2>2, <3>1, <3>2, TaintedRepels DEF CanHost
    <3>4. /\ nodesSeen[n].ready /\ ~IsAuto(nodesSeen[n]) /\ ~IsBottlerocket(nodesSeen[n])
      BY <2>2 DEF CanHost, IsAuto, IsBottlerocket
    <3> QED
      BY <2>1, <3>1, <3>3, <3>4, FindingsMean, GateAssumption DEF Read
  <2>3. NoHost(m, {})
    BY <2>2 DEF NoHost
  <2> QED
    BY <2>1, <2>3
<1> QED
  BY <1>1, InitGInv, NextGInv, PTL DEF Spec

\* What runs without --skip-preflight had, for every single obstacle, a selected
\* node that was free of it, all at one moment between the gate's reads.
THEOREM OneCauseIsEnough == Spec => []SingleCauseBlocks
<1>1. GInv => SingleCauseBlocks
  <2> DEFINE m == [rc |-> rcSeen, nodes |-> nodesSeen]
             S == Selected(rcSeen, nodesSeen)
             Free(x) == LET U == {n \in Node : Matches(x.rc, x.nodes[n])} IN
                        /\ \E n \in U : x.nodes[n].ready
                        /\ \E n \in U : ~Repels(x.nodes[n], x.rc.tolerations)
                        /\ \E n \in U : ~IsAuto(x.nodes[n])
                        /\ \E n \in U : ~IsBottlerocket(x.nodes[n])
  <2> SUFFICES ASSUME GInv, outcome = "ran", ~skip, ~Torn
               PROVE  \E x \in moments : Free(x)
    BY DEF SingleCauseBlocks
  <2>1. Read /\ ~IsBlocking(Evaluate(Collect(rcSeen, nodesSeen))) /\ m \in moments
    BY DEF GInv, Findings, Read
  <2>2. /\ \E n \in S : nodesSeen[n].ready
        /\ \E n \in S : ~Tainted(nodesSeen[n], rcSeen.tolerations)
        /\ \E n \in S : ~IsAuto(nodesSeen[n])
        /\ \E n \in S : ~IsBottlerocket(nodesSeen[n])
    BY <2>1, FindingsMean, GateAssumption DEF Read
  <2>3. \A n \in S : nodesSeen[n] \in Shapes /\ rcSeen \in RuntimeClasses \ {NoRuntimeClass}
    BY <2>1 DEF Read, Selected, Matches
  <2>4. \E n \in S : ~Repels(nodesSeen[n], rcSeen.tolerations)
    BY <2>2, <2>3, TaintedRepels
  <2>5. S = {n \in Node : Matches(rcSeen, nodesSeen[n])}
    BY <2>1 DEF Read, Selected
  <2>6. m.rc = rcSeen /\ m.nodes = nodesSeen
    OBVIOUS
  <2> HIDE DEF m, S
  <2>7. Free(m)
    BY <2>2, <2>4, <2>5, <2>6
  <2> QED
    BY <2>1, <2>7
<1> QED
  BY <1>1, InitGInv, NextGInv, PTL DEF Spec
=============================================================================

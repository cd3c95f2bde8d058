----------------------------- MODULE VerifyProofs -----------------------------
(***************************************************************************)
(* Verify for any plan, nodes, first pods and bounds: what exit code 0 says, *)
(* that of the in-pod probe included, and that a report agrees with itself. *)
(***************************************************************************)
EXTENDS Verify, WellFoundedInduction, TLAPS

USE VerifyAssumption

Status == {"none", "ok", "mismatch", "error"}
Result == [status : Status, nodes : SUBSET Node, checked : BOOLEAN,
           mismatched : SUBSET Node]

\* TypeOK in parts: the cluster and what is owed in it; what the verifier has
\* listed of it; the rest of the verifier; and what only changes in passing.
PodsTyped ==
    /\ DOMAIN pods = Step /\ DOMAIN wanted = Step /\ DOMAIN owed = Step
    /\ \A s \in Step : /\ pods[s] \in [Names[s] -> Pods \cup {NoPod}]
                       /\ wanted[s] \in [Names[s] -> Class]
                       /\ owed[s] \subseteq Names[s]
    /\ where \in [Node -> {"in", "out", "gone"}]
SnapTyped == \A i \in DOMAIN snap : snap[i] \in Pods
VTyped ==
    /\ pc \in {"idle", "resolve", "runtimeClass", "nodes", "probe"}
    /\ cur \in 1 .. NSteps + 1
    /\ pc \in {"runtimeClass", "nodes", "probe"} =>
         cur \in Step /\ DOMAIN snap # {} /\ DOMAIN snap \subseteq Names[cur]
    /\ todo \subseteq HostsOf(snap) /\ (pc = "nodes" <=> todo # {})
    /\ rcMemo \in {"unread", "selector", "problem"}
    /\ nodeMemo \in [Node -> {"unread", "in", "out", "gone", "problem"}]
    /\ result \in [Step -> Result]
    /\ exit \in {"none", "zero", "four"}
RestTyped ==
    /\ steered \in BOOLEAN /\ inPodProbe \in BOOLEAN
    /\ faults \in Nat /\ churn \in Nat /\ faults + churn <= MaxTrouble
    /\ boxed \subseteq Step

\* Once a step is ok, a live pod of it on the old class is owed, for good, and so
\* is every one that its controller may still make.
Migrated(s) == \A i \in Live(s) : pods[s][i].class = "old" => i \in owed[s]
Covered(s)  == \A i \in Names[s] : wanted[s][i] = "old" => i \in owed[s]
Kept(s) == Migrated(s) /\ Covered(s)
OkMigrated ==
    /\ \A s \in Step : result[s].status = "ok" => Kept(s)
    /\ exit = "zero" => \A s \in Step : Kept(s)

\* What the memo says of the nodes S of a step: the nodes outside the selector,
\* up to the first that could not be judged.
Bad(n)    == nodeMemo[n] \in {"gone", "problem"}
OutOf(S)  == {n \in S : nodeMemo[n] = "out" /\ \A m \in S : m < n => ~Bad(m)}
Judged(S) == \A n \in S : nodeMemo[n] # "unread" \/ \E m \in S : m < n /\ Bad(m)

\* The steps that are through, the step in hand, and the steps to come.
Through(s) == s < cur \/ (s = cur /\ pc = "probe")
ToCome(s)  == s > cur \/ (s = cur /\ pc \in {"resolve", "runtimeClass"})
ByTheMemo ==
    \A s \in Step : Through(s) =>
        Judged(result[s].nodes) /\ result[s].mismatched = OutOf(result[s].nodes)
InHand ==
    pc = "nodes" =>
      LET S == result[cur].nodes IN
      /\ todo \subseteq S
      /\ \A n \in S \ todo :
           nodeMemo[n] \in {"in", "out"} /\ \A m \in todo : n < m
      /\ result[cur].mismatched = {n \in S \ todo : nodeMemo[n] = "out"}
Untouched ==
    \A s \in Step : ToCome(s) => result[s].nodes = {} /\ result[s].mismatched = {}

VInv == /\ VTyped /\ PodsTyped /\ SnapTyped
        /\ OkMigrated /\ ByTheMemo /\ InHand /\ Untouched

\* The initial states satisfy the invariant.
LEMMA InitVInv == Init => VInv
<1> SUFFICES ASSUME Init PROVE VInv
  OBVIOUS
<1>1. Unverified \in Result
  BY DEF Unverified, Result, Status
<1>2. VTyped
  <2>1. 1 \in 1 .. NSteps + 1 /\ HostsOf(snap) = {}
    BY DEF Init, HostsOf
  <2>2. result \in [Step -> Result]
    BY <1>1 DEF Init
  <2> QED
    BY <2>1, <2>2 DEF Init, VTyped
<1>3. PodsTyped
  <2>1. /\ DOMAIN pods = Step /\ DOMAIN wanted = Step /\ DOMAIN owed = Step
        /\ \A s \in Step : owed[s] = {}
        /\ where \in [Node -> {"in", "out", "gone"}]
    BY DEF Init
  <2>2. ASSUME NEW s \in Step PROVE pods[s] \in [Names[s] -> Pods \cup {NoPod}]
    <3>1. pods[s] \in UNION {[Names[t] -> FirstPods] : t \in Step} /\ DOMAIN pods[s] = Names[s]
      BY DEF Init
    <3>2. PICK t \in Step : pods[s] \in [Names[t] -> FirstPods]
      BY <3>1
    <3>3. pods[s] \in [Names[s] -> FirstPods]
      BY <3>1, <3>2
    <3> QED
      BY <3>3
  <2>3. ASSUME NEW s \in Step PROVE wanted[s] \in [Names[s] -> Class]
    <3>1. wanted[s] \in UNION {[Names[t] -> Class] : t \in Step} /\ DOMAIN wanted[s] = Names[s]
      BY DEF Init
    <3>2. PICK t \in Step : wanted[s] \in [Names[t] -> Class]
      BY <3>1
    <3> QED
      BY <3>1, <3>2
  <2> QED
    BY <2>1, <2>2, <2>3 DEF PodsTyped
<1>4. SnapTyped
  BY DEF Init, SnapTyped
<1>5. \A s \in Step : result[s] = Unverified
  BY DEF Init
<1>6. OkMigrated /\ Untouched
  BY <1>5 DEF Init, OkMigrated, Untouched, Unverified
<1>7. ByTheMemo /\ InHand
  BY DEF Init, ByTheMemo, Through, InHand, Step
<1> QED
  BY <1>2, <1>3, <1>4, <1>6, <1>7 DEF VInv

-----------------------------------------------------------------------------
(* The cluster. *)

\* A pod that is replaced by one that is dead, of the class wanted, or as it was,
\* leaves a step as it was to be.
LEMMA SetPodKeeps ==
  ASSUME PodsTyped, NEW s \in Step, NEW i \in Names[s], NEW p \in Pods \cup {NoPod},
         SetPod(s, i, p), UNCHANGED <<wanted, where, owed>>,
         \/ p = NoPod \/ p.terminating \/ p.phase = "Ended" \/ p.class = wanted[s][i]
         \/ i \in Live(s) /\ p.class = pods[s][i].class
  PROVE  PodsTyped' /\ \A t \in Step : Kept(t) => Kept(t)'
<1>1. /\ pods'[s] = [pods[s] EXCEPT ![i] = p]
      /\ \A t \in Step \ {s} : pods'[t] = pods[t]
      /\ DOMAIN pods' = Step
  BY DEF SetPod, PodsTyped
<1>2. pods'[s] \in [Names[s] -> Pods \cup {NoPod}]
  BY <1>1 DEF PodsTyped
<1>3. PodsTyped'
  BY <1>1, <1>2 DEF PodsTyped
<1>4. \A t \in Step : Covered(t) => Covered(t)'
  BY DEF Covered
<1>5. ASSUME NEW t \in Step, t # s, Migrated(t) PROVE Migrated(t)'
  BY <1>1, <1>5 DEF Migrated, Live, Existing
<1>6. ASSUME Kept(s), NEW j \in Live(s)', pods'[s][j].class = "old" PROVE j \in owed'[s]
  <2>1. j \in Names[s] /\ pods'[s][j] # NoPod /\ pods'[s][j].phase \in {"Pending", "Running"}
        /\ ~pods'[s][j].terminating
    BY <1>6 DEF Live, Existing
  <2>2. CASE j # i
    <3>1. pods'[s][j] = pods[s][j]
      BY <1>1, <2>1, <2>2 DEF PodsTyped
    <3> QED
      BY <1>6, <2>1, <3>1 DEF Kept, Migrated, Live, Existing
  <2>3. CASE j = i
    <3>1. pods'[s][j] = p
      BY <1>1, <2>3 DEF PodsTyped
    <3> QED
      BY <1>6, <2>1, <2>3, <3>1 DEF Kept, Migrated, Covered
  <2> QED
    BY <2>2, <2>3
<1>7. Kept(s) => Migrated(s)'
  BY <1>6 DEF Migrated
<1> QED
  BY <1>3, <1>4, <1>5, <1>7 DEF Kept

\* What the controllers want of a pod changes, and is owed if it is the old class.
LEMMA WantKeeps ==
  ASSUME PodsTyped, NEW s \in Step, NEW i \in Names[s], NEW c \in Class,
         wanted' = [wanted EXCEPT ![s][i] = c], UNCHANGED <<pods, where>>,
         \/ c = "expected" /\ UNCHANGED owed
         \/ owed' = [owed EXCEPT ![s] = @ \cup {i}]
  PROVE  PodsTyped' /\ \A t \in Step : Kept(t) => Kept(t)'
<1>1. /\ wanted'[s] = [wanted[s] EXCEPT ![i] = c] /\ DOMAIN wanted' = Step
      /\ \A t \in Step \ {s} : wanted'[t] = wanted[t]
  BY DEF PodsTyped
<1>2. /\ DOMAIN owed' = Step
      /\ \A t \in Step : owed[t] \subseteq owed'[t] /\ owed'[t] \subseteq Names[t]
      /\ c = "old" => i \in owed'[s]
  BY DEF PodsTyped
<1>3. wanted'[s] \in [Names[s] -> Class] /\ wanted'[s][i] = c
      /\ \A j \in Names[s] \ {i} : wanted'[s][j] = wanted[s][j]
  BY <1>1 DEF PodsTyped
<1>4. PodsTyped'
  BY <1>1, <1>2, <1>3 DEF PodsTyped
<1>5. ASSUME NEW t \in Step, Kept(t) PROVE Migrated(t)' /\ Covered(t)'
  <2>1. Migrated(t)'
    BY <1>2, <1>5 DEF Kept, Migrated, Live, Existing
  <2>2. Covered(t)'
    BY <1>1, <1>2, <1>3, <1>5 DEF Kept, Covered
  <2> QED
    BY <2>1, <2>2
<1> QED
  BY <1>4, <1>5 DEF Kept

\* Whatever happens to the cluster, an ok step stays as it was to be and the
\* verifier is where it was.
LEMMA ClusterKeeps ==
  ASSUME PodsTyped,
         \/ \E s \in Step : \E i \in Names[s] : Rollout(s, i) \/ Disturbed(s, i)
         \/ NodeChanges \/ RuntimeClassChanges
  PROVE  /\ PodsTyped' /\ \A t \in Step : Kept(t) => Kept(t)'
         /\ VerifierUnchanged
<1> USE DEF history
<1>1. ASSUME NEW s \in Step, NEW i \in Names[s], Rollout(s, i) \/ Disturbed(s, i)
      PROVE  /\ PodsTyped' /\ \A t \in Step : Kept(t) => Kept(t)'
             /\ VerifierUnchanged
  <2>1. pods[s][i] # NoPod => pods[s][i] \in Pods
    BY DEF PodsTyped
  <2>2. CASE Replace(s, i) \/ Evict(s, i)
    <3>1. pods[s][i] \in Pods
      BY <2>1, <2>2 DEF Replace, Evict, Live, Existing
    <3>2. [pods[s][i] EXCEPT !.terminating = TRUE] \in Pods
          /\ [pods[s][i] EXCEPT !.terminating = TRUE].terminating
      BY <3>1 DEF Pods
    <3> QED
      BY <2>2, <3>2, SetPodKeeps DEF Replace, Evict
  <2>3. CASE Removed(s, i) \/ CleanUp(s, i)
    BY <2>3, SetPodKeeps DEF Removed, CleanUp
  <2>4. CASE Create(s, i)
    <3>1. Pod(wanted[s][i], "Pending", 0) \in Pods
          /\ Pod(wanted[s][i], "Pending", 0).class = wanted[s][i]
      BY DEF Pod, Pods, PodsTyped
    <3> QED
      BY <2>4, <3>1, SetPodKeeps DEF Create
  <2>5. CASE Schedule(s, i)
    <3>1. PICK n \in Node : SetPod(s, i, [pods[s][i] EXCEPT !.phase = "Running", !.node = n])
      BY <2>5 DEF Schedule
    <3> DEFINE p == [pods[s][i] EXCEPT !.phase = "Running", !.node = n]
    <3>2. pods[s][i] \in Pods /\ pods[s][i].phase = "Pending" /\ i \in Existing(s)
      BY <2>1, <2>5 DEF Schedule, Existing
    <3>3. p \in Pods /\ p.class = pods[s][i].class /\ p.terminating = pods[s][i].terminating
      <4>1. n \in 0 .. N
        BY DEF Node
      <4> QED
        BY <3>2, <4>1 DEF Pods
    <3>4. p.terminating \/ i \in Live(s)
      BY <3>2, <3>3 DEF Live
    <3>5. UNCHANGED <<wanted, where, owed>> /\ VerifierUnchanged
      BY <2>5 DEF Schedule
    <3> HIDE DEF p
    <3> QED
      BY <3>1, <3>3, <3>4, <3>5, SetPodKeeps DEF p
  <2>6. CASE Complete(s, i)
    <3>1. [pods[s][i] EXCEPT !.phase = "Ended"] \in Pods
          /\ [pods[s][i] EXCEPT !.phase = "Ended"].phase = "Ended"
      BY <2>1, <2>6 DEF Complete, Existing, Pods
    <3> QED
      BY <2>6, <3>1, SetPodKeeps DEF Complete
  <2>7. CASE MoveOn(s, i) \/ Undo(s, i)
    BY <2>7, WantKeeps DEF MoveOn, Undo, Class
  <2> QED
    BY <1>1, <2>2, <2>3, <2>4, <2>5, <2>6, <2>7 DEF Rollout, Disturbed
<1>2. CASE NodeChanges
  BY <1>2 DEF NodeChanges, PodsTyped, Kept, Covered, Migrated, Live, Existing
<1>3. CASE RuntimeClassChanges
  BY <1>3 DEF RuntimeClassChanges, PodsTyped, Kept, Covered, Migrated, Live, Existing
<1> QED
  BY <1>1, <1>2, <1>3

-----------------------------------------------------------------------------
(* The verifier. *)

\* The step in hand gets a status, and nothing else changes in the report.
LEMMA Judgement ==
  ASSUME VTyped, cur \in Step, NEW v \in Status, Verdict(v)
  PROVE  /\ result' \in [Step -> Result]
         /\ result'[cur].status = v
         /\ \A s \in Step : /\ result'[s].nodes = result[s].nodes
                            /\ result'[s].mismatched = result[s].mismatched
                            /\ s # cur => result'[s] = result[s]
<1>1. result \in [Step -> Result]
  BY DEF VTyped, Result, Status
<1>2. result' = [result EXCEPT ![cur] = [result[cur] EXCEPT !.status = v]]
  BY <1>1 DEF Verdict
<1>3. [result[cur] EXCEPT !.status = v] \in Result
  BY <1>1 DEF Result
<1>4. result'[cur] = [result[cur] EXCEPT !.status = v]
  BY <1>1, <1>2
<1>5. /\ result'[cur].status = v /\ result'[cur].nodes = result[cur].nodes
      /\ result'[cur].mismatched = result[cur].mismatched
  BY <1>1, <1>4 DEF Result
<1> QED
  BY <1>1, <1>2, <1>3, <1>5

\* The pods listed are pods, and their nodes are nodes.
LEMMA Hosts == SnapTyped => HostsOf(snap) \subseteq Node
BY DEF SnapTyped, HostsOf, Pods, Node

\* The live pods of a step whose listed pods all match are migrated.
LEMMA MatchMigrates ==
  ASSUME PodsTyped, NEW s \in Step
  PROVE  /\ \A i \in DOMAIN Alive(s) : i \in Names[s] /\ Alive(s)[i] \in Pods
         /\ SpecMatches(Alive(s)) => \A i \in Live(s) : pods[s][i].class = "expected"
<1> DEFINE A == {i \in Existing(s) : ~pods[s][i].terminating /\ pods[s][i].phase # "Ended"}
<1>1. DOMAIN Alive(s) = A /\ \A i \in A : Alive(s)[i] = pods[s][i]
  BY DEF Alive, PodsOf
<1>2. \A i \in Live(s) : i \in A
  BY DEF Live
<1>3. \A i \in A : i \in Names[s] /\ pods[s][i] \in Pods
  BY DEF Existing, PodsTyped
<1> QED
  BY <1>1, <1>2, <1>3 DEF SpecMatches

\* A step moves on with no status, or with one that is not ok.
LEMMA ToNextStep ==
  ASSUME VInv, cur \in Step, NextStep, UNCHANGED <<pods, wanted, where, owed, rcMemo, nodeMemo, exit>>,
         Through(cur) \/ ToCome(cur),
         \/ UNCHANGED result
         \/ \E v \in Status : Verdict(v) /\ (v = "ok" => result[cur].status = "ok")
  PROVE  VInv'
<1> USE DEF VInv
<1>1. /\ result' \in [Step -> Result]
      /\ result'[cur].status = "ok" => result[cur].status = "ok"
      /\ \A s \in Step : /\ result'[s].nodes = result[s].nodes
                         /\ result'[s].mismatched = result[s].mismatched
                         /\ s # cur => result'[s] = result[s]
  BY Judgement DEF VTyped, Result, Status
<1>2. /\ pc' = "resolve" /\ cur' = cur + 1 /\ snap' = <<>> /\ todo' = {}
      /\ cur \in Nat /\ cur' \in 1 .. NSteps + 1
  BY DEF NextStep, Step
<1>3. VTyped'
  BY <1>1, <1>2 DEF VTyped, Result, Status
<1>4. PodsTyped' /\ SnapTyped'
  BY <1>2 DEF PodsTyped, SnapTyped
<1>5. OkMigrated'
  BY <1>1 DEF OkMigrated, Kept, Covered, Migrated, Live, Existing
<1>6. ASSUME NEW s \in Step, Through(s)'
      PROVE  (Judged(result[s].nodes) /\ result[s].mismatched = OutOf(result[s].nodes))'
  <2>1. s < cur \/ s = cur
    BY <1>2, <1>6 DEF Through, Step
  <2>2. CASE Through(s)
    BY <1>1, <2>2 DEF ByTheMemo, Judged, OutOf, Bad
  <2>3. CASE s = cur /\ ToCome(s)
    <3>1. result'[s].nodes = {} /\ result'[s].mismatched = {}
      BY <1>1, <2>3 DEF Untouched
    <3> QED
      BY <3>1 DEF Judged, OutOf
  <2> QED
    BY <2>1, <2>2, <2>3 DEF Through
<1>7. ByTheMemo' /\ InHand'
  BY <1>2, <1>6 DEF ByTheMemo, InHand
<1>8. Untouched'
  <2>1. \A s \in Step : ToCome(s)' => ToCome(s)
    BY <1>2 DEF ToCome, Step
  <2> QED
    BY <1>1, <2>1 DEF Untouched
<1> QED
  BY <1>3, <1>4, <1>5, <1>7, <1>8 DEF VInv

\* A node that is read for the first time changes nothing for the steps that
\* are through.
LEMMA MemoGrows ==
  ASSUME NEW S \in SUBSET Node, Judged(S), NEW n \in Node, NEW look,
         nodeMemo \in [Node -> {"unread", "in", "out", "gone", "problem"}],
         nodeMemo[n] = "unread", look # "unread", Remember(n, look)
  PROVE  Judged(S)' /\ OutOf(S)' = OutOf(S)
<1>1. nodeMemo'[n] = look /\ \A k \in Node \ {n} : nodeMemo'[k] = nodeMemo[k]
  BY DEF Remember
<1>2. \A k \in S : k \in Int
  BY DEF Node
<1>3. ASSUME NEW k \in Node, Bad(k) PROVE Bad(k)'
  BY <1>1, <1>3 DEF Bad
<1>4. Judged(S)'
  BY <1>1, <1>3 DEF Judged
<1>5. CASE n \notin S
  BY <1>1, <1>4, <1>5 DEF OutOf, Bad
<1>6. CASE n \in S
  <2>1. PICK m \in S : m < n /\ Bad(m)
    BY <1>6 DEF Judged
  <2>2. Bad(m)'
    BY <1>3, <2>1
  <2>3. ASSUME NEW k \in S PROVE k \in OutOf(S)' <=> k \in OutOf(S)
    <3>1. CASE k < n
      <4>1. \A j \in S : j < k => (Bad(j)' <=> Bad(j))
        BY <1>1, <1>2, <1>6, <3>1 DEF Bad
      <4> QED
        BY <1>1, <1>2, <3>1, <4>1 DEF OutOf
    <3>2. CASE ~(k < n)
      <4>1. m < k
        BY <1>2, <1>6, <2>1, <3>2
      <4> QED
        BY <2>1, <2>2, <4>1 DEF OutOf
    <3> QED
      BY <3>1, <3>2
  <2> QED
    BY <1>4, <2>3 DEF OutOf
<1> QED
  BY <1>4, <1>5, <1>6

\* The invariant holds on through every step of the verifier.
LEMMA VerifierKeeps == VInv /\ Verifier => VInv'
<1> SUFFICES ASSUME VInv, Verifier PROVE VInv'
  OBVIOUS
<1> USE DEF VInv
<1>1. CASE Begin
  <2>1. Unverified \in Result /\ \A s \in Step : result'[s] = Unverified
    BY <1>1 DEF Begin, Unverified, Result, Status
  <2>2. VTyped'
    BY <1>1, <2>1 DEF Begin, VTyped, Result, Status, Step
  <2>3. PodsTyped' /\ SnapTyped'
    BY <1>1 DEF Begin, cluster, PodsTyped, SnapTyped
  <2>4. OkMigrated' /\ Untouched'
    BY <1>1, <2>1 DEF Begin, OkMigrated, Untouched, Unverified
  <2>5. ByTheMemo' /\ InHand'
    BY <1>1 DEF Begin, ByTheMemo, Through, InHand, Step
  <2> QED
    BY <2>2, <2>3, <2>4, <2>5
<1>2. CASE Resolve
  <2>1. CASE NextStep
    <3>1. Verdict("error") \/ Verdict("mismatch")
      BY <1>2, <2>1 DEF Resolve, NextStep
    <3> QED
      BY <1>2, <2>1, <3>1, ToNextStep DEF Resolve, NextStep, cluster, ToCome, Status
  <2>2. CASE ~NextStep
    <3> DEFINE ps == Alive(cur)
    <3>1. /\ cur \in Step /\ pc = "resolve" /\ DOMAIN ps # {} /\ SpecMatches(ps)
          /\ Verdict("ok") /\ snap' = ps /\ pc' = "runtimeClass"
          /\ owed' = [owed EXCEPT ![cur] = {i \in Names[cur] : wanted[cur][i] = "old"}]
          /\ UNCHANGED <<pods, wanted, where, cur, todo, rcMemo, nodeMemo, exit>>
      BY <1>2, <2>2 DEF Resolve, cluster
    <3>2. \A i \in DOMAIN ps : i \in Names[cur] /\ ps[i] \in Pods
      BY <3>1, MatchMigrates
    <3>3. \A i \in Live(cur) : pods[cur][i].class = "expected"
      BY <3>1, MatchMigrates
    <3>4. /\ result' \in [Step -> Result] /\ result'[cur].status = "ok"
          /\ \A s \in Step : /\ result'[s].nodes = result[s].nodes
                             /\ result'[s].mismatched = result[s].mismatched
                             /\ s # cur => result'[s] = result[s]
      BY <3>1, Judgement DEF Status
    <3>5. todo = {}
      BY <3>1 DEF VTyped
    <3> HIDE DEF ps
    <3>6. VTyped'
      BY <3>1, <3>2, <3>4, <3>5 DEF VTyped, Result, Status
    <3>11. /\ DOMAIN owed' = Step
           /\ owed'[cur] = {i \in Names[cur] : wanted[cur][i] = "old"}
           /\ \A s \in Step \ {cur} : owed'[s] = owed[s]
      BY <3>1 DEF PodsTyped
    <3>7. PodsTyped' /\ SnapTyped'
      BY <3>1, <3>2, <3>11 DEF PodsTyped, SnapTyped
    <3>8. OkMigrated'
      <4>1. \A s \in Step \ {cur} : Kept(s) => Kept(s)'
        BY <3>1, <3>11 DEF Kept, Covered, Migrated, Live, Existing
      <4>2. ASSUME NEW c \in Step, c = cur PROVE Kept(c)'
        <5>1. Covered(c)'
          BY <3>1, <3>11, <4>2 DEF Covered
        <5>2. Migrated(c)'
          BY <3>1, <3>3, <4>2 DEF Migrated, Live, Existing
        <5> QED
          BY <5>1, <5>2 DEF Kept
      <4> QED
        BY <3>1, <3>4, <4>1, <4>2 DEF OkMigrated
    <3>9. ByTheMemo' /\ InHand'
      BY <3>1, <3>4 DEF ByTheMemo, InHand, Through, Judged, OutOf, Bad
    <3>10. Untouched'
      BY <3>1, <3>4 DEF Untouched, ToCome
    <3> QED
      BY <3>6, <3>7, <3>8, <3>9, <3>10
  <2> QED
    BY <2>1, <2>2
<1>3. CASE ReadRuntimeClass
  <2>1. /\ pc = "runtimeClass" /\ cur \in Step
        /\ UNCHANGED <<pods, wanted, where, owed, cur, snap, nodeMemo, exit>>
        /\ rcMemo' \in {"unread", "selector", "problem"}
    BY <1>3 DEF ReadRuntimeClass, cluster, history, VTyped
  <2>2. todo = {} /\ result[cur].nodes = {} /\ result[cur].mismatched = {}
    BY <2>1 DEF VTyped, Untouched, ToCome
  <2>3. PodsTyped' /\ SnapTyped'
    BY <2>1 DEF PodsTyped, SnapTyped
  <2>4. CASE pc' = "probe" /\ UNCHANGED <<result, todo>>
    <3>1. VTyped' /\ InHand'
      BY <2>1, <2>2, <2>4 DEF VTyped, InHand, HostsOf
    <3>2. OkMigrated'
      BY <2>1, <2>4 DEF OkMigrated, Kept, Covered, Migrated, Live, Existing
    <3>3. Judged(result[cur].nodes) /\ OutOf(result[cur].nodes) = {}
      BY <2>2 DEF Judged, OutOf
    <3>4. ByTheMemo'
      BY <2>1, <2>2, <2>4, <3>3 DEF ByTheMemo, Through, Judged, OutOf, Bad
    <3>5. Untouched'
      BY <2>1, <2>4 DEF Untouched, ToCome
    <3> QED
      BY <2>3, <3>1, <3>2, <3>4, <3>5
  <2>5. CASE /\ pc' = "nodes" /\ todo' = HostsOf(snap) /\ HostsOf(snap) # {}
             /\ result' = [result EXCEPT ![cur].nodes = HostsOf(snap)]
    <3>1. HostsOf(snap) \subseteq Node
      BY Hosts
    <3>2. /\ result' \in [Step -> Result]
          /\ result'[cur].nodes = HostsOf(snap) /\ result'[cur].mismatched = {}
          /\ result'[cur].status = result[cur].status
          /\ \A s \in Step : s # cur => result'[s] = result[s]
      <4>1. result[cur] \in Result
        BY <2>1 DEF VTyped, Result, Status
      <4>2. [result[cur] EXCEPT !.nodes = HostsOf(snap)] \in Result
        BY <3>1, <4>1 DEF Result
      <4>3. /\ [result[cur] EXCEPT !.nodes = HostsOf(snap)].nodes = HostsOf(snap)
            /\ [result[cur] EXCEPT !.nodes = HostsOf(snap)].mismatched = {}
            /\ [result[cur] EXCEPT !.nodes = HostsOf(snap)].status = result[cur].status
        BY <2>2, <4>1 DEF Result
      <4>4. result' = [result EXCEPT ![cur] = [result[cur] EXCEPT !.nodes = HostsOf(snap)]]
        BY <2>5
      <4>5. result \in [Step -> Result]
        BY DEF VTyped, Result, Status
      <4> QED
        BY <2>1, <4>2, <4>3, <4>4, <4>5
    <3>3. VTyped'
      BY <2>1, <2>5, <3>2 DEF VTyped, Result, Status, HostsOf
    <3>4. OkMigrated'
      BY <2>1, <3>2 DEF OkMigrated, Kept, Covered, Migrated, Live, Existing
    <3>5. InHand'
      BY <2>1, <2>5, <3>2 DEF InHand
    <3>8. \A s \in Step : /\ Through(s)' => Through(s) /\ s # cur
                          /\ ToCome(s)' => ToCome(s) /\ s # cur
      BY <2>1, <2>5 DEF Through, ToCome, Step
    <3>6. ByTheMemo'
      BY <2>1, <3>2, <3>8 DEF ByTheMemo, Judged, OutOf, Bad
    <3>7. Untouched'
      BY <3>2, <3>8 DEF Untouched
    <3> QED
      BY <2>3, <3>3, <3>4, <3>5, <3>6, <3>7
  <2> QED
    BY <1>3, <2>4, <2>5 DEF ReadRuntimeClass
<1>4. CASE ReadNode
  <2>1. PICK n \in todo :
          /\ \A m \in todo : n <= m
          /\ \/ Judge(n, nodeMemo[n]) /\ nodeMemo[n] # "unread" /\ UNCHANGED nodeMemo
             \/ /\ nodeMemo[n] = "unread"
                /\ \/ Judge(n, "problem") /\ Remember(n, "problem")
                   \/ Judge(n, where[n]) /\ Remember(n, where[n])
    BY <1>4 DEF ReadNode
  <2>2. /\ pc = "nodes" /\ cur \in Step /\ n \in Node
        /\ UNCHANGED <<pods, wanted, where, owed, cur, snap, rcMemo, exit>>
    BY <1>4, Hosts DEF ReadNode, cluster, history, VTyped
  <2>3. PICK look \in {"in", "out", "gone", "problem"} :
          /\ Judge(n, look) /\ nodeMemo'[n] = look
          /\ \/ nodeMemo[n] # "unread" /\ UNCHANGED nodeMemo
             \/ nodeMemo[n] = "unread" /\ Remember(n, look)
    BY <2>1, <2>2 DEF VTyped, PodsTyped, Remember
  <2>4. /\ nodeMemo' \in [Node -> {"unread", "in", "out", "gone", "problem"}]
        /\ \A k \in Node \ {n} : nodeMemo'[k] = nodeMemo[k]
    BY <2>2, <2>3 DEF VTyped, Remember
  <2>5. result \in [Step -> Result]
    BY DEF VTyped, Result, Status
  <2>6. ASSUME NEW S \in SUBSET Node, Judged(S)
        PROVE  Judged(S)' /\ OutOf(S)' = OutOf(S)
    <3>1. CASE UNCHANGED nodeMemo
      BY <2>6, <3>1 DEF Judged, OutOf, Bad
    <3>2. CASE nodeMemo[n] = "unread" /\ Remember(n, look)
      BY <2>2, <2>6, <3>2, MemoGrows DEF VTyped
    <3> QED
      BY <2>3, <3>1, <3>2
  <2>7. PodsTyped' /\ SnapTyped'
    BY <2>2 DEF PodsTyped, SnapTyped
  <2> DEFINE S == result[cur].nodes
             outside == result[cur].mismatched \cup (IF look = "out" THEN {n} ELSE {})
  <2>8. /\ todo \subseteq S /\ S \in SUBSET Node
        /\ \A k \in S \ todo : nodeMemo[k] \in {"in", "out"} /\ \A m \in todo : k < m
        /\ result[cur].mismatched = {k \in S \ todo : nodeMemo[k] = "out"}
    BY <2>2, <2>5 DEF InHand, Result
  <2>9. \A k \in S : k \in Int
    BY <2>8 DEF Node
  <2>10. /\ look \in {"gone", "problem"} => pc' = "probe" /\ todo' = {}
         /\ look \notin {"gone", "problem"} =>
              todo' = todo \ {n} /\ pc' = IF todo = {n} THEN "probe" ELSE "nodes"
    BY <2>3 DEF Judge
  <2>11. \A s \in Step : /\ Through(s)' => Through(s) \/ (s = cur /\ pc' = "probe")
                         /\ ToCome(s)' => ToCome(s) /\ s # cur
                         /\ Through(s) => s # cur
    <3>1. pc' \in {"nodes", "probe"} /\ cur' = cur /\ pc = "nodes"
      BY <2>2, <2>10
    <3> QED
      BY <2>2, <3>1 DEF Through, ToCome, Step
  <2>12. /\ result' \in [Step -> Result]
         /\ \A s \in Step \ {cur} : result'[s] = result[s]
         /\ result'[cur].nodes = S
         /\ result'[cur].status = "ok" => result[cur].status = "ok"
         /\ result'[cur].mismatched =
              IF look \in {"gone", "problem"} THEN result[cur].mismatched ELSE outside
    <3>1. CASE look \in {"gone", "problem"}
      BY <2>2, <2>3, <2>5, <3>1 DEF Judge
    <3>2. CASE look \notin {"gone", "problem"}
      <4> DEFINE status == IF todo = {n} /\ outside # {} THEN "mismatch"
                           ELSE result[cur].status
                 new == [result[cur] EXCEPT !.mismatched = outside,
                                            !.checked = (todo = {n}),
                                            !.status = status]
      <4>1. result' = [result EXCEPT ![cur] = new]
        BY <2>3, <3>2 DEF Judge
      <4>2. result[cur] \in Result /\ outside \in SUBSET Node /\ status \in Status
        BY <2>2, <2>5 DEF Result, Status
      <4>3. /\ new \in Result /\ new.nodes = S
            /\ new.mismatched = outside /\ new.status = status
        BY <4>2 DEF Result
      <4>4. status = "ok" => result[cur].status = "ok"
        OBVIOUS
      <4> HIDE DEF new, status
      <4> QED
        BY <2>2, <2>5, <3>2, <4>1, <4>3, <4>4
    <3> QED
      BY <3>1, <3>2
  <2>13. VTyped'
    BY <2>2, <2>4, <2>12, <2>10 DEF VTyped, Result, Status, HostsOf
  <2>14. OkMigrated'
    BY <2>2, <2>12 DEF OkMigrated, Kept, Covered, Migrated, Live, Existing
  <2>15. Untouched'
    BY <2>11, <2>12 DEF Untouched
  <2>16. InHand'
    <3>1. ASSUME pc' = "nodes"
          PROVE  /\ todo' \subseteq S
                 /\ \A k \in S \ todo' :
                      nodeMemo'[k] \in {"in", "out"} /\ \A m \in todo' : k < m
                 /\ result'[cur].mismatched = {k \in S \ todo' : nodeMemo'[k] = "out"}
      <4>1. look \in {"in", "out"} /\ todo' = todo \ {n}
        BY <2>10, <3>1
      <4>2. \A m \in todo' : n < m
        BY <2>1, <2>8, <2>9, <4>1
      <4>3. \A k \in S \ todo' : k = n \/ (k \in S \ todo /\ nodeMemo'[k] = nodeMemo[k])
        BY <2>4, <2>8, <4>1
      <4>4. \A k \in S \ todo' :
              nodeMemo'[k] \in {"in", "out"} /\ \A m \in todo' : k < m
        BY <2>3, <2>8, <4>1, <4>2, <4>3
      <4>5. \A k \in S \ todo : k # n /\ nodeMemo'[k] = nodeMemo[k]
        BY <2>4, <2>8
      <4>6. outside = {k \in S \ todo' : nodeMemo'[k] = "out"}
        BY <2>3, <2>8, <4>1, <4>3, <4>5
      <4> QED
        BY <2>8, <2>12, <4>1, <4>4, <4>6
    <3> HIDE DEF S
    <3>2. result'[cur'].nodes = S /\ cur' = cur
      BY <2>2, <2>12
    <3> QED
      BY <3>1, <3>2 DEF InHand
  <2>17. ASSUME pc' = "probe"
         PROVE  (Judged(result[cur].nodes) /\ result[cur].mismatched = OutOf(result[cur].nodes))'
    <3>1. PICK R \in SUBSET Node : R = S
      BY <2>8
    <3>2. /\ n \in R /\ R \subseteq Int /\ todo \subseteq R
          /\ \A k \in R \ todo : /\ k < n /\ k # n /\ nodeMemo'[k] = nodeMemo[k]
                                /\ nodeMemo'[k] \in {"in", "out"}
          /\ \A k \in todo : k = n \/ n < k
      BY <2>1, <2>4, <2>8, <2>9, <3>1
    <3>3. result[cur].mismatched = {k \in R \ todo : nodeMemo[k] = "out"}
      BY <2>8, <3>1
    <3> HIDE DEF S
    <3>4. CASE look \in {"gone", "problem"}
      <4>1. Bad(n)' /\ nodeMemo'[n] \notin {"out", "unread"}
        BY <2>3, <3>4 DEF Bad
      <4>2. Judged(R)'
        <5>1. ASSUME NEW k \in R
              PROVE  nodeMemo'[k] # "unread" \/ (n < k /\ Bad(n)')
          BY <3>2, <4>1
        <5> QED
          BY <3>2, <5>1 DEF Judged
      <4>3. \A k \in R : k \in OutOf(R)' <=> k \notin todo /\ nodeMemo[k] = "out"
        <5>1. ASSUME NEW k \in R, k \notin todo
              PROVE  k \in OutOf(R)' <=> nodeMemo[k] = "out"
          <6>1. \A j \in R : j < k => j \notin todo
            BY <3>2, <5>1
          <6>2. \A j \in R : j < k => ~Bad(j)'
            BY <3>2, <6>1 DEF Bad
          <6> QED
            BY <3>2, <5>1, <6>2 DEF OutOf
        <5>2. ASSUME NEW k \in todo PROVE k \notin OutOf(R)'
          BY <3>2, <4>1 DEF OutOf
        <5> QED
          BY <5>1, <5>2
      <4>4. OutOf(R)' = {k \in R \ todo : nodeMemo[k] = "out"}
        BY <4>3 DEF OutOf
      <4>5. result'[cur].nodes = R /\ result'[cur].mismatched = OutOf(R)'
        BY <2>12, <3>1, <3>3, <3>4, <4>4
      <4> QED
        BY <2>2, <4>2, <4>5 DEF Judged, OutOf, Bad
    <3>5. CASE look \in {"in", "out"}
      <4>1. todo = {n}
        BY <2>10, <2>17, <3>5
      <4>2. \A k \in R : nodeMemo'[k] \in {"in", "out"}
        BY <2>3, <3>2, <3>5, <4>1
      <4>3. Judged(R)' /\ OutOf(R)' = {k \in R : nodeMemo'[k] = "out"}
        BY <4>2 DEF Judged, OutOf, Bad
      <4>4. outside = {k \in R : nodeMemo'[k] = "out"}
        BY <2>3, <3>2, <3>3, <3>5, <4>1
      <4>5. result'[cur].nodes = R /\ result'[cur].mismatched = OutOf(R)'
        BY <2>12, <3>1, <3>5, <4>3, <4>4
      <4> QED
        BY <2>2, <4>3, <4>5 DEF Judged, OutOf, Bad
    <3> QED
      BY <3>4, <3>5
  <2>18. ByTheMemo'
    <3>1. ASSUME NEW s \in Step, Through(s)', s # cur
          PROVE  (Judged(result[s].nodes) /\ result[s].mismatched = OutOf(result[s].nodes))'
      <4>1. PICK R \in SUBSET Node : R = result[s].nodes
        BY <2>5 DEF Result
      <4>2. Judged(R) /\ result[s].mismatched = OutOf(R)
        BY <2>11, <3>1, <4>1 DEF ByTheMemo
      <4>3. Judged(R)' /\ OutOf(R)' = OutOf(R)
        BY <2>6, <4>2
      <4>4. result'[s].nodes = R /\ result'[s].mismatched = OutOf(R)'
        BY <2>12, <3>1, <4>1, <4>2, <4>3
      <4> QED
        BY <4>3, <4>4 DEF Judged, OutOf, Bad
    <3> QED
      BY <2>2, <2>11, <2>17, <3>1 DEF ByTheMemo
  <2> QED
    BY <2>7, <2>13, <2>14, <2>15, <2>16, <2>18
<1>5. CASE ExecProbe
  <2>1. \E v \in Status : Verdict(v) /\ (v = "ok" => result[cur].status = "ok")
    BY <1>5 DEF ExecProbe, Status, ProbeVerdict
  <2>2. cur \in Step /\ Through(cur)
    BY <1>5 DEF ExecProbe, VTyped, Through
  <2> QED
    BY <1>5, <2>1, <2>2, ToNextStep DEF ExecProbe, cluster, history
<1>6. CASE SkipProbe
  <2>1. cur \in Step /\ Through(cur)
    BY <1>6 DEF SkipProbe, VTyped, Through
  <2> QED
    BY <1>6, <2>1, ToNextStep DEF SkipProbe, cluster, history
<1>7. CASE Report
  <2>1. /\ pc = "resolve" /\ pc' = "idle" /\ cur = NSteps + 1
        /\ UNCHANGED <<pods, wanted, where, owed, cur, snap, todo, rcMemo, nodeMemo, result>>
    BY <1>7 DEF Report, cluster, history, VTyped, Step
  <2>2. exit' \in {"zero", "four"} /\ (exit' = "zero" => \A s \in Step : result[s].status = "ok")
    BY <1>7 DEF Report
  <2>3. VTyped' /\ PodsTyped' /\ SnapTyped'
    BY <2>1, <2>2 DEF VTyped, PodsTyped, SnapTyped, HostsOf
  <2>4. OkMigrated'
    BY <2>1, <2>2 DEF OkMigrated, Kept, Covered, Migrated, Live, Existing
  <2>5. ByTheMemo' /\ InHand' /\ Untouched'
    BY <2>1 DEF ByTheMemo, InHand, Untouched, Through, ToCome, Judged, OutOf, Bad
  <2> QED
    BY <2>3, <2>4, <2>5
<1> QED
  BY <1>1, <1>2, <1>3, <1>4, <1>5, <1>6, <1>7 DEF Verifier

\* The invariant holds on through every step.
LEMMA NextVInv == VInv /\ [Next]_vars => VInv'
<1> SUFFICES ASSUME VInv, [Next]_vars PROVE VInv'
  OBVIOUS
<1>1. CASE Verifier
  BY <1>1, VerifierKeeps
<1>2. CASE \/ \E s \in Step : \E i \in Names[s] : Rollout(s, i) \/ Disturbed(s, i)
           \/ NodeChanges \/ RuntimeClassChanges
  <2>1. /\ PodsTyped' /\ \A t \in Step : Kept(t) => Kept(t)'
        /\ UNCHANGED <<pc, cur, snap, todo, rcMemo, nodeMemo, result, exit>>
    BY <1>2, ClusterKeeps DEF VInv, VerifierUnchanged
  <2>2. VTyped' /\ SnapTyped'
    BY <2>1 DEF VInv, VTyped, SnapTyped, HostsOf
  <2>3. OkMigrated'
    BY <2>1 DEF VInv, OkMigrated
  <2>4. ByTheMemo' /\ InHand' /\ Untouched'
    BY <2>1 DEF VInv, ByTheMemo, InHand, Untouched, Through, ToCome, Judged, OutOf, Bad
  <2> QED
    BY <2>1, <2>2, <2>3, <2>4 DEF VInv
<1>3. CASE UNCHANGED vars
  <2>1. UNCHANGED <<pods, wanted, where, owed, pc, cur, snap, todo, rcMemo, nodeMemo, result, exit>>
    BY <1>3 DEF vars, cluster, history
  <2>2. VTyped' /\ PodsTyped' /\ SnapTyped'
    BY <2>1 DEF VInv, VTyped, PodsTyped, SnapTyped, HostsOf
  <2>3. OkMigrated'
    BY <2>1 DEF VInv, OkMigrated, Kept, Covered, Migrated, Live, Existing
  <2>4. ByTheMemo' /\ InHand' /\ Untouched'
    BY <2>1 DEF VInv, ByTheMemo, InHand, Untouched, Through, ToCome, Judged, OutOf, Bad
  <2> QED
    BY <2>2, <2>3, <2>4 DEF VInv
<1> QED
  BY <1>1, <1>2, <1>3 DEF Next

-----------------------------------------------------------------------------
(* The history of the steps that ran under runsc. *)

\* The history misses no pod that runs under runsc now, and with the in-pod probe
\* it has every step that is through and still ok.
BoxInv ==
    /\ InSandbox \subseteq boxed
    /\ inPodProbe =>
         /\ \A s \in Step : s < cur /\ result[s].status = "ok" => s \in boxed
         /\ exit = "zero" => Step \subseteq boxed
AllInv == VInv /\ RestTyped /\ BoxInv

\* The initial states satisfy the invariant.
LEMMA InitAllInv == Init => AllInv
<1> SUFFICES ASSUME Init PROVE AllInv
  OBVIOUS
<1>1. RestTyped
  BY DEF Init, RestTyped, InSandbox
<1>2. BoxInv
  BY DEF Init, BoxInv, Step
<1> QED
  BY <1>1, <1>2, InitVInv DEF AllInv

\* A pod that does not run, or runs as before, adds no step to those under runsc.
LEMMA NoneBoxed ==
  ASSUME PodsTyped, NEW s \in Step, NEW i \in Names[s], NEW p, SetPod(s, i, p),
         \/ p = NoPod \/ p.phase # "Running"
         \/ /\ pods[s][i] # NoPod /\ p.phase = pods[s][i].phase
            /\ p.class = pods[s][i].class /\ p.node = pods[s][i].node
  PROVE  InSandbox' \subseteq InSandbox
<1>1. /\ pods'[s] = [pods[s] EXCEPT ![i] = p]
      /\ \A t \in Step \ {s} : pods'[t] = pods[t]
  BY DEF SetPod, PodsTyped
<1>2. \A t \in Step : \A j \in Names[t] : pods'[t][j] = IF t = s /\ j = i THEN p ELSE pods[t][j]
  BY <1>1 DEF PodsTyped
<1> QED
  BY <1>2 DEF InSandbox, Sandboxed

\* Whatever happens to the cluster, the history keeps up.
LEMMA ClusterBoxes ==
  ASSUME PodsTyped, RestTyped, InSandbox \subseteq boxed,
         \/ \E s \in Step : \E i \in Names[s] : Rollout(s, i) \/ Disturbed(s, i)
         \/ NodeChanges \/ RuntimeClassChanges
  PROVE  RestTyped' /\ InSandbox' \subseteq boxed' /\ boxed \subseteq boxed'
<1> USE DEF history, VerifierUnchanged
<1>1. Churn /\ faults' = faults => churn' \in Nat /\ faults' + churn' <= MaxTrouble
  BY DEF Churn, RestTyped
<1>2. InSandbox' \subseteq Step
  BY DEF InSandbox
<1>3. ASSUME NEW s \in Step, NEW i \in Names[s], Rollout(s, i) \/ Disturbed(s, i)
      PROVE  RestTyped' /\ InSandbox' \subseteq boxed' /\ boxed \subseteq boxed'
  <2>1. pods[s][i] # NoPod => pods[s][i] \in Pods
    BY DEF PodsTyped
  <2>2. RestTyped'
    BY <1>1, <1>2, <1>3 DEF Rollout, Disturbed, Replace, Removed, CleanUp, MoveOn, Create,
       Schedule, Evict, Complete, Undo, RestTyped
  <2>3. CASE Replace(s, i) \/ Evict(s, i)
    <3> DEFINE p == [pods[s][i] EXCEPT !.terminating = TRUE]
    <3>1. /\ pods[s][i] # NoPod /\ p.phase = pods[s][i].phase
          /\ p.class = pods[s][i].class /\ p.node = pods[s][i].node
      BY <2>1, <2>3 DEF Replace, Evict, Live, Existing, Pods
    <3> QED
      BY <2>2, <2>3, <3>1, NoneBoxed DEF Replace, Evict
  <2>4. CASE Removed(s, i) \/ CleanUp(s, i)
    BY <2>2, <2>4, NoneBoxed DEF Removed, CleanUp
  <2>5. CASE MoveOn(s, i) \/ Undo(s, i)
    BY <2>2, <2>5 DEF MoveOn, Undo, InSandbox
  <2>6. CASE Create(s, i)
    BY <2>2, <2>6, NoneBoxed DEF Create, Pod
  <2>7. CASE Schedule(s, i)
    BY <2>2, <2>7 DEF Schedule
  <2>8. CASE Complete(s, i)
    <3>1. [pods[s][i] EXCEPT !.phase = "Ended"].phase = "Ended"
      BY <2>1, <2>8 DEF Complete, Existing, Pods
    <3> QED
      BY <2>2, <2>8, <3>1, NoneBoxed DEF Complete
  <2> QED
    BY <1>3, <2>3, <2>4, <2>5, <2>6, <2>7, <2>8 DEF Rollout, Disturbed
<1>4. CASE NodeChanges
  BY <1>1, <1>4 DEF NodeChanges, RestTyped, InSandbox
<1>5. CASE RuntimeClassChanges
  BY <1>1, <1>5 DEF RuntimeClassChanges, RestTyped, InSandbox
<1> QED
  BY <1>3, <1>4, <1>5

\* Some number of a set is the least.
LEMMA MinIsMember ==
  ASSUME NEW S \in SUBSET Nat, S # {}
  PROVE  Min(S) \in S
<1>1. PICK x \in S : \A y \in S : <<y, x>> \notin OpToRel(<, Nat)
  BY NatLessThanWellFounded, WFMin
<1>2. ASSUME NEW y \in S PROVE x <= y
  <2>1. x \in Nat /\ y \in Nat
    OBVIOUS
  <2>2. ~(y < x)
    BY <1>1, <2>1 DEF OpToRel
  <2> QED
    BY <2>1, <2>2
<1> QED
  BY <1>2 DEF Min

\* The verifier passes a step as ok, after the probe, only if the pod of the name
\* it had listed runs under runsc at that moment.
LEMMA VerifierBoxes ==
  ASSUME AllInv, Verifier
  PROVE  RestTyped' /\ BoxInv'
<1> USE DEF AllInv, VInv, history
<1>1. UNCHANGED <<pods, where, steered, inPodProbe, churn>> /\ InSandbox' = InSandbox
  BY DEF Verifier, Begin, Resolve, ReadRuntimeClass, ReadNode, ExecProbe, SkipProbe, Report,
     cluster, InSandbox
<1>2. faults' \in Nat /\ faults' + churn' <= MaxTrouble
  BY DEF Verifier, Begin, Resolve, ReadRuntimeClass, ReadNode, ExecProbe, SkipProbe, Report,
     Fault, RestTyped
<1>3. CASE Begin
  <2>1. cur' = 1 /\ exit' = "none" /\ boxed' = InSandbox /\ \A s \in Step : ~(s < 1)
    BY <1>3 DEF Begin, Step
  <2> QED
    BY <1>1, <1>2, <2>1 DEF RestTyped, BoxInv, InSandbox
<1>4. CASE ~Begin
  <2>1. UNCHANGED boxed /\ RestTyped'
    BY <1>1, <1>2, <1>4 DEF Verifier, Resolve, ReadRuntimeClass, ReadNode, ExecProbe, SkipProbe,
       Report, RestTyped
  <2>2. \A v \in Status : cur \in Step /\ Verdict(v) =>
           result'[cur].status = v /\ \A s \in Step \ {cur} : result'[s] = result[s]
    BY Judgement
  <2>3. ASSUME cur \in Step, cur' = cur + 1, UNCHANGED exit,
               \A s \in Step \ {cur} : result'[s] = result[s],
               inPodProbe /\ result'[cur].status = "ok" => cur \in boxed
        PROVE  BoxInv'
    <3>1. \A s \in Step : s < cur' => s < cur \/ s = cur
      BY <2>3 DEF Step
    <3> QED
      BY <1>1, <2>1, <2>3, <3>1 DEF BoxInv
  <2>4. ASSUME UNCHANGED <<cur, exit>>, \A s \in Step : s < cur => result'[s] = result[s]
        PROVE  BoxInv'
    BY <1>1, <2>1, <2>4 DEF BoxInv
  <2>5. CASE Resolve
    <3>1. cur \in Step /\ UNCHANGED exit /\ \A s \in Step : s < cur => s # cur
      BY <2>5 DEF Resolve, Step
    <3>2. CASE NextStep
      <4>1. Verdict("error") \/ Verdict("mismatch")
        BY <2>5, <3>2 DEF Resolve, NextStep
      <4> QED
        BY <2>1, <2>2, <2>3, <3>1, <3>2, <4>1 DEF Status, NextStep
    <3>3. CASE ~NextStep
      <4>1. Verdict("ok") /\ UNCHANGED cur
        BY <2>5, <3>3 DEF Resolve
      <4> QED
        BY <2>1, <2>2, <2>4, <3>1, <4>1 DEF Status
    <3> QED
      BY <3>2, <3>3
  <2>6. CASE ReadRuntimeClass \/ ReadNode
    <3>1. UNCHANGED <<cur, exit>> /\ \A s \in Step : s < cur => s # cur
      BY <2>6 DEF ReadRuntimeClass, ReadNode, VTyped, Step
    <3>2. \A s \in Step \ {cur} : result'[s] = result[s]
      BY <2>6 DEF ReadRuntimeClass, ReadNode, Judge, VTyped
    <3> QED
      BY <2>1, <2>4, <3>1, <3>2
  <2>7. CASE ExecProbe
    <3>1. cur \in Step /\ UNCHANGED exit /\ cur' = cur + 1 /\ pc = "probe"
      BY <2>7 DEF ExecProbe, VTyped, NextStep
    <3>2. PICK v \in Status : Verdict(v)
      BY <2>7 DEF ExecProbe, Status, ProbeVerdict
    <3>3. ASSUME result'[cur].status = "ok" PROVE cur \in boxed
      <4>1. PICK i : /\ i = Min(Running(snap)) /\ Running(snap) # {}
                     /\ pods[cur][i] # NoPod /\ pods[cur][i].phase = "Running"
                     /\ Verdict(ProbeVerdict(pods[cur][i]))
        BY <2>2, <2>7, <3>1, <3>3 DEF ExecProbe, Status
      <4>2. i \in Names[cur]
        <5>1. Running(snap) \in SUBSET Nat /\ Running(snap) \subseteq Names[cur]
          BY <3>1 DEF VTyped, Running
        <5> QED
          BY <4>1, <5>1, MinIsMember
      <4>3. Sandboxed(pods[cur][i])
        BY <2>2, <3>1, <3>3, <4>1 DEF ProbeVerdict, Status
      <4>4. cur \in InSandbox
        BY <3>1, <4>1, <4>2, <4>3 DEF InSandbox
      <4> QED
        BY <4>4 DEF BoxInv
    <3> QED
      BY <2>1, <2>2, <2>3, <3>1, <3>2, <3>3
  <2>8. CASE SkipProbe
    <3>1. cur \in Step /\ UNCHANGED <<exit, result>> /\ cur' = cur + 1
          /\ (inPodProbe => result[cur].status # "ok")
      BY <2>8 DEF SkipProbe, VTyped, NextStep
    <3> QED
      BY <2>1, <2>3, <3>1
  <2>9. CASE Report
    <3>1. cur = NSteps + 1 /\ UNCHANGED <<cur, result>>
          /\ (exit' = "zero" => \A s \in Step : result[s].status = "ok")
      BY <2>9 DEF Report, VTyped, Step
    <3>2. \A s \in Step : s < cur
      BY <3>1 DEF Step
    <3> QED
      BY <1>1, <2>1, <3>1, <3>2 DEF BoxInv
  <2> QED
    BY <1>4, <2>1, <2>5, <2>6, <2>7, <2>8, <2>9 DEF Verifier
<1> QED
  BY <1>3, <1>4

\* The invariant holds on through every step.
LEMMA NextAllInv == AllInv /\ [Next]_vars => AllInv'
<1> SUFFICES ASSUME AllInv, [Next]_vars PROVE AllInv'
  OBVIOUS
<1>1. VInv'
  BY NextVInv DEF AllInv
<1>2. CASE Verifier
  BY <1>1, <1>2, VerifierBoxes DEF AllInv
<1>3. CASE \/ \E s \in Step : \E i \in Names[s] : Rollout(s, i) \/ Disturbed(s, i)
           \/ NodeChanges \/ RuntimeClassChanges
  <2>1. RestTyped' /\ InSandbox' \subseteq boxed' /\ boxed \subseteq boxed'
    BY <1>3, ClusterBoxes DEF AllInv, VInv, BoxInv
  <2>2. UNCHANGED <<inPodProbe, cur, result, exit>>
    BY <1>3, ClusterKeeps DEF AllInv, VInv, VerifierUnchanged
  <2>3. BoxInv'
    BY <2>1, <2>2 DEF AllInv, BoxInv
  <2> QED
    BY <1>1, <2>1, <2>3 DEF AllInv
<1>4. CASE UNCHANGED vars
  BY <1>1, <1>4 DEF AllInv, RestTyped, BoxInv, InSandbox, vars, cluster, history
<1> QED
  BY <1>2, <1>3, <1>4 DEF Next

\* The variables keep their types, those of the cluster and of the history too.
THEOREM TypeCorrect == Spec => []TypeOK
<1>1. AllInv => TypeOK
  BY DEF AllInv, VInv, PodsTyped, SnapTyped, VTyped, RestTyped, Result, Status, TypeOK
<1> QED
  BY <1>1, InitAllInv, NextAllInv, PTL DEF Spec

\* After exit code 0 of `verify`, then and from then on, a live pod on the old class
\* is one that its controller still had to make when the step was listed, or was
\* told to make since.
THEOREM ExitZeroSound == Spec => []ExitZeroMigrated
<1>1. AllInv => ExitZeroMigrated
  BY DEF AllInv, VInv, OkMigrated, Kept, Migrated, ExitZeroMigrated
<1> QED
  BY <1>1, InitAllInv, NextAllInv, PTL DEF Spec

\* In one report, steps on the same nodes are placed alike.
THEOREM PlacementConsistent == Spec => []SamePlacement
<1>1. AllInv => SamePlacement
  BY DEF AllInv, VInv, ByTheMemo, Through, SamePlacement
<1> QED
  BY <1>1, InitAllInv, NextAllInv, PTL DEF Spec

\* With --in-pod-probe, exit code 0 means that runsc ran a pod of every step since
\* the run began, though pods end, are evicted and come back under the same name.
THEOREM ExitZeroInSandbox == Spec => []ExitZeroSandboxed
<1>1. AllInv => ExitZeroSandboxed
  BY DEF AllInv, RestTyped, BoxInv, ExitZeroSandboxed
<1> QED
  BY <1>1, InitAllInv, NextAllInv, PTL DEF Spec
=============================================================================

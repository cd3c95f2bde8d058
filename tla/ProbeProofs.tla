----------------------------- MODULE ProbeProofs -----------------------------
(***************************************************************************)
(* Probe for any invocations, nodes and bounds: one pod name for all is as  *)
(* good as a name for each, as long as nobody else deletes the pod, and what*)
(* a run created is on its way out when the run is done.                    *)
(***************************************************************************)
EXTENDS Probe, TLAPS

USE ProbeAssumption, NoPodAssumption

Holding == {"wait", "log", "delete"}
PC == Ended \cup {"preflight", "pick", "create"} \cup Holding

\* The name belongs to whoever is between the creation and the deletion.
Held(r) == /\ pod # NoPod /\ ~pod.terminating
           /\ pod.creator = r /\ pod.node = node[r]
NameHeld == deletes = 0 => \A r \in Run : pc[r] \in Holding => Held(r)
\* A pod is the work of a run that has come to its creation.
Created  == pod # NoPod => pc[pod.creator] \in Holding \cup Ended
\* An answer is given once, after the node was picked.
Answered == \A r \in Run : outcome[r] = "succeeded" => pc[r] \in {"delete"} \cup Ended

PInv == /\ TypeOK /\ deletes \in Nat
        /\ NameHeld /\ Created /\ Answered /\ OwnAnswer /\ NoLeftover

\* The initial states satisfy the invariant.
LEMMA InitPInv == Init => PInv
BY DEF Init, PInv, TypeOK, NameHeld, Created, Answered, OwnAnswer, NoLeftover,
       Holding, Ended

\* The pod that a run creates is a pod.
LEMMA NewPodTyped ==
  ASSUME TypeOK, NEW r \in Run, pc[r] = "create"
  PROVE  NewPod(r) \in Pods /\ NewPod(r) # NoPod
<1>1. node[r] \in Node
  BY DEF TypeOK
<1>2. NewPod(r) \in Pods
  BY <1>1 DEF NewPod, Pods, Live
<1> QED
  BY <1>2

\* Every action preserves the types.
LEMMA NextTypeOK == TypeOK /\ [Next]_vars => TypeOK'
<1> SUFFICES ASSUME TypeOK, [Next]_vars PROVE TypeOK'
  OBVIOUS
<1> USE DEF TypeOK, Goto, Outcome, Ended
<1>1. ASSUME NEW r \in Run, CheckCluster(r) PROVE TypeOK'
  BY <1>1 DEF CheckCluster, bounds
<1>2. ASSUME NEW r \in Run, PickNode(r) PROVE TypeOK'
  <2>1. CASE Candidates = {}
    BY <1>2, <2>1 DEF PickNode, bounds
  <2>2. CASE Candidates # {}
    <3>1. PICK n \in Candidates :
            /\ node' = [node EXCEPT ![r] = n]
            /\ \/ Goto(r, "done") /\ Outcome(r, "dry-run")
               \/ Goto(r, "create") /\ UNCHANGED outcome
      BY <1>2, <2>2 DEF PickNode
    <3>2. n \in Selected /\ n \in Node
      BY DEF Candidates
    <3>4. n \in 0 .. N
      BY <3>2 DEF Node
    <3>3. node'[r] \in Selected /\ \A q \in Run \ {r} : node'[q] = node[q]
      BY <3>1, <3>2
    <3> QED
      BY <1>2, <3>1, <3>3, <3>4 DEF PickNode, bounds
  <2> QED
    BY <2>1, <2>2
<1>3. ASSUME NEW r \in Run, CreatePod(r) PROVE TypeOK'
  <2>1. NewPod(r) \in Pods
    BY <1>3, NewPodTyped DEF CreatePod
  <2> QED
    BY <1>3, <2>1 DEF CreatePod
<1>4. ASSUME NEW r \in Run, Poll(r) PROVE TypeOK'
  <2>1. pod # NoPod /\ pod.phase \notin Live => pod.phase \in {"Succeeded", "Failed"}
    BY DEF Pods
  <2> QED
    BY <1>4, <2>1 DEF Poll, Fails
<1>5. ASSUME NEW r \in Run, ReadLog(r) PROVE TypeOK'
  <2>1. pod # NoPod => From(pod) \in [creator : Run, node : Node]
    BY DEF From, Pods
  <2> QED
    BY <1>5, <2>1 DEF ReadLog
<1>6. Terminate => pod' \in Pods \cup {NoPod}
  BY DEF Terminate, Pods
<1>7. ASSUME NEW r \in Run, DeletePod(r) PROVE TypeOK'
  BY <1>6, <1>7 DEF DeletePod
<1>8. ASSUME NEW r \in Run, Timeout(r) \/ Crash(r) PROVE TypeOK'
  BY <1>8 DEF Timeout, Crash, bounds
<1>9. \A ph \in Live \cup {"Succeeded", "Failed"} :
         pod # NoPod /\ SetPhase(ph) => pod' \in Pods \cup {NoPod}
  BY DEF SetPhase, Pods
<1>10. CASE PodProgress \/ ActiveDeadline
  <2>1. pod' \in Pods \cup {NoPod}
    BY <1>9, <1>10 DEF PodProgress, ActiveDeadline, KubeletUp, Live
  <2> QED
    BY <1>10, <2>1 DEF PodProgress, ActiveDeadline, PodsUnchanged
<1>11. CASE PodRemoved \/ OutsideDelete
  BY <1>6, <1>11 DEF PodRemoved, OutsideDelete, PodsUnchanged
<1>12. CASE \E n \in Node : NodeChanges(n)
  BY <1>12 DEF NodeChanges
<1>13. CASE UNCHANGED vars
  BY <1>13 DEF vars
<1> QED
  BY <1>1, <1>2, <1>3, <1>4, <1>5, <1>7, <1>8, <1>10, <1>11, <1>12, <1>13
     DEF Next, Proceed

\* A run that neither creates nor deletes, nor gives an answer, changes nothing
\* that the invariant is about but its own place.
LEMMA Onwards ==
  ASSUME PInv, NEW r \in Run, NEW l \in PC, pc' = [pc EXCEPT ![r] = l],
         UNCHANGED <<pod, read, deletes>>,
         \A q \in Run \ {r} : node'[q] = node[q] /\ outcome'[q] = outcome[q],
         pc[r] # "pick" => node'[r] = node[r],
         pc[r] \notin Ended,
         l \in Holding => pc[r] \in Holding,
         pc[r] \in Holding => l \in Holding \cup (Ended \ {"done"}),
         pc[r] = "delete" => l \in Ended,
         outcome'[r] # "succeeded" \/ outcome'[r] = outcome[r]
  PROVE  NameHeld' /\ Created' /\ Answered' /\ OwnAnswer' /\ NoLeftover'
<1> USE DEF PInv, TypeOK
<1>1. pc'[r] = l /\ \A q \in Run \ {r} : pc'[q] = pc[q]
  OBVIOUS
<1>2. NameHeld'
  BY <1>1 DEF NameHeld, Held, Holding
<1>3. pod # NoPod => pod.creator \in Run
  BY DEF Pods
<1>4. Created'
  BY <1>1, <1>3 DEF Created, Holding, Ended
<1>5. Answered' /\ OwnAnswer'
  BY <1>1 DEF Answered, OwnAnswer, Holding, Ended
<1>6. NoLeftover'
  BY <1>1, <1>3 DEF NoLeftover, Created, Holding, Ended
<1> QED
  BY <1>2, <1>4, <1>5, <1>6

\* The invariant holds on through every step.
LEMMA NextPInv == PInv /\ [Next]_vars => PInv'
<1> SUFFICES ASSUME PInv, [Next]_vars PROVE PInv'
  OBVIOUS
<1>1. TypeOK'
  BY NextTypeOK DEF PInv
<1> SUFFICES deletes' \in Nat /\ NameHeld' /\ Created' /\ Answered' /\ OwnAnswer' /\ NoLeftover'
  BY <1>1 DEF PInv
<1> USE DEF PInv, TypeOK
<1>2. ASSUME NEW r \in Run, CheckCluster(r) PROVE
      deletes' \in Nat /\ NameHeld' /\ Created' /\ Answered' /\ OwnAnswer' /\ NoLeftover'
  BY <1>2, Onwards DEF CheckCluster, Goto, Outcome, bounds, PC, Holding, Ended
<1>3. ASSUME NEW r \in Run, PickNode(r) PROVE
      deletes' \in Nat /\ NameHeld' /\ Created' /\ Answered' /\ OwnAnswer' /\ NoLeftover'
  <2>1. /\ pc[r] = "pick" /\ UNCHANGED <<pod, read, deletes>>
        /\ \A q \in Run \ {r} : node'[q] = node[q] /\ outcome'[q] = outcome[q]
        /\ outcome'[r] # "succeeded" \/ outcome'[r] = outcome[r]
    BY <1>3 DEF PickNode, Outcome, bounds
  <2>2. \E l \in {"error", "done", "create"} : pc' = [pc EXCEPT ![r] = l]
    BY <1>3 DEF PickNode, Goto
  <2> QED
    BY <2>1, <2>2, Onwards DEF PC, Holding, Ended
<1>4. ASSUME NEW r \in Run, CreatePod(r) PROVE
      deletes' \in Nat /\ NameHeld' /\ Created' /\ Answered' /\ OwnAnswer' /\ NoLeftover'
  <2>1. CASE UNCHANGED pod
    <3>1. pc' = [pc EXCEPT ![r] = "error"]
      BY <1>4, <2>1, NewPodTyped DEF CreatePod, Goto
    <3> QED
      BY <1>4, <2>1, <3>1, Onwards DEF CreatePod, PC, Holding, Ended
  <2>2. CASE pod = NoPod /\ pod' = NewPod(r)
    <3>1. /\ pod' # NoPod /\ ~pod'.terminating
          /\ pod'.creator = r /\ pod'.node = node[r]
      BY <1>4, <2>2, NewPodTyped DEF CreatePod, NewPod
    <3>2. pc'[r] \in {"wait", "error"} /\ \A q \in Run \ {r} : pc'[q] = pc[q]
      BY <1>4, <2>2 DEF CreatePod, Goto
    <3>3. UNCHANGED <<node, read, outcome, deletes>> /\ pc[r] = "create"
      BY <1>4 DEF CreatePod
    <3>4. NameHeld'
      <4>1. deletes = 0 => \A q \in Run : pc[q] \notin Holding
        BY <2>2 DEF NameHeld, Held
      <4> QED
        BY <3>1, <3>2, <3>3, <4>1 DEF NameHeld, Held
    <3>5. Created' /\ NoLeftover'
      BY <3>1, <3>2 DEF Created, NoLeftover, Holding, Ended
    <3>6. Answered' /\ OwnAnswer'
      BY <3>2, <3>3 DEF Answered, OwnAnswer, Ended
    <3> QED
      BY <3>3, <3>4, <3>5, <3>6
  <2> QED
    BY <1>4, <2>1, <2>2 DEF CreatePod
<1>5. ASSUME NEW r \in Run, Poll(r) PROVE
      deletes' \in Nat /\ NameHeld' /\ Created' /\ Answered' /\ OwnAnswer' /\ NoLeftover'
  <2>1. \E l \in {"delete", "log"} : pc' = [pc EXCEPT ![r] = l]
    BY <1>5 DEF Poll, Fails, Goto
  <2>2. /\ pc[r] = "wait" /\ UNCHANGED <<pod, node, read, deletes>>
        /\ \A q \in Run \ {r} : outcome'[q] = outcome[q]
        /\ outcome'[r] # "succeeded" \/ outcome'[r] = outcome[r]
    BY <1>5 DEF Poll, Fails, Outcome
  <2> QED
    BY <2>1, <2>2, Onwards DEF PC, Holding, Ended
<1>6. ASSUME NEW r \in Run, ReadLog(r) PROVE
      deletes' \in Nat /\ NameHeld' /\ Created' /\ Answered' /\ OwnAnswer' /\ NoLeftover'
  <2>1. /\ pc[r] = "log" /\ pc' = [pc EXCEPT ![r] = "delete"]
        /\ UNCHANGED <<pod, node, deletes>>
        /\ \A q \in Run \ {r} : outcome'[q] = outcome[q] /\ read'[q] = read[q]
    BY <1>6 DEF ReadLog, Goto, Outcome
  <2>2. pc'[r] = "delete" /\ \A q \in Run \ {r} : pc'[q] = pc[q]
    BY <2>1
  <2>3. NameHeld' /\ Answered'
    BY <2>1, <2>2 DEF NameHeld, Held, Answered, Holding
  <2>4. Created' /\ NoLeftover'
    <3>1. pod # NoPod => pod.creator \in Run
      BY DEF Pods
    <3> QED
      BY <2>1, <2>2, <3>1 DEF Created, NoLeftover, Holding
  <2>5. ASSUME deletes = 0, outcome'[r] = "succeeded"
        PROVE  read'[r] = [creator |-> r, node |-> node[r]]
    <3>1. Held(r)
      BY <2>1, <2>5 DEF NameHeld, Holding
    <3>2. outcome[r] # "succeeded"
      BY <2>1 DEF Answered, Ended
    <3>3. read' = [read EXCEPT ![r] = From(pod)]
      BY <1>6, <2>5, <3>2 DEF ReadLog, Outcome
    <3> QED
      BY <3>1, <3>3 DEF Held, From
  <2>6. OwnAnswer'
    BY <2>1, <2>5 DEF OwnAnswer
  <2> QED
    BY <2>1, <2>3, <2>4, <2>6
<1>7. ASSUME NEW r \in Run, DeletePod(r) PROVE
      deletes' \in Nat /\ NameHeld' /\ Created' /\ Answered' /\ OwnAnswer' /\ NoLeftover'
  <2>1. /\ pc[r] = "delete" /\ UNCHANGED <<node, read, outcome, deletes>>
        /\ pc'[r] \in {"done", "undeleted"} /\ \A q \in Run \ {r} : pc'[q] = pc[q]
    BY <1>7 DEF DeletePod, Goto
  <2>2. pod # NoPod => pod \in Pods /\ pod.creator \in Run
    BY DEF Pods
  <2>3. CASE UNCHANGED pod /\ pc'[r] = "undeleted"
    BY <2>1, <2>2, <2>3
       DEF NameHeld, Held, Created, Answered, OwnAnswer, NoLeftover, Holding, Ended
  <2>4. CASE Terminate
    <3>1. /\ pod = NoPod => pod' = NoPod
          /\ pod # NoPod => pod'.terminating /\ pod'.creator = pod.creator
      BY <2>2, <2>4 DEF Terminate, Pods
    <3>2. deletes = 0 => \A q \in Run \ {r} : pc[q] \notin Holding
      BY <2>1 DEF NameHeld, Held, Holding
    <3>3. NameHeld' /\ Answered' /\ OwnAnswer'
      BY <2>1, <3>2 DEF NameHeld, Answered, OwnAnswer, Holding, Ended
    <3>4. Created' /\ NoLeftover'
      BY <2>1, <2>2, <3>1 DEF Created, NoLeftover, Holding, Ended
    <3> QED
      BY <2>1, <3>3, <3>4
  <2> QED
    BY <1>7, <2>3, <2>4 DEF DeletePod, Goto
<1>8. ASSUME NEW r \in Run, Timeout(r) PROVE
      deletes' \in Nat /\ NameHeld' /\ Created' /\ Answered' /\ OwnAnswer' /\ NoLeftover'
  BY <1>8 DEF Timeout, bounds, NameHeld, Held, Created, Answered, OwnAnswer, NoLeftover
<1>9. ASSUME NEW r \in Run, Crash(r) PROVE
      deletes' \in Nat /\ NameHeld' /\ Created' /\ Answered' /\ OwnAnswer' /\ NoLeftover'
  BY <1>9, Onwards DEF Crash, Goto, PC, Holding, Ended
<1>10. ASSUME NEW ph \in Live \cup {"Succeeded", "Failed"}, pod # NoPod, SetPhase(ph),
              UNCHANGED <<pc, node, read, outcome, deletes>>
       PROVE  NameHeld' /\ Created' /\ Answered' /\ OwnAnswer' /\ NoLeftover'
  <2>1. /\ pod' # NoPod /\ pod'.terminating = pod.terminating
        /\ pod'.creator = pod.creator /\ pod'.node = pod.node
    <3>1. pod \in Pods
      BY <1>10
    <3>2. pod' \in Pods
      BY <1>10, <3>1 DEF SetPhase, Pods
    <3> QED
      BY <1>10, <3>1, <3>2 DEF SetPhase, Pods
  <2> QED
    BY <1>10, <2>1 DEF NameHeld, Held, Created, Answered, OwnAnswer, NoLeftover
<1>11. CASE PodProgress \/ ActiveDeadline
  <2>1. UNCHANGED <<pc, node, read, outcome, deletes>> /\ pod # NoPod
    BY <1>11 DEF PodProgress, ActiveDeadline, KubeletUp, PodsUnchanged, bounds
  <2>2. \E ph \in Live \cup {"Succeeded", "Failed"} : SetPhase(ph)
    BY <1>11 DEF PodProgress, ActiveDeadline, Live
  <2> QED
    BY <1>10, <2>1, <2>2
<1>12. CASE PodRemoved
  <2>1. pod.terminating /\ pod' = NoPod /\ UNCHANGED <<pc, node, read, outcome, deletes>>
    BY <1>12 DEF PodRemoved, PodsUnchanged, bounds
  <2> QED
    BY <2>1 DEF NameHeld, Held, Created, Answered, OwnAnswer, NoLeftover
<1>13. CASE OutsideDelete
  <2>1. /\ pod # NoPod /\ deletes' = deletes + 1 /\ deletes' # 0 /\ deletes' \in Nat
        /\ UNCHANGED <<pc, outcome>>
    BY <1>13 DEF OutsideDelete, PodsUnchanged
  <2>2. pod'.terminating /\ pod'.creator = pod.creator
    <3>1. pod \in Pods
      BY <2>1
    <3> QED
      BY <1>13, <3>1 DEF OutsideDelete, Terminate, Pods
  <2> QED
    BY <2>1, <2>2 DEF NameHeld, Created, Answered, OwnAnswer, NoLeftover
<1>14. CASE \E n \in Node : NodeChanges(n)
  BY <1>14 DEF NodeChanges, NameHeld, Held, Created, Answered, OwnAnswer, NoLeftover
<1>15. CASE UNCHANGED vars
  BY <1>15 DEF vars, NameHeld, Held, Created, Answered, OwnAnswer, NoLeftover
<1> QED
  BY <1>2, <1>3, <1>4, <1>5, <1>6, <1>7, <1>8, <1>9, <1>11, <1>12, <1>13, <1>14, <1>15
     DEF Next, Proceed

\* The variables keep their types.
THEOREM TypeCorrect == Spec => []TypeOK
<1>1. PInv => TypeOK
  BY DEF PInv
<1> QED
  BY <1>1, InitPInv, NextPInv, PTL DEF Spec

\* An answer comes from the pod and the node that it is reported for, as long as
\* nobody else deletes the pod.
THEOREM AnswersAreOwn == Spec => []OwnAnswer
<1>1. PInv => OwnAnswer
  BY DEF PInv
<1> QED
  BY <1>1, InitPInv, NextPInv, PTL DEF Spec

\* A run that is done leaves no pod behind that nobody will remove.
THEOREM LeavesNothing == Spec => []NoLeftover
<1>1. PInv => NoLeftover
  BY DEF PInv
<1> QED
  BY <1>1, InitPInv, NextPInv, PTL DEF Spec

\* A deletion by name takes the run's own pod, as long as nobody else deletes it.
THEOREM OnlyOwnDeleted == Spec => DeletesOwn
<1>1. ASSUME PInv, NEW r \in Run, DeletePod(r), deletes = 0
      PROVE  pod.creator = r
  BY <1>1 DEF PInv, NameHeld, Held, DeletePod, Holding
<1>2. PInv /\ [Next]_vars =>
        [\A r \in Run :
            DeletePod(r) /\ pod # NoPod /\ pod' # pod /\ deletes = 0
            => pod.creator = r]_vars
  BY <1>1
<1> QED
  BY <1>2, InitPInv, NextPInv, PTL DEF Spec, DeletesOwn
=============================================================================

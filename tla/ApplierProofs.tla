---------------------------- MODULE ApplierProofs ----------------------------
(***************************************************************************)
(* Theorems about Applier, for every value of its constants: any number of  *)
(* runs, plans, faults and changes by others.                               *)
(***************************************************************************)
EXTENDS ApplierLedger, Session, FiniteSetTheorems, TLAPS

USE InstanceAssumption

-----------------------------------------------------------------------------
(* The step a run stands at. *)

\* While a run has steps left, its cursor is the index of one of them.
LEMMA CursorInPlan ==
    ASSUME TypeOK, NEW r \in Run, More(r)
    PROVE  /\ Cursor(r) \in Index(plan[r])
           /\ CurStep(r) \in Step
           /\ CurNs(r) \in Namespace
<1>1. Steps[plan[r]] \in Seq(Step) /\ results[r] \in Seq(Status)
  BY DEF TypeOK, MemoryTyped, WalkTyped
<1>2. Len(results[r]) \in Nat /\ Len(Steps[plan[r]]) \in Nat
  BY <1>1
<1>3. Walked(r) \in Nat /\ Walked(r) < Len(Steps[plan[r]])
  BY <1>2 DEF Walked, More
<1>4. Walked(r) + 1 \in Index(plan[r])
  BY <1>2, <1>3 DEF Index
<1>5. Len(Steps[plan[r]]) - Walked(r) \in Index(plan[r])
  BY <1>2, <1>3 DEF Index
<1>6. Cursor(r) \in Index(plan[r])
  BY <1>4, <1>5 DEF Cursor
<1>7. CurStep(r) \in Step
  BY <1>1, <1>6 DEF CurStep, Index
<1> QED
  BY <1>6, <1>7 DEF CurNs, Step

\* Reporting a step lengthens the run's results by one and nobody else's.
LEMMA ReportGrows ==
    ASSUME TypeOK, NEW r \in Run, NEW s \in Status,
           results' = [results EXCEPT ![r] = Append(@, s)]
    PROVE  /\ results' \in [Run -> Seq(Status)]
           /\ Len(results'[r]) = Len(results[r]) + 1
           /\ \A q \in Run \ {r} : results'[q] = results[q]
<1>1. results \in [Run -> Seq(Status)]
  BY DEF TypeOK, MemoryTyped, WalkTyped
<1>2. results[r] \in Seq(Status)
  BY <1>1
<1>3. Append(results[r], s) \in Seq(Status)
      /\ Len(Append(results[r], s)) = Len(results[r]) + 1
  BY <1>2
<1> QED
  BY <1>1, <1>3

-----------------------------------------------------------------------------
(* Type correctness. *)

\* Every step of a plan is in a namespace of the cluster.
LEMMA NsInNamespace ==
    ASSUME NEW p \in Plan
    PROVE  /\ \A i \in Index(p) : NsAt(p, i) \in Namespace
           /\ AffectedNamespaces(p) \subseteq Namespace
<1>1. Steps[p] \in Seq(Step)
  OBVIOUS
<1>2. ASSUME NEW i \in Index(p) PROVE NsAt(p, i) \in Namespace
  <2>1. Steps[p][i] \in Step
    BY <1>1 DEF Index
  <2> QED
    BY <2>1 DEF NsAt, Step
<1> QED
  BY <1>2 DEF AffectedNamespaces

\* An action that reports nothing, and gets no run to a patch in flight that
\* was not at one of its plan's steps, keeps every run within its plan.
LEMMA WalkKept ==
    ASSUME TypeOK, UNCHANGED <<plan, results>>,
           \A r \in Run : pc'[r] \in {"event", "record"} => More(r)
    PROVE  WalkTyped'
BY DEF TypeOK, WalkTyped, Walked, More

\* Reporting on a step, and going on with the walk, keeps it within the plan.
LEMMA WalkAdvances ==
    ASSUME TypeOK, NEW r \in Run, NEW s \in Status, More(r),
           UNCHANGED plan, Report(r, s), pc' = [pc EXCEPT ![r] = "walk"]
    PROVE  WalkTyped'
<1>1. /\ results' \in [Run -> Seq(Status)]
      /\ Len(results'[r]) = Len(results[r]) + 1
      /\ \A q \in Run \ {r} : results'[q] = results[q]
  BY ReportGrows DEF Report
<1>2. Len(results[r]) \in Nat /\ Len(Steps[plan[r]]) \in Nat
  <2>1. results[r] \in Seq(Status) /\ Steps[plan[r]] \in Seq(Step)
    BY DEF TypeOK, MemoryTyped, WalkTyped
  <2> QED
    BY <2>1
<1>3. Len(results'[r]) <= Len(Steps[plan'[r]])
  BY <1>1, <1>2 DEF Walked, More
<1>4. pc'[r] = "walk" /\ \A q \in Run \ {r} : pc'[q] = pc[q]
  BY DEF TypeOK, MemoryTyped
<1>5. ASSUME NEW q \in Run
      PROVE  /\ Len(results'[q]) <= Len(Steps[plan'[q]])
             /\ pc'[q] \in {"event", "record"} => Len(results'[q]) < Len(Steps[plan'[q]])
  <2>1. CASE q = r
    BY <2>1, <1>3, <1>4
  <2>2. CASE q # r
    BY <2>2, <1>1, <1>4 DEF TypeOK, WalkTyped, Walked, More
  <2> QED
    BY <2>1, <2>2
<1> QED
  BY <1>1, <1>5 DEF WalkTyped, Walked, More

\* A run's success flags stay a function from namespaces to BOOLEAN.
LEMMA FlagsKept ==
    ASSUME TypeOK, NEW r \in Run, Spoil(r) \/ UNCHANGED allSuccess
    PROVE  allSuccess' \in [Run -> [Namespace -> BOOLEAN]]
<1>1. allSuccess \in [Run -> [Namespace -> BOOLEAN]]
  BY DEF TypeOK, MemoryTyped
<1>2. [allSuccess[r] EXCEPT ![CurNs(r)] = FALSE] \in [Namespace -> BOOLEAN]
  BY <1>1
<1>3. CASE Spoil(r)
  BY <1>1, <1>2, <1>3 DEF Spoil
<1> QED
  BY <1>1, <1>3

\* The audit file and the fault count keep their types when a line is added.
LEMMA TrailAdvances ==
    ASSUME TypeOK, NEW r \in Run, NEW s \in Status, More(r), Report(r, s),
           UNCHANGED <<events, patched, churn>>
    PROVE  TrailTyped'
<1>1. Cursor(r) \in Nat
  BY CursorInPlan DEF Index
<1>2. CASE /\ audit' = [audit EXCEPT ![r] = @ \cup {<<Cursor(r), s>>}]
           /\ UNCHANGED <<warned, faults>>
  BY <1>1, <1>2 DEF TypeOK, TrailTyped
<1>3. CASE /\ Fault
           /\ warned' = [warned EXCEPT ![r] = @ \cup {Cursor(r)}]
           /\ UNCHANGED audit
  BY <1>1, <1>3 DEF TypeOK, TrailTyped, Fault
<1> QED
  BY <1>2, <1>3 DEF Report, AppendAudit

\* Init establishes the type invariant.
LEMMA InitTypeOK == Init => TypeOK
<1> SUFFICES ASSUME Init PROVE TypeOK
  OBVIOUS
<1>1. << >> \in Seq(Status) /\ Len(<< >>) = 0
  OBVIOUS
<1>2. \A r \in Run : Len(results[r]) = 0
  BY <1>1 DEF Init
<1>3. \A r \in Run : Len(Steps[plan[r]]) \in Nat
  BY DEF Init
<1>4. WalkTyped
  BY <1>1, <1>2, <1>3 DEF Init, WalkTyped, Walked, More
<1> QED
  BY <1>4, HashAssumption
  DEF Init, TypeOK, ClusterTyped, MemoryTyped, TrailTyped, PC, Ended

\* A step of any action keeps every variable in its type.
LEMMA NextTypeOK == TypeOK /\ [Next]_vars => TypeOK'
<1> SUFFICES ASSUME TypeOK, [Next]_vars PROVE TypeOK'
  OBVIOUS
<1> USE DEF cluster, request, durable, bounds
<1> DEFINE Types == ClusterTyped /\ MemoryTyped /\ TrailTyped
<1>a. Types /\ \A r \in Run : pc[r] \in {"event", "record"} => More(r)
  BY DEF TypeOK, WalkTyped
<1>b. ASSUME Types', WalkTyped' PROVE TypeOK'
  BY <1>b DEF TypeOK
<1> USE DEF ClusterTyped, MemoryTyped, TrailTyped, PC, Ended
<1>1. ASSUME NEW r \in Run, Start(r) PROVE TypeOK'
  <2>1. Types'
    BY <1>1, <1>a, NsInNamespace DEF Start
  <2>2. WalkTyped'
    BY <1>1, <1>a, WalkKept DEF Start
  <2> QED
    BY <2>1, <2>2, <1>b
<1>2. ASSUME NEW r \in Run, NEW n \in Namespace, ReadNs(r, n) PROVE TypeOK'
  <2>1. Types'
    BY <1>2, <1>a DEF ReadNs
  <2>2. WalkTyped'
    BY <1>2, <1>a, WalkKept DEF ReadNs
  <2> QED
    BY <2>1, <2>2, <1>b
<1>3. ASSUME NEW r \in Run, ReadFails(r) \/ BeginWalk(r) \/ Finish(r) \/ Crash(r)
      PROVE TypeOK'
  <2>1. faults' \in Nat /\ churn' \in Nat /\ pc' \in [Run -> PC]
    <3>1. PICK x \in PC : pc' = [pc EXCEPT ![r] = x]
      BY <1>3 DEF ReadFails, BeginWalk, Finish, Crash
    <3>2. faults' \in {faults, faults + 1} /\ churn' = churn
      BY <1>3 DEF ReadFails, BeginWalk, Finish, Crash, Fault
    <3> QED
      BY <1>a, <3>1, <3>2
  <2>3. UNCHANGED <<cluster, request, todo, existing, allSuccess, results,
                    answer, durable, patched>>
    BY <1>3 DEF ReadFails, BeginWalk, Finish, Crash
  <2>4. Types'
    BY <1>a, <2>1, <2>3
  <2>2. WalkTyped'
    BY <1>3, <1>a, <2>3, WalkKept DEF ReadFails, BeginWalk, Finish, Crash
  <2> QED
    BY <2>4, <2>2, <1>b
<1>4. ASSUME NEW r \in Run, LocalStep(r) PROVE TypeOK'
  <2>1. PICK s \in Status : Report(r, s)
    BY <1>4 DEF LocalStep, Status
  <2>2. /\ More(r) /\ pc[r] = "walk" /\ pc' = pc
        /\ UNCHANGED <<cluster, request, todo, existing, answer, events,
                       patched, churn>>
    BY <1>4 DEF LocalStep
  <2>3. pc' = [pc EXCEPT ![r] = "walk"]
    BY <2>2, <1>a
  <2>4. WalkTyped'
    BY <2>1, <2>2, <2>3, WalkAdvances
  <2>5. TrailTyped'
    BY <2>1, <2>2, TrailAdvances
  <2>6. allSuccess' \in [Run -> [Namespace -> BOOLEAN]]
    BY <1>4, FlagsKept DEF LocalStep
  <2>7. ClusterTyped' /\ MemoryTyped'
    BY <2>2, <2>6, <1>a
  <2> QED
    BY <2>4, <2>5, <2>7, <1>b
<1>5. ASSUME NEW r \in Run, SendPatch(r) PROVE TypeOK'
  <2>1. /\ Cursor(r) \in Nat
        /\ CurStep(r).target \in Workload
        /\ PatchTo(r) \in Class \cup {NoClass}
    BY <1>5, CursorInPlan DEF SendPatch, MustPatch, PatchTo, Index, Step
  <2>2. /\ class' \in [Workload -> Class \cup {NoClass}]
        /\ patched' \in [Run -> SUBSET Nat]
        /\ faults' \in Nat
        /\ answer' \in [Run -> {"none", "ok", "failed", "notfound"}]
    <3>1. \/ class' = [class EXCEPT ![CurStep(r).target] = PatchTo(r)]
          \/ class' = class
      BY <1>5 DEF SendPatch, Perform
    <3>2. \/ patched' = [patched EXCEPT ![r] = @ \cup {Cursor(r)}]
          \/ patched' = patched
      BY <1>5 DEF SendPatch, Perform
    <3>3. faults' \in {faults, faults + 1}
      BY <1>5 DEF SendPatch, Fault
    <3>4. PICK a \in {"ok", "failed", "notfound"} : Answer(r, a)
      BY <1>5 DEF SendPatch
    <3>5. class' \in [Workload -> Class \cup {NoClass}]
      BY <1>a, <2>1, <3>1
    <3>6. patched' \in [Run -> SUBSET Nat]
      <4>1. patched[r] \cup {Cursor(r)} \in SUBSET Nat
        BY <1>a, <2>1
      <4> QED
        BY <1>a, <3>2, <4>1
    <3>7. answer' \in [Run -> {"none", "ok", "failed", "notfound"}]
      BY <1>a, <3>4 DEF Answer
    <3> QED
      BY <1>a, <3>3, <3>5, <3>6, <3>7
  <2>3. /\ pc' \in [Run -> PC]
        /\ \A q \in Run \ {r} : pc'[q] = pc[q]
    BY <1>5, <1>a DEF SendPatch, Answer
  <2>4. Types'
    BY <1>5, <1>a, <2>2, <2>3 DEF SendPatch
  <2>5. WalkTyped'
    BY <1>5, <1>a, <2>3, WalkKept DEF SendPatch, MustPatch
  <2> QED
    BY <2>4, <2>5, <1>b
<1>6. ASSUME NEW r \in Run, EmitEvent(r) PROVE TypeOK'
  <2>1. Cursor(r) \in Nat
    BY <1>6, <1>a, CursorInPlan DEF EmitEvent, Index
  <2>4. faults' \in Nat /\ events' \in [Run -> SUBSET Nat]
    <3>1. CASE UNCHANGED events
      BY <1>6, <1>a, <3>1 DEF EmitEvent, Fault
    <3>2. CASE events' = [events EXCEPT ![r] = @ \cup {Cursor(r)}]
      BY <1>6, <1>a, <2>1, <3>2 DEF EmitEvent, Fault
    <3> QED
      BY <1>6, <3>1, <3>2 DEF EmitEvent
  <2>2. Types'
    BY <1>6, <1>a, <2>4 DEF EmitEvent
  <2>3. WalkTyped'
    BY <1>6, <1>a, WalkKept DEF EmitEvent
  <2> QED
    BY <2>2, <2>3, <1>b
<1>7. ASSUME NEW r \in Run, Record(r) PROVE TypeOK'
  <2>1. More(r) /\ StatusOf(r) \in Status
    BY <1>7, <1>a DEF Record, StatusOf, Status
  <2>2. /\ Report(r, StatusOf(r))
        /\ pc' = [pc EXCEPT ![r] = "walk"]
        /\ answer' = [answer EXCEPT ![r] = "none"]
        /\ UNCHANGED <<cluster, request, todo, existing, events, patched, churn>>
    BY <1>7 DEF Record
  <2>3. WalkTyped'
    BY <2>1, <2>2, WalkAdvances
  <2>4. TrailTyped'
    BY <2>1, <2>2, TrailAdvances
  <2>5. allSuccess' \in [Run -> [Namespace -> BOOLEAN]]
    BY <1>7, FlagsKept DEF Record
  <2>6. ClusterTyped' /\ MemoryTyped'
    BY <2>2, <2>5, <1>a
  <2> QED
    BY <2>3, <2>4, <2>6, <1>b
<1>8. ASSUME NEW r \in Run, EndWalk(r) PROVE TypeOK'
  <2>3. todo' \in [Run -> SUBSET Namespace] /\ pc' \in [Run -> PC]
    <3>1. PICK x \in PC : pc' = [pc EXCEPT ![r] = x]
      BY <1>8 DEF EndWalk
    <3>2. AffectedNamespaces(plan[r]) \in SUBSET Namespace
      BY <1>a, NsInNamespace
    <3>3. \/ todo' = todo
          \/ todo' = [todo EXCEPT ![r] = AffectedNamespaces(plan[r])]
      BY <1>8 DEF EndWalk
    <3>4. todo \in [Run -> SUBSET Namespace] /\ pc \in [Run -> PC]
      BY <1>a
    <3>5. pc' \in [Run -> PC]
      BY <3>1, <3>4
    <3>6. todo' \in [Run -> SUBSET Namespace]
      BY <3>2, <3>3, <3>4
    <3> QED
      BY <3>5, <3>6
  <2>4. UNCHANGED <<cluster, request, existing, allSuccess, results, answer,
                    durable, patched, bounds>>
    BY <1>8 DEF EndWalk
  <2>1. Types'
    BY <1>a, <2>3, <2>4
  <2>2. WalkTyped'
    BY <1>8, <1>a, WalkKept DEF EndWalk
  <2> QED
    BY <2>1, <2>2, <1>b
<1>9. ASSUME NEW r \in Run, NEW n \in Namespace, StampNs(r, n) PROVE TypeOK'
  <2>1. StampTo(r) \in Stamp \cup {NoStamp}
    BY <1>a, HashAssumption DEF StampTo
  <2>2. stamp' \in [Namespace -> Stamp \cup {NoStamp}] /\ faults' \in Nat
    <3>1. \/ stamp' = [stamp EXCEPT ![n] = StampTo(r)]
          \/ stamp' = stamp
      BY <1>9 DEF StampNs
    <3>2. faults' \in {faults, faults + 1}
      BY <1>9 DEF StampNs, Fault
    <3>3. stamp' \in [Namespace -> Stamp \cup {NoStamp}]
      <4>1. stamp \in [Namespace -> Stamp \cup {NoStamp}]
        BY <1>a
      <4> QED
        BY <2>1, <3>1, <4>1
    <3> QED
      BY <1>a, <3>2, <3>3
  <2>3. Types'
    BY <1>9, <1>a, <2>2 DEF StampNs
  <2>4. WalkTyped'
    BY <1>9, <1>a, WalkKept DEF StampNs
  <2> QED
    BY <2>3, <2>4, <1>b
<1>10. ASSUME Environment PROVE TypeOK'
  <2>1. Types'
    <3>1. ASSUME NEW w \in Workload, DeleteWorkload(w) PROVE Types'
      BY <3>1, <1>a DEF DeleteWorkload, Churn, OthersUnchanged
    <3>2. ASSUME NEW w \in Workload, Redeploy(w) PROVE Types'
      BY <3>2, <1>a DEF Redeploy, Churn, OthersUnchanged
    <3>3. ASSUME NEW n \in Namespace, DeleteNamespace(n) PROVE Types'
      <4>1. stamp' \in [Namespace -> Stamp \cup {NoStamp}]
        <5>1. stamp' = [stamp EXCEPT ![n] = NoStamp]
          BY <3>3 DEF DeleteNamespace
        <5> QED
          BY <1>a, <5>1
      <4> QED
        BY <3>3, <4>1, <1>a DEF DeleteNamespace, Churn, OthersUnchanged
    <3> QED
      BY <1>10, <3>1, <3>2, <3>3 DEF Environment
  <2>2. WalkTyped'
    BY <1>10, <1>a, WalkKept
    DEF Environment, DeleteWorkload, Redeploy, DeleteNamespace, OthersUnchanged
  <2> QED
    BY <2>1, <2>2, <1>b
<1>11. ASSUME UNCHANGED vars PROVE TypeOK'
  <2>1. Types'
    BY <1>11, <1>a DEF vars
  <2>2. WalkTyped'
    BY <1>11, <1>a, WalkKept DEF vars
  <2> QED
    BY <2>1, <2>2, <1>b
<1> QED
  BY <1>1, <1>2, <1>3, <1>4, <1>5, <1>6, <1>7, <1>8, <1>9, <1>10, <1>11
  DEF Next, Proceed

\* Every reachable state is well typed, and no run leaves its plan.
THEOREM TypeCorrect == Spec => []TypeOK
<1> QED
  BY InitTypeOK, NextTypeOK, PTL DEF Spec

-----------------------------------------------------------------------------
(* Stamps are earned. *)

\* Performed patches are never forgotten and command lines never change, so
\* what has landed stays landed.
LEMMA PatchesKept ==
    ASSUME TypeOK, [Next]_vars
    PROVE  /\ UNCHANGED request
           /\ \A r \in Run : patched[r] \subseteq patched'[r]
<1> USE DEF request, bounds, cluster, durable
<1>1. ASSUME NEW r \in Run, SendPatch(r)
      PROVE  /\ UNCHANGED request
             /\ \A q \in Run : patched[q] \subseteq patched'[q]
  <2>1. \/ patched' = [patched EXCEPT ![r] = @ \cup {Cursor(r)}]
        \/ patched' = patched
    BY <1>1 DEF SendPatch, Perform
  <2> QED
    BY <1>1, <2>1 DEF SendPatch, TypeOK, TrailTyped
<1>2. CASE \E r \in Run : Start(r) \/ Crash(r)
  BY <1>2 DEF Start, Crash
<1>3. ASSUME NEW r \in Run, Proceed(r), ~SendPatch(r)
      PROVE  UNCHANGED <<request, patched>>
  BY <1>3 DEF Proceed, BeginWalk, LocalStep, EmitEvent, Record, EndWalk, Finish,
     ReadFails, ReadNs, StampNs
<1>4. CASE Environment
  BY <1>4 DEF Environment, DeleteWorkload, Redeploy, DeleteNamespace,
     OthersUnchanged
<1>5. CASE UNCHANGED vars
  BY <1>5 DEF vars
<1> QED
  BY <1>1, <1>2, <1>3, <1>4, <1>5 DEF Next

LEMMA LandedKept ==
    ASSUME TypeOK, [Next]_vars
    PROVE  /\ \A p \in Plan, i \in Nat : Landed(p, i) => Landed(p, i)'
           /\ \A p \in Plan, n \in Namespace : Earned(p, n) => Earned(p, n)'
<1>1. \A p \in Plan, i \in Nat : Landed(p, i) => Landed(p, i)'
  BY PatchesKept DEF Landed, request
<1>2. \A p \in Plan, n \in Namespace : StepsIn(p, n) \subseteq Nat
  BY DEF StepsIn, Index
<1> QED
  BY <1>1, <1>2 DEF Earned

\* Where an annotation can come from: it is as before, or deleted, or the hash
\* of an apply that has walked its plan without a failure in that namespace.
LEMMA StampSources ==
    ASSUME TypeOK, [Next]_vars, NEW n \in Namespace
    PROVE  \/ stamp'[n] \in {stamp[n], NoStamp}
           \/ \E r \in Run : /\ pc[r] = "stamp" /\ op[r] = "apply"
                             /\ allSuccess[r][n]
                             /\ stamp'[n] = Hash[plan[r]]
<1> USE DEF cluster
<1>1. stamp \in [Namespace -> Stamp \cup {NoStamp}]
  BY DEF TypeOK, ClusterTyped
<1>2. ASSUME NEW r \in Run, NEW m \in Namespace, StampNs(r, m)
      PROVE  \/ stamp'[n] \in {stamp[n], NoStamp}
             \/ /\ pc[r] = "stamp" /\ op[r] = "apply" /\ allSuccess[r][n]
                /\ stamp'[n] = Hash[plan[r]]
  <2>1. CASE UNCHANGED stamp
    BY <2>1
  <2>2. CASE /\ allSuccess[r][m]
             /\ stamp' = [stamp EXCEPT ![m] = StampTo(r)]
    BY <1>1, <1>2, <2>2 DEF StampNs, StampTo
  <2> QED
    BY <1>2, <2>1, <2>2 DEF StampNs
<1>3. CASE \E m \in Namespace : DeleteNamespace(m)
  BY <1>1, <1>3 DEF DeleteNamespace
<1>4. CASE \E r \in Run : Start(r) \/ Crash(r)
  BY <1>4 DEF Start, Crash
<1>5. ASSUME NEW r \in Run, Proceed(r), ~\E m \in Namespace : StampNs(r, m)
      PROVE  UNCHANGED stamp
  BY <1>5 DEF Proceed, BeginWalk, LocalStep, EmitEvent, Record, EndWalk, Finish,
     ReadFails, ReadNs, SendPatch
<1>6. CASE \E w \in Workload : DeleteWorkload(w) \/ Redeploy(w)
  BY <1>6 DEF DeleteWorkload, Redeploy
<1>7. CASE UNCHANGED vars
  BY <1>7 DEF vars
<1> QED
  BY <1>2, <1>3, <1>4, <1>5, <1>6, <1>7 DEF Next, Environment, Proceed

\* What a run remembers of a namespace it read from that namespace.
LEMMA ExistingSources ==
    ASSUME TypeOK, [Next]_vars, NEW r \in Run, NEW n \in Namespace
    PROVE  existing'[r][n] \in {existing[r][n], stamp[n], NoStamp}
<1> USE DEF bounds
<1>1. existing \in [Run -> [Namespace -> Stamp \cup {NoStamp}]]
  BY DEF TypeOK, MemoryTyped
<1>2. ASSUME NEW q \in Run, NEW m \in Namespace, ReadNs(q, m)
      PROVE  existing'[r][n] \in {existing[r][n], stamp[n], NoStamp}
  BY <1>1, <1>2 DEF ReadNs
<1>3. CASE \E q \in Run : Start(q) \/ Crash(q)
  BY <1>3 DEF Start, Crash
<1>4. ASSUME NEW q \in Run, Proceed(q), ~\E m \in Namespace : ReadNs(q, m)
      PROVE  UNCHANGED existing
  BY <1>4 DEF Proceed, BeginWalk, LocalStep, EmitEvent, Record, EndWalk, Finish,
     ReadFails, StampNs, SendPatch
<1>5. CASE Environment
  BY <1>5 DEF Environment, DeleteWorkload, Redeploy, DeleteNamespace,
     OthersUnchanged
<1>6. CASE UNCHANGED vars
  BY <1>6 DEF vars
<1> QED
  BY <1>2, <1>3, <1>4, <1>5, <1>6 DEF Next, Proceed

-----------------------------------------------------------------------------
(* The conjuncts of the inductive invariant, one lemma each. *)

\* A stamp is written by an apply whose plan has landed in that namespace.
LEMMA StampEarnedKept ==
    ASSUME IInv, [Next]_vars
    PROVE  StampEarned'
<1> SUFFICES ASSUME NEW p \in Plan, NEW n \in Namespace,
                    stamp'[n] = Hash[p], Hash[p] # NoStamp
             PROVE  Earned(p, n)'
  BY DEF StampEarned
<1>1. TypeOK
  BY DEF IInv
<1>2. SUFFICES Earned(p, n)
  BY <1>1, LandedKept
<1>3. CASE stamp'[n] = stamp[n]
  BY <1>3 DEF IInv, StampEarned
<1>4. ASSUME NEW r \in Run, pc[r] = "stamp", op[r] = "apply", allSuccess[r][n],
             stamp'[n] = Hash[plan[r]]
      PROVE  Earned(p, n)
  <2>1. plan[r] \in Plan
    BY <1>1 DEF TypeOK, MemoryTyped
  <2>2. plan[r] = p
    BY <1>4, <2>1, HashAssumption
  <2>3. ~More(r) /\ ~dry[r]
    BY <1>4 DEF IInv, StampsLast
  <2>4. Index(p) \subseteq 1 .. Walked(r)
    <3>1. results[r] \in Seq(Status) /\ Steps[p] \in Seq(Step)
      BY <1>1 DEF TypeOK, WalkTyped
    <3> QED
      BY <2>2, <2>3, <3>1 DEF More, Walked, Index
  <2>5. \A i \in StepsIn(p, n) : Landed(p, i)
    BY <1>4, <2>2, <2>3, <2>4 DEF IInv, WalkLanded, StepsIn
  <2> QED
    BY <2>5 DEF Earned
<1> QED
  BY <1>1, <1>3, <1>4, StampSources

\* A run trusts a stamp it read from the namespace, when it was earned.
LEMMA TrustEarnedKept ==
    ASSUME IInv, [Next]_vars
    PROVE  TrustEarned'
<1> SUFFICES ASSUME NEW r \in Run, NEW n \in Namespace,
                    existing'[r][n] = Hash[plan'[r]], Hash[plan'[r]] # NoStamp
             PROVE  Earned(plan[r], n)'
  BY DEF TrustEarned
<1>1. TypeOK
  BY DEF IInv
<1>2. plan' = plan /\ plan[r] \in Plan
  BY <1>1, PatchesKept DEF request, TypeOK, MemoryTyped
<1>3. Earned(plan[r], n)
  BY <1>1, <1>2, ExistingSources DEF IInv, TrustEarned, StampEarned
<1>4. Earned(plan[r], n)'
  BY <1>1, <1>2, <1>3, LandedKept DEF Earned
<1> QED
  BY <1>2, <1>4

\* An answer "ok" is the server's, for the step the run stands at.
LEMMA AnswerHonestKept ==
    ASSUME IInv, [Next]_vars
    PROVE  AnswerHonest'
<1>1. TypeOK /\ AnswerHonest
  BY DEF IInv
<1>2. answer \in [Run -> {"none", "ok", "failed", "notfound"}]
      /\ pc \in [Run -> PC] /\ patched \in [Run -> SUBSET Nat]
  BY <1>1 DEF TypeOK, MemoryTyped, TrailTyped
<1>3. ASSUME UNCHANGED <<op, plan, results, answer>>,
             \A r \in Run : /\ patched[r] \subseteq patched'[r]
                            /\ pc'[r] \in {"idle", "read", "walk"}
                               => pc[r] \in {"idle", "read", "walk"}
      PROVE  AnswerHonest'
  <2> SUFFICES ASSUME NEW q \in Run
               PROVE  /\ answer'[q] = "ok" => Cursor(q)' \in patched'[q]
                      /\ pc'[q] \in {"idle", "read", "walk"} => answer'[q] = "none"
    BY DEF AnswerHonest
  <2>1. /\ patched[q] \subseteq patched'[q]
        /\ pc'[q] \in {"idle", "read", "walk"} => pc[q] \in {"idle", "read", "walk"}
    BY <1>3
  <2>2. /\ answer[q] = "ok" => Cursor(q) \in patched[q]
        /\ pc[q] \in {"idle", "read", "walk"} => answer[q] = "none"
    BY <1>1 DEF AnswerHonest
  <2>3. Cursor(q)' = Cursor(q)
    BY <1>3 DEF Cursor, Walked
  <2>4. answer' = answer
    BY <1>3
  <2> QED
    BY <2>1, <2>2, <2>3, <2>4
<1>4. ASSUME NEW r \in Run, SendPatch(r) PROVE AnswerHonest'
  <2>1. /\ UNCHANGED <<op, plan, results>>
        /\ pc'[r] \in {"event", "record"}
        /\ answer'[r] = "ok" => Cursor(r) \in patched'[r]
        /\ \A q \in Run \ {r} : pc'[q] = pc[q] /\ answer'[q] = answer[q]
    BY <1>2, <1>4 DEF SendPatch, Answer, Perform, request
  <2>2. \A q \in Run : patched[q] \subseteq patched'[q]
    BY <1>1, PatchesKept
  <2> QED
    BY <1>1, <2>1, <2>2 DEF AnswerHonest, Cursor, Walked
<1>5. ASSUME NEW r \in Run, LocalStep(r) PROVE AnswerHonest'
  <2>1. /\ UNCHANGED <<op, plan, pc, answer, patched>>
        /\ answer[r] = "none"
        /\ \A q \in Run \ {r} : results'[q] = results[q]
    BY <1>1, <1>5 DEF LocalStep, Report, request, AnswerHonest, TypeOK, WalkTyped
  <2> QED
    BY <1>1, <2>1 DEF AnswerHonest, Cursor, Walked
<1>6. ASSUME NEW r \in Run, Record(r) PROVE AnswerHonest'
  <2>1. /\ UNCHANGED <<op, plan, patched>>
        /\ answer'[r] = "none"
        /\ \A q \in Run \ {r} : /\ results'[q] = results[q]
                                /\ answer'[q] = answer[q] /\ pc'[q] = pc[q]
    BY <1>1, <1>2, <1>6 DEF Record, Report, request, TypeOK, WalkTyped
  <2> QED
    BY <1>1, <2>1 DEF AnswerHonest, Cursor, Walked
<1>7. ASSUME NEW r \in Run,
             Start(r) \/ BeginWalk(r) \/ EmitEvent(r) \/ EndWalk(r) \/ Finish(r)
               \/ ReadFails(r) \/ Crash(r)
               \/ \E n \in Namespace : ReadNs(r, n) \/ StampNs(r, n)
      PROVE  AnswerHonest'
  <2>1. UNCHANGED <<op, plan, results, answer, patched>>
    BY <1>7 DEF Start, BeginWalk, EmitEvent, EndWalk, Finish, ReadFails, Crash,
       ReadNs, StampNs, request
  <2>2. \/ pc' = pc
        \/ pc'[r] \in {"event", "record", "stamp", "done", "error", "crashed"}
        \/ pc[r] \in {"idle", "read", "walk"}
    BY <1>2, <1>7 DEF Start, BeginWalk, EmitEvent, EndWalk, Finish, ReadFails,
       Crash, ReadNs, StampNs
  <2>3. \A q \in Run \ {r} : pc'[q] = pc[q]
    BY <1>2, <1>7 DEF Start, BeginWalk, EmitEvent, EndWalk, Finish, ReadFails,
       Crash, ReadNs, StampNs
  <2> QED
    BY <1>3, <2>1, <2>2, <2>3
<1>8. CASE Environment
  BY <1>3, <1>8
  DEF Environment, DeleteWorkload, Redeploy, DeleteNamespace, OthersUnchanged,
      request
<1>9. CASE UNCHANGED vars
  BY <1>3, <1>9 DEF vars
<1> QED
  BY <1>4, <1>5, <1>6, <1>7, <1>8, <1>9 DEF Next, Proceed

\* Stamps are written after the whole walk, and never in a dry run.
LEMMA StampsLastKept ==
    ASSUME TypeOK, StampsLast, [Next]_vars
    PROVE  StampsLast'
<1>1. TypeOK /\ StampsLast
  OBVIOUS
<1>2. pc \in [Run -> PC]
  BY <1>1 DEF TypeOK, MemoryTyped
<1>3. ASSUME UNCHANGED <<plan, dry, results>>,
             \A r \in Run : pc'[r] = "stamp" => ~More(r) /\ ~dry[r]
      PROVE  StampsLast'
  BY <1>3 DEF StampsLast, More, Walked
<1>4. ASSUME NEW r \in Run, LocalStep(r) \/ Record(r) PROVE StampsLast'
  <2>1. /\ UNCHANGED <<plan, dry>>
        /\ pc'[r] = "walk"
        /\ \A q \in Run \ {r} : results'[q] = results[q] /\ pc'[q] = pc[q]
    BY <1>1, <1>2, <1>4
    DEF LocalStep, Record, Report, request, TypeOK, WalkTyped
  <2> QED
    BY <1>1, <2>1 DEF StampsLast, More, Walked
<1>5. ASSUME NEW r \in Run, EndWalk(r) PROVE StampsLast'
  BY <1>1, <1>2, <1>3, <1>5 DEF EndWalk, StampsLast, request
<1>6. ASSUME NEW r \in Run,
             Start(r) \/ BeginWalk(r) \/ EmitEvent(r) \/ Finish(r) \/ SendPatch(r)
               \/ ReadFails(r) \/ Crash(r)
               \/ \E n \in Namespace : ReadNs(r, n) \/ StampNs(r, n)
      PROVE  StampsLast'
  <2>1. UNCHANGED <<plan, dry, results>>
    BY <1>6 DEF Start, BeginWalk, EmitEvent, Finish, SendPatch, ReadFails, Crash,
       ReadNs, StampNs, request
  <2>2. pc' = pc \/ pc'[r] # "stamp"
    BY <1>2, <1>6 DEF Start, BeginWalk, EmitEvent, Finish, SendPatch, Answer,
       ReadFails, Crash, ReadNs, StampNs
  <2>3. \A q \in Run \ {r} : pc'[q] = pc[q]
    BY <1>2, <1>6 DEF Start, BeginWalk, EmitEvent, Finish, SendPatch, Answer,
       ReadFails, Crash, ReadNs, StampNs
  <2> QED
    BY <1>1, <1>3, <2>1, <2>2, <2>3 DEF StampsLast
<1>7. CASE Environment
  BY <1>1, <1>3, <1>7
  DEF Environment, DeleteWorkload, Redeploy, DeleteNamespace, OthersUnchanged,
      request, StampsLast
<1>8. CASE UNCHANGED vars
  BY <1>1, <1>3, <1>8 DEF vars, StampsLast
<1> QED
  BY <1>4, <1>5, <1>6, <1>7, <1>8 DEF Next, Proceed

\* A run that has not failed in a namespace has landed each step it walked
\* there: by a patch of its own, or because it trusted an earned stamp.
LEMMA WalkLandedKept ==
    ASSUME IInv, [Next]_vars
    PROVE  WalkLanded'
<1>1. TypeOK /\ WalkLanded /\ TrustEarned /\ AnswerHonest
  BY DEF IInv
<1>2. /\ UNCHANGED <<op, plan, dry>>
      /\ \A p \in Plan, i \in Nat : Landed(p, i) => Landed(p, i)'
      /\ plan \in [Run -> Plan]
      /\ allSuccess \in [Run -> [Namespace -> BOOLEAN]]
      /\ results \in [Run -> Seq(Status)]
  BY <1>1, PatchesKept, LandedKept DEF request, TypeOK, MemoryTyped, WalkTyped
<1>3. ASSUME UNCHANGED <<results, allSuccess>> PROVE WalkLanded'
  <2> SUFFICES ASSUME NEW q \in Run, op[q] = "apply", ~dry[q],
                      NEW i \in 1 .. Len(results'[q]),
                      allSuccess'[q][NsAt(plan[q], i)]
               PROVE  Landed(plan[q], i)'
    BY <1>2 DEF WalkLanded, Walked, NsAt
  <2>1. Landed(plan[q], i)
    BY <1>1, <1>3 DEF WalkLanded, Walked
  <2>2. i \in Nat
    BY <1>2, <1>3
  <2> QED
    BY <1>2, <2>1, <2>2
\* A run reports on a step: only that step has to be shown landed.
<1>4. ASSUME NEW r \in Run, NEW s \in Status, More(r), Report(r, s),
             Spoil(r) \/ UNCHANGED allSuccess,
             op[r] = "apply" /\ ~dry[r] /\ ~Spoil(r) => Landed(plan[r], Cursor(r))
      PROVE  WalkLanded'
  <2> SUFFICES ASSUME NEW q \in Run, op[q] = "apply", ~dry[q],
                      NEW i \in 1 .. Len(results'[q]),
                      allSuccess'[q][NsAt(plan[q], i)]
               PROVE  Landed(plan[q], i)'
    BY <1>2 DEF WalkLanded, Walked, NsAt
  <2>1. /\ Len(results'[r]) = Len(results[r]) + 1
        /\ \A u \in Run \ {r} : results'[u] = results[u]
        /\ Len(results[r]) \in Nat
    BY <1>1, <1>2, <1>4, ReportGrows DEF Report
  <2>2. \A n \in Namespace : allSuccess'[q][n] => allSuccess[q][n]
    BY <1>2, <1>4 DEF Spoil
  <2>3. Landed(plan[q], i)
    <3>1. CASE i <= Len(results[q])
      <4>1. i \in 1 .. Walked(q)
        BY <1>2, <2>1, <3>1 DEF Walked
      <4>2. NsAt(plan[q], i) \in Namespace
        BY <1>1, <1>2, <4>1, NsInNamespace DEF TypeOK, WalkTyped, Index, Walked
      <4> QED
        BY <1>1, <2>2, <4>1, <4>2 DEF WalkLanded
    <3>2. CASE ~(i <= Len(results[q]))
      <4>1. q = r /\ i = Len(results[r]) + 1
        BY <1>2, <2>1, <3>2
      <4>2. i = Cursor(r)
        BY <4>1 DEF Cursor, Walked
      <4>3. CurNs(r) \in Namespace /\ CurNs(r) = NsAt(plan[r], i)
        BY <1>1, <1>4, <4>2, CursorInPlan DEF CurNs, CurStep, NsAt
      <4>4. ~Spoil(r)
        BY <1>2, <4>1, <4>3 DEF Spoil
      <4> QED
        BY <1>4, <4>1, <4>2, <4>4
    <3> QED
      BY <3>1, <3>2
  <2>4. i \in Nat
    BY <1>2, <2>1
  <2> QED
    BY <1>2, <2>3, <2>4
<1>5. ASSUME NEW r \in Run, LocalStep(r) PROVE WalkLanded'
  <2>1. PICK s \in Status : Report(r, s)
    BY <1>5 DEF LocalStep, Status
  <2>2. More(r) /\ (Spoil(r) \/ UNCHANGED allSuccess)
    BY <1>5 DEF LocalStep
  <2>3. ASSUME op[r] = "apply", ~dry[r], ~Spoil(r)
        PROVE  Landed(plan[r], Cursor(r))
    <3>1. ShortCircuit(r)
      BY <1>5, <2>3 DEF LocalStep
    <3>2. Earned(plan[r], CurNs(r))
      BY <1>1, <2>2, <2>3, <3>1, CursorInPlan DEF ShortCircuit, TrustEarned
    <3>3. Cursor(r) \in StepsIn(plan[r], CurNs(r))
      BY <1>1, <2>2, CursorInPlan DEF StepsIn, NsAt, CurNs, CurStep
    <3> QED
      BY <3>2, <3>3 DEF Earned
  <2> QED
    BY <1>4, <2>1, <2>2, <2>3
<1>6. ASSUME NEW r \in Run, Record(r) PROVE WalkLanded'
  <2>1. /\ More(r)
        /\ Report(r, StatusOf(r)) /\ StatusOf(r) \in Status
        /\ Spoil(r) \/ UNCHANGED allSuccess
    BY <1>1, <1>6 DEF Record, StatusOf, Status, TypeOK, WalkTyped
  <2>2. ASSUME op[r] = "apply", ~Spoil(r)
        PROVE  Landed(plan[r], Cursor(r))
    <3>1. answer[r] = "ok"
      BY <1>6, <2>2 DEF Record, StatusOf
    <3> QED
      BY <1>1, <2>2, <3>1 DEF AnswerHonest, Landed
  <2> QED
    BY <1>4, <2>1, <2>2
<1>7. ASSUME NEW r \in Run, Proceed(r), ~LocalStep(r), ~Record(r)
      PROVE  WalkLanded'
  BY <1>3, <1>7 DEF Proceed, BeginWalk, EmitEvent, EndWalk, Finish, ReadFails,
     SendPatch, ReadNs, StampNs
<1>8. CASE \E r \in Run : Start(r) \/ Crash(r)
  BY <1>3, <1>8 DEF Start, Crash
<1>9. CASE Environment
  BY <1>3, <1>9
  DEF Environment, DeleteWorkload, Redeploy, DeleteNamespace, OthersUnchanged
<1>10. CASE UNCHANGED vars
  BY <1>3, <1>10 DEF vars
<1> QED
  BY <1>5, <1>6, <1>7, <1>8, <1>9, <1>10 DEF Next

-----------------------------------------------------------------------------
\* The inductive invariant holds at first: nothing is stamped or walked.
LEMMA InitIInv == Init => IInv
<1> SUFFICES ASSUME Init PROVE IInv
  OBVIOUS
<1>1. TypeOK
  BY InitTypeOK
<1>2. Len(<< >>) = 0
  OBVIOUS
<1>3. WalkLanded
  BY <1>2 DEF Init, WalkLanded, Walked
<1>4. StampEarned /\ TrustEarned /\ AnswerHonest /\ StampsLast
  BY <1>1 DEF Init, StampEarned, TrustEarned, AnswerHonest, StampsLast,
     TypeOK, MemoryTyped
<1> QED
  BY <1>1, <1>3, <1>4 DEF IInv

\* Every action preserves it.
LEMMA NextIInv == IInv /\ [Next]_vars => IInv'
<1> SUFFICES ASSUME IInv, [Next]_vars PROVE IInv'
  OBVIOUS
<1>1. TypeOK'
  BY NextTypeOK DEF IInv
<1> QED
  BY <1>1, StampEarnedKept, TrustEarnedKept, AnswerHonestKept, WalkLandedKept,
     StampsLastKept DEF IInv

\* A stamp, a stamp that a run remembers and a flag that a run has kept stand
\* for patches that were performed, in every state the applier gets to.
THEOREM AlwaysBacked == Spec => []IInv
<1> QED
  BY InitIInv, NextIInv, PTL DEF Spec

\* However many runs interleave, whatever calls fail and wherever processes
\* die, a namespace carries the hash of a plan only if each of the plan's
\* steps in it was performed by an apply of that plan.
THEOREM StampAlwaysEarned == Spec => []StampEarned
<1>1. IInv => StampEarned
  BY DEF IInv
<1> QED
  BY <1>1, AlwaysBacked, PTL

\* A run only ever trusts a stamp that was earned: an apply that reports
\* "already-applied" does so for steps that did land.
THEOREM TrustAlwaysEarned == Spec => []TrustEarned
<1>1. IInv => TrustEarned
  BY DEF IInv
<1> QED
  BY <1>1, AlwaysBacked, PTL

-----------------------------------------------------------------------------
(* The audit trail. *)

\* AuditTrail, run by run.
Accounted(r) ==
    /\ audit[r] = {<<i, StatusAt(r, i)>> : i \in WalkedSteps(r) \ warned[r]}
    /\ warned[r] \subseteq WalkedSteps(r)
    /\ events[r] \subseteq patched[r]
    /\ patched[r] \ WalkedSteps(r) \subseteq
         (IF pc[r] \in {"event", "record", "crashed"} THEN {Cursor(r)} ELSE {})
    /\ \A i \in WalkedSteps(r) :
         StatusAt(r, i) = "applied" => (i \in patched[r] <=> ~dry[r])
\* A patch in flight is a real one, and its Event waits for the server's "ok".
InFlight(r) ==
    /\ pc[r] \in {"event", "record"} => ~dry[r]
    /\ pc[r] = "event" => answer[r] = "ok"
TrailInv == IInv /\ \A r \in Run : Accounted(r) /\ InFlight(r)

\* A step joins the walked ones at the cursor, with the status reported, and
\* the others keep theirs, whichever way the plan is walked.
LEMMA StepJoins ==
    ASSUME TypeOK, NEW r \in Run, NEW s \in Status, More(r), UNCHANGED <<op, plan>>,
           NEW c, c = Cursor(r),
           results' = [results EXCEPT ![r] = Append(@, s)]
    PROVE  /\ c \notin WalkedSteps(r)
           /\ WalkedSteps(r)' = WalkedSteps(r) \cup {c}
           /\ StatusAt(r, c)' = s
           /\ \A i \in WalkedSteps(r) : StatusAt(r, i)' = StatusAt(r, i)
<1> DEFINE len == Len(Steps[plan[r]])
           n == Len(results[r])
<1>1. results[r] \in Seq(Status) /\ Steps[plan[r]] \in Seq(Step)
      /\ results \in [Run -> Seq(Status)]
  BY InstanceAssumption DEF TypeOK, MemoryTyped, WalkTyped
<1>2. n \in Nat /\ len \in Nat /\ n < len
  BY <1>1 DEF More, Walked
<1>3. results'[r] = Append(results[r], s)
  BY <1>1
<1>4. /\ Len(results'[r]) = n + 1
      /\ results'[r][n + 1] = s
      /\ \A k \in 1 .. n : results'[r][k] = results[r][k]
  BY <1>1, <1>3
<1>5. /\ Len(Steps[plan'[r]]) = len /\ op'[r] = op[r]
      /\ Index(plan[r]) = 1 .. len /\ Index(plan'[r]) = 1 .. len
  BY DEF Index
<1>6. Walked(r) = n /\ Walked(r)' = n + 1
  BY <1>4 DEF Walked
<1>7. \A i : /\ StatusAt(r, i) = results[r][IF op[r] = "apply" THEN i ELSE len + 1 - i]
             /\ StatusAt(r, i)' = results'[r][IF op[r] = "apply" THEN i ELSE len + 1 - i]
  BY <1>5 DEF StatusAt
<1>8. /\ WalkedSteps(r) = {i \in 1 .. len : IF op[r] = "apply" THEN i <= n ELSE i > len - n}
      /\ WalkedSteps(r)' = {i \in 1 .. len : IF op[r] = "apply" THEN i <= n + 1
                                                              ELSE i > len - (n + 1)}
  BY <1>5, <1>6 DEF WalkedSteps
<1>9. c = IF op[r] = "apply" THEN n + 1 ELSE len - n
  BY <1>6 DEF Cursor
<1> HIDE DEF len, n
<1>10. CASE op[r] = "apply"
  <2>1. c = n + 1
    BY <1>9, <1>10
  <2>2. WalkedSteps(r) = 1 .. n /\ WalkedSteps(r)' = 1 .. (n + 1)
    BY <1>2, <1>8, <1>10
  <2>3. \A i : StatusAt(r, i) = results[r][i] /\ StatusAt(r, i)' = results'[r][i]
    BY <1>7, <1>10
  <2> QED
    BY <1>2, <1>4, <2>1, <2>2, <2>3
<1>11. CASE op[r] # "apply"
  <2>1. c = len - n
    BY <1>9, <1>11
  <2>2. WalkedSteps(r) = (len - n + 1) .. len /\ WalkedSteps(r)' = (len - n) .. len
    BY <1>2, <1>8, <1>11
  <2>3. \A i : /\ StatusAt(r, i) = results[r][len + 1 - i]
               /\ StatusAt(r, i)' = results'[r][len + 1 - i]
    BY <1>7, <1>11
  <2>4. len + 1 - c = n + 1 /\ \A i \in (len - n + 1) .. len : len + 1 - i \in 1 .. n
    BY <1>2, <2>1
  <2>5. c \notin WalkedSteps(r) /\ WalkedSteps(r)' = WalkedSteps(r) \cup {c}
    BY <1>2, <2>1, <2>2
  <2> QED
    BY <1>4, <2>2, <2>3, <2>4, <2>5
<1> QED
  BY <1>10, <1>11

\* A run whose own variables a step leaves alone stays accounted for.
LEMMA OthersAccounted ==
    ASSUME NEW r \in Run, Accounted(r), InFlight(r), UNCHANGED request,
           /\ results'[r] = results[r] /\ audit'[r] = audit[r]
           /\ warned'[r] = warned[r] /\ events'[r] = events[r]
           /\ patched'[r] = patched[r] /\ answer'[r] = answer[r],
           \/ pc'[r] = pc[r]
           \/ pc'[r] = "crashed"
           \/ pc[r] \notin {"event", "record", "crashed"} /\ pc'[r] \notin {"event", "record"}
    PROVE  Accounted(r)' /\ InFlight(r)'
<1>1. /\ WalkedSteps(r)' = WalkedSteps(r) /\ Cursor(r)' = Cursor(r)
      /\ \A i : StatusAt(r, i)' = StatusAt(r, i)
  BY DEF WalkedSteps, Walked, Cursor, StatusAt, request
<1>2. Accounted(r)'
  BY <1>1 DEF Accounted, request
<1>3. InFlight(r)'
  BY DEF InFlight, request
<1> QED
  BY <1>2, <1>3

\* The result of a step, its audit line or its warning go together.
LEMMA ReportAccounts ==
    ASSUME TypeOK, NEW r \in Run, NEW s \in Status, More(r), Accounted(r), Report(r, s),
           UNCHANGED <<op, plan, dry, patched, events>>, pc'[r] = "walk",
           patched[r] \subseteq WalkedSteps(r) \cup {Cursor(r)},
           s = "applied" => (Cursor(r) \in patched[r] <=> ~dry[r])
    PROVE  Accounted(r)'
<1>1. PICK c : c = Cursor(r)
  OBVIOUS
<1>2. /\ c \notin WalkedSteps(r)
      /\ WalkedSteps(r)' = WalkedSteps(r) \cup {c}
      /\ StatusAt(r, c)' = s
      /\ \A i \in WalkedSteps(r) : StatusAt(r, i)' = StatusAt(r, i)
  BY <1>1, StepJoins DEF Report
<1>3. audit \in [Run -> SUBSET (Nat \X Status)] /\ warned \in [Run -> SUBSET Nat]
  BY DEF TypeOK, TrailTyped
<1>4. \/ audit'[r] = audit[r] \cup {<<c, s>>} /\ warned'[r] = warned[r]
      \/ audit'[r] = audit[r] /\ warned'[r] = warned[r] \cup {c}
  BY <1>1, <1>3 DEF Report, AppendAudit
<1>5. warned'[r] \subseteq WalkedSteps(r)'
  BY <1>2, <1>4 DEF Accounted
<1>6. audit'[r] = {<<i, StatusAt(r, i)'>> : i \in WalkedSteps(r)' \ warned'[r]}
  <2>1. audit[r] = {<<i, StatusAt(r, i)'>> : i \in WalkedSteps(r) \ warned[r]}
    BY <1>2 DEF Accounted
  <2>2. CASE audit'[r] = audit[r] \cup {<<c, s>>} /\ warned'[r] = warned[r]
    <3>1. WalkedSteps(r)' \ warned'[r] = (WalkedSteps(r) \ warned[r]) \cup {c}
      BY <1>2, <2>2 DEF Accounted
    <3> QED
      BY <1>2, <2>1, <2>2, <3>1
  <2>3. CASE audit'[r] = audit[r] /\ warned'[r] = warned[r] \cup {c}
    <3>1. WalkedSteps(r)' \ warned'[r] = WalkedSteps(r) \ warned[r]
      BY <1>2, <2>3
    <3> QED
      BY <2>1, <2>3, <3>1
  <2> QED
    BY <1>4, <2>2, <2>3
<1>7. \A i \in WalkedSteps(r)' :
         StatusAt(r, i)' = "applied" => (i \in patched'[r] <=> ~dry'[r])
  BY <1>1, <1>2 DEF Accounted
<1> QED
  BY <1>1, <1>2, <1>5, <1>6, <1>7 DEF Accounted

\* Nothing has happened yet.
LEMMA InitTrail == Init => TrailInv
<1> SUFFICES ASSUME Init, NEW r \in Run PROVE Accounted(r) /\ InFlight(r)
  BY InitIInv DEF TrailInv
<1>1. WalkedSteps(r) = {}
  <2>1. Len(results[r]) = 0 /\ Len(Steps[plan[r]]) \in Nat
    BY InstanceAssumption DEF Init
  <2> QED
    BY <2>1 DEF WalkedSteps, Walked, Index
<1> QED
  BY <1>1 DEF Init, Accounted, InFlight

\* The invariant holds on through every step.
LEMMA NextTrail == TrailInv /\ [Next]_vars => TrailInv'
<1> SUFFICES ASSUME TrailInv, [Next]_vars PROVE \A q \in Run : Accounted(q)' /\ InFlight(q)'
  BY NextIInv DEF TrailInv
<1> USE DEF cluster, request, durable, bounds
<1>1. TypeOK /\ AnswerHonest /\ \A q \in Run : Accounted(q) /\ InFlight(q)
  BY DEF TrailInv, IInv
<1>2. /\ pc \in [Run -> PC] /\ answer \in [Run -> {"none", "ok", "failed", "notfound"}]
      /\ results \in [Run -> Seq(Status)] /\ dry \in [Run -> DryRuns]
      /\ audit \in [Run -> SUBSET (Nat \X Status)]
      /\ warned \in [Run -> SUBSET Nat] /\ events \in [Run -> SUBSET Nat]
      /\ patched \in [Run -> SUBSET Nat]
  BY <1>1 DEF TypeOK, MemoryTyped, WalkTyped, TrailTyped
<1>3. ASSUME NEW r \in Run, LocalStep(r)
      PROVE  \A q \in Run : Accounted(q)' /\ InFlight(q)'
  <2>1. /\ pc[r] = "walk" /\ More(r)
        /\ UNCHANGED <<op, plan, dry, patched, events, pc, answer>>
    BY <1>3 DEF LocalStep
  <2>2. PICK s \in Status : Report(r, s) /\ (s = "applied" => dry[r])
    BY <1>3 DEF LocalStep, Status
  <2>3. patched[r] \subseteq WalkedSteps(r)
    BY <1>1, <2>1 DEF Accounted
  <2>4. Cursor(r) \notin patched[r]
    BY <1>1, <2>1, <2>2, <2>3, StepJoins DEF Report
  <2>5. Accounted(r)'
    BY <1>1, <2>1, <2>2, <2>3, <2>4, ReportAccounts
  <2>6. \A q \in Run \ {r} : /\ results'[q] = results[q] /\ audit'[q] = audit[q]
                             /\ warned'[q] = warned[q]
    BY <1>2, <2>2 DEF Report, AppendAudit
  <2>7. \A q \in Run \ {r} : Accounted(q)' /\ InFlight(q)'
    BY <1>1, <2>1, <2>6, OthersAccounted
  <2>8. InFlight(r)'
    BY <2>1 DEF InFlight
  <2> QED
    BY <2>5, <2>7, <2>8
<1>4. ASSUME NEW r \in Run, Record(r)
      PROVE  \A q \in Run : Accounted(q)' /\ InFlight(q)'
  <2>1. /\ pc[r] = "record" /\ pc'[r] = "walk"
        /\ UNCHANGED <<op, plan, dry, patched, events>>
        /\ \A q \in Run \ {r} : pc'[q] = pc[q] /\ answer'[q] = answer[q]
    BY <1>2, <1>4 DEF Record
  <2>2. More(r)
    BY <1>1, <2>1 DEF TypeOK, WalkTyped
  <2>3. StatusOf(r) \in Status /\ (StatusOf(r) = "applied" => answer[r] = "ok")
    BY <1>2 DEF StatusOf, Status
  <2>4. patched[r] \subseteq WalkedSteps(r) \cup {Cursor(r)} /\ ~dry[r]
    BY <1>1, <2>1 DEF Accounted, InFlight
  <2>5. answer[r] = "ok" => Cursor(r) \in patched[r]
    BY <1>1 DEF AnswerHonest
  <2>6. Report(r, StatusOf(r))
    BY <1>4 DEF Record
  <2>7. Accounted(r)'
    BY <1>1, <2>1, <2>2, <2>3, <2>4, <2>5, <2>6, ReportAccounts
  <2>8. \A q \in Run \ {r} : /\ results'[q] = results[q] /\ audit'[q] = audit[q]
                             /\ warned'[q] = warned[q]
    BY <1>2, <2>6 DEF Report, AppendAudit
  <2>9. \A q \in Run \ {r} : Accounted(q)' /\ InFlight(q)'
    BY <1>1, <2>1, <2>8, OthersAccounted
  <2>10. InFlight(r)'
    BY <2>1 DEF InFlight
  <2> QED
    BY <2>7, <2>9, <2>10
<1>5. ASSUME NEW r \in Run, SendPatch(r)
      PROVE  \A q \in Run : Accounted(q)' /\ InFlight(q)'
  <2>1. /\ pc[r] = "walk" /\ ~dry[r]
        /\ UNCHANGED <<op, plan, dry, results, audit, warned, events>>
    BY <1>5 DEF SendPatch, MustPatch
  <2>2. PICK a \in {"ok", "failed", "notfound"} : Answer(r, a)
    BY <1>5 DEF SendPatch
  <2>3. /\ pc'[r] \in {"event", "record"} /\ (pc'[r] = "event" => answer'[r] = "ok")
        /\ \A q \in Run \ {r} : pc'[q] = pc[q] /\ answer'[q] = answer[q]
    BY <1>2, <2>2 DEF Answer
  <2>4. \/ patched' = patched
        \/ patched' = [patched EXCEPT ![r] = @ \cup {Cursor(r)}]
    BY <1>5 DEF SendPatch, Perform
  <2>5. /\ patched[r] \subseteq patched'[r] /\ patched'[r] \subseteq patched[r] \cup {Cursor(r)}
        /\ \A q \in Run \ {r} : patched'[q] = patched[q]
    BY <1>2, <2>4
  <2>6. More(r)
    BY <1>5 DEF SendPatch, MustPatch
  <2>7. Cursor(r) \notin WalkedSteps(r) /\ Cursor(r)' = Cursor(r)
    <3>1. TypeOK /\ Steps[plan[r]] \in Seq(Step)
      BY <1>1, InstanceAssumption DEF TypeOK, MemoryTyped
    <3>2. Len(results[r]) \in Nat /\ Len(Steps[plan[r]]) \in Nat
      BY <1>2, <3>1
    <3>3. CASE op[r] = "apply"
      <4>1. Cursor(r) = Len(results[r]) + 1 /\ ~(Cursor(r) <= Walked(r))
        BY <3>2, <3>3 DEF Cursor, Walked
      <4> QED
        BY <2>1, <3>3, <4>1 DEF Cursor, Walked, WalkedSteps
    <3>4. CASE op[r] # "apply"
      <4>1. PICK k \in Nat : k = Len(Steps[plan[r]]) - Walked(r)
        BY <1>1, <2>6, <3>4, CursorInPlan DEF Cursor, Index
      <4>2. ~(k > k) /\ Cursor(r) = k
        BY <3>4, <4>1 DEF Cursor
      <4> QED
        BY <2>1, <3>4, <4>1, <4>2 DEF Cursor, Walked, WalkedSteps
    <3> QED
      BY <3>3, <3>4
  <2>8. /\ WalkedSteps(r)' = WalkedSteps(r)
        /\ \A i : StatusAt(r, i)' = StatusAt(r, i)
    BY <2>1 DEF WalkedSteps, Walked, StatusAt
  <2>9. Accounted(r)'
    BY <1>1, <2>1, <2>3, <2>5, <2>7, <2>8 DEF Accounted
  <2>10. InFlight(r)'
    BY <2>1, <2>3 DEF InFlight
  <2>11. \A q \in Run \ {r} : Accounted(q)' /\ InFlight(q)'
    BY <1>1, <2>1, <2>3, <2>5, OthersAccounted
  <2> QED
    BY <2>9, <2>10, <2>11
<1>6. ASSUME NEW r \in Run, EmitEvent(r)
      PROVE  \A q \in Run : Accounted(q)' /\ InFlight(q)'
  <2>1. /\ pc[r] = "event" /\ pc'[r] = "record"
        /\ UNCHANGED <<op, plan, dry, results, audit, warned, patched, answer>>
        /\ \A q \in Run \ {r} : pc'[q] = pc[q] /\ events'[q] = events[q]
    BY <1>2, <1>6 DEF EmitEvent
  <2>2. events'[r] \subseteq events[r] \cup {Cursor(r)}
    BY <1>2, <1>6 DEF EmitEvent
  <2>3. Cursor(r) \in patched[r] /\ ~dry[r]
    BY <1>1, <2>1 DEF InFlight, AnswerHonest
  <2>4. /\ WalkedSteps(r)' = WalkedSteps(r) /\ Cursor(r)' = Cursor(r)
        /\ \A i : StatusAt(r, i)' = StatusAt(r, i)
    BY <2>1 DEF WalkedSteps, Walked, StatusAt, Cursor
  <2>5. Accounted(r)'
    BY <1>1, <2>1, <2>2, <2>3, <2>4 DEF Accounted
  <2>6. InFlight(r)'
    BY <2>1, <2>3 DEF InFlight
  <2>7. \A q \in Run \ {r} : Accounted(q)' /\ InFlight(q)'
    BY <1>1, <2>1, OthersAccounted
  <2> QED
    BY <2>5, <2>6, <2>7
<1>7. ASSUME NEW r \in Run,
             Start(r) \/ BeginWalk(r) \/ EndWalk(r) \/ Finish(r) \/ ReadFails(r)
               \/ Crash(r) \/ \E n \in Namespace : ReadNs(r, n) \/ StampNs(r, n)
      PROVE  \A q \in Run : Accounted(q)' /\ InFlight(q)'
  <2>1. UNCHANGED <<op, plan, dry, results, audit, warned, events, patched, answer>>
    BY <1>7 DEF Start, BeginWalk, EndWalk, Finish, ReadFails, Crash, ReadNs, StampNs
  <2>2. \/ pc'[r] = pc[r]
        \/ pc'[r] = "crashed"
        \/ pc[r] \notin {"event", "record", "crashed"} /\ pc'[r] \notin {"event", "record"}
    BY <1>2, <1>7
    DEF Start, BeginWalk, EndWalk, Finish, ReadFails, Crash, ReadNs, StampNs
  <2>3. \A q \in Run \ {r} : pc'[q] = pc[q]
    BY <1>2, <1>7
    DEF Start, BeginWalk, EndWalk, Finish, ReadFails, Crash, ReadNs, StampNs
  <2> QED
    BY <1>1, <2>1, <2>2, <2>3, OthersAccounted
<1>8. CASE Environment \/ UNCHANGED vars
  <2>1. UNCHANGED <<op, plan, dry, results, audit, warned, events, patched, answer, pc>>
    BY <1>8 DEF Environment, DeleteWorkload, Redeploy, DeleteNamespace,
       OthersUnchanged, vars
  <2> QED
    BY <1>1, <2>1, OthersAccounted
<1> QED
  BY <1>3, <1>4, <1>5, <1>6, <1>7, <1>8 DEF Next, Proceed

\* Every patch the API server performed is reported, warned of, or in flight at
\* the step a run is at or died at, whatever fails, overlaps or dies: the trail
\* of audit.jsonl has no other gaps, and no line that is not backed by a step.
THEOREM TrailComplete == Spec => []AuditTrail
<1>1. TrailInv => AuditTrail
  BY DEF TrailInv, AuditTrail, Accounted
<1> QED
  BY <1>1, InitTrail, NextTrail, PTL DEF Spec

-----------------------------------------------------------------------------
(* Operators who take turns. *)

\* A run that has not begun to walk has no results and all its flags.
Untouched ==
    \A r \in Run : pc[r] \in {"idle", "read"} =>
        results[r] = << >> /\ \A n \in Namespace : allSuccess[r][n] = TRUE
\* What a run decides in namespace n: Foreign and ShortCircuit, by namespace.
Away(r, n) ==
    /\ op[r] = "rollback" /\ Hash[plan[r]] # NoStamp
    /\ existing[r][n] \notin {NoStamp, Hash[plan[r]]}
Short(r, n) ==
    IF op[r] = "apply" THEN existing[r][n] = Hash[plan[r]] /\ Hash[plan[r]] # NoStamp
                       ELSE existing[r][n] = NoStamp
\* The namespaces that a run has read and has yet to stamp.
Held(r) ==
    CASE pc[r] = "read" -> AffectedNamespaces(plan[r]) \ todo[r]
      [] pc[r] \in {"walk", "event", "record"} -> AffectedNamespaces(plan[r])
      [] pc[r] = "stamp" -> todo[r]
      [] OTHER -> {}

Alone == \A q, r \in Active : q = r
GoneUnstamped == \A n \in Namespace \ liveNs : stamp[n] = NoStamp
\* Who is alone finds each stamp as it was read, or deleted.
RemembersAt(r) ==
    /\ pc[r] \in {"read", "stamp"} => todo[r] \subseteq AffectedNamespaces(plan[r])
    /\ \A n \in Held(r) : stamp[n] \in {existing[r][n], NoStamp}
\* A walked step of another plan's namespace has cost the namespace its flag.
SparesAt(r) ==
    \A i \in WalkedSteps(r) :
        Away(r, NsAt(plan[r], i)) => ~allSuccess[r][NsAt(plan[r], i)]
\* A patch in flight was decided on.
SendsAt(r) ==
    pc[r] \in {"event", "record"} =>
        ~ShortCircuit(r) /\ ~Foreign(r) /\ Builds(r) /\ ~dry[r]
TurnInv ==
    /\ TypeOK /\ StampsLast /\ Untouched /\ Alone /\ GoneUnstamped
    /\ \A r \in Run : RemembersAt(r) /\ SparesAt(r) /\ SendsAt(r)

\* The decision at the cursor is the decision for its namespace.
LEMMA ByNamespace ==
    ASSUME NEW r \in Run
    PROVE  Foreign(r) = Away(r, CurNs(r)) /\ ShortCircuit(r) = Short(r, CurNs(r))
BY DEF Foreign, Away, ShortCircuit, Short

\* A run's own variables.
Still(q) ==
    /\ pc'[q] = pc[q] /\ todo'[q] = todo[q] /\ existing'[q] = existing[q]
    /\ allSuccess'[q] = allSuccess[q] /\ results'[q] = results[q] /\ answer'[q] = answer[q]
    /\ op'[q] = op[q] /\ plan'[q] = plan[q] /\ dry'[q] = dry[q]

\* A command does not touch another's memory.
LEMMA OthersStill ==
    ASSUME TypeOK, NEW r \in Run, Start(r) \/ Proceed(r) \/ Crash(r)
    PROVE  /\ UNCHANGED <<op, plan, dry>>
           /\ \A q \in Run \ {r} : Still(q)
<1> USE DEF request, durable, bounds, cluster
<1>1. /\ pc \in [Run -> PC] /\ todo \in [Run -> SUBSET Namespace]
      /\ existing \in [Run -> [Namespace -> Stamp \cup {NoStamp}]]
      /\ allSuccess \in [Run -> [Namespace -> BOOLEAN]]
      /\ results \in [Run -> Seq(Status)]
      /\ answer \in [Run -> {"none", "ok", "failed", "notfound"}]
  BY DEF TypeOK, MemoryTyped, WalkTyped
<1>2. CASE LocalStep(r)
  BY <1>1, <1>2 DEF LocalStep, Report, Spoil, Still
<1>3. CASE SendPatch(r)
  BY <1>1, <1>3 DEF SendPatch, Answer, Still
<1>4. CASE Record(r)
  BY <1>1, <1>4 DEF Record, Report, Spoil, Still
<1>5. CASE Start(r) \/ BeginWalk(r) \/ EmitEvent(r) \/ EndWalk(r)
             \/ Finish(r) \/ ReadFails(r) \/ Crash(r)
  BY <1>1, <1>5 DEF Start, BeginWalk, EmitEvent, EndWalk, Finish, ReadFails, Crash, Still
<1>6. CASE \E n \in Namespace : ReadNs(r, n) \/ StampNs(r, n)
  BY <1>1, <1>6 DEF ReadNs, StampNs, Still
<1> QED
  BY <1>2, <1>3, <1>4, <1>5, <1>6 DEF Proceed

\* What is said of a run by its own variables.
LEMMA StillSame ==
    ASSUME NEW q \in Run, Still(q)
    PROVE  /\ Held(q)' = Held(q)
           /\ WalkedSteps(q)' = WalkedSteps(q) /\ Cursor(q)' = Cursor(q)
           /\ CurStep(q)' = CurStep(q) /\ CurNs(q)' = CurNs(q)
           /\ \A n : Away(q, n)' = Away(q, n) /\ Short(q, n)' = Short(q, n)
           /\ Foreign(q)' = Foreign(q) /\ ShortCircuit(q)' = ShortCircuit(q)
           /\ Builds(q)' = Builds(q)
<1>1. Walked(q)' = Walked(q)
  BY DEF Still, Walked
<1>2. Cursor(q)' = Cursor(q) /\ WalkedSteps(q)' = WalkedSteps(q)
  BY <1>1 DEF Still, Cursor, WalkedSteps
<1>3. CurStep(q)' = CurStep(q) /\ CurNs(q)' = CurNs(q)
  BY <1>2 DEF Still, CurStep, CurNs
<1>4. \A n : Away(q, n)' = Away(q, n) /\ Short(q, n)' = Short(q, n)
  BY DEF Still, Away, Short
<1>5. Builds(q)' = Builds(q)
  BY <1>3 DEF Still, Builds
<1>6. Foreign(q)' = Foreign(q) /\ ShortCircuit(q)' = ShortCircuit(q)
  BY <1>3 DEF Still, Foreign, ShortCircuit
<1>7. Held(q)' = Held(q)
  BY DEF Still, Held
<1> QED
  BY <1>2, <1>3, <1>4, <1>5, <1>6, <1>7

\* Nothing is reported, and no flag is lost, before the walk.
LEMMA UntouchedKept ==
    ASSUME NEW r \in Run, TypeOK, Untouched, Start(r) \/ Proceed(r) \/ Crash(r)
    PROVE  Untouched'
<1>1. \A q \in Run \ {r} : Still(q)
  BY OthersStill
<1>2. ASSUME pc'[r] \in {"idle", "read"}
      PROVE  /\ pc[r] \in {"idle", "read"}
             /\ results'[r] = results[r] /\ allSuccess'[r] = allSuccess[r]
  BY <1>2 DEF Start, Proceed, BeginWalk, LocalStep, SendPatch, Answer, EmitEvent, Record,
     EndWalk, Finish, ReadFails, ReadNs, StampNs, Crash, TypeOK, MemoryTyped
<1> QED
  BY <1>1, <1>2 DEF Untouched, Still

\* Who starts is alone, and nobody becomes active in another way.
LEMMA AloneKept ==
    ASSUME MaxActive = 1, IsFiniteSet(Run),
           NEW r \in Run, TypeOK, Alone, Start(r) \/ Proceed(r) \/ Crash(r)
    PROVE  Alone'
<1>1. \A q \in Run \ {r} : pc'[q] = pc[q]
  BY OthersStill DEF Still
<1>2. CASE Start(r)
  <2>1. Active = {}
    <3>1. IsFiniteSet(Active) /\ Cardinality(Active) < 1
      BY <1>2, FS_Subset DEF Active, Start
    <3> QED
      BY <3>1, FS_CardinalityType, FS_EmptySet
  <2> QED
    BY <1>1, <2>1 DEF Alone, Active
<1>3. CASE Proceed(r) \/ Crash(r)
  <2>1. r \in Active
    BY <1>3 DEF Proceed, BeginWalk, LocalStep, SendPatch, MustPatch, EmitEvent, Record,
       EndWalk, Finish, ReadFails, ReadNs, StampNs, Crash, Active, Ended
  <2> QED
    BY <1>1, <2>1 DEF Alone, Active
<1> QED
  BY <1>2, <1>3

\* Namespaces that are gone have no annotation, and get none.
LEMMA GoneKept ==
    ASSUME TypeOK, GoneUnstamped, [Next]_vars
    PROVE  GoneUnstamped'
<1> USE DEF cluster
<1>1. stamp \in [Namespace -> Stamp \cup {NoStamp}]
  BY DEF TypeOK, ClusterTyped
<1>2. CASE UNCHANGED <<stamp, liveNs>>
  BY <1>2 DEF GoneUnstamped
<1>3. ASSUME NEW r \in Run, NEW n \in Namespace, StampNs(r, n) PROVE GoneUnstamped'
  <2>1. liveNs' = liveNs
    BY <1>3 DEF StampNs
  <2>2. UNCHANGED stamp \/ (n \in liveNs /\ stamp' = [stamp EXCEPT ![n] = StampTo(r)])
    BY <1>3 DEF StampNs
  <2> QED
    BY <1>1, <2>1, <2>2 DEF GoneUnstamped
<1>4. ASSUME NEW n \in Namespace, DeleteNamespace(n) PROVE GoneUnstamped'
  BY <1>1, <1>4 DEF DeleteNamespace, GoneUnstamped
<1>5. ASSUME NEW r \in Run, Start(r) \/ Crash(r) PROVE GoneUnstamped'
  BY <1>2, <1>5 DEF Start, Crash
<1>6. ASSUME NEW r \in Run, Proceed(r), ~\E n \in Namespace : StampNs(r, n)
      PROVE  GoneUnstamped'
  BY <1>2, <1>6 DEF Proceed, BeginWalk, LocalStep, SendPatch, EmitEvent, Record,
     EndWalk, Finish, ReadFails, ReadNs
<1>7. CASE \E w \in Workload : DeleteWorkload(w) \/ Redeploy(w)
  BY <1>2, <1>7 DEF DeleteWorkload, Redeploy
<1>8. CASE UNCHANGED vars
  BY <1>2, <1>8 DEF vars
<1> QED
  BY <1>3, <1>4, <1>5, <1>6, <1>7, <1>8 DEF Next, Environment, Proceed

\* Whose memory and annotations are left alone remembers as before.
LEMMA RemembersStill ==
    ASSUME NEW q \in Run, RemembersAt(q), Still(q),
           \A n \in Held(q) : stamp'[n] \in {stamp[n], NoStamp}
    PROVE  RemembersAt(q)'
<1>1. Held(q)' = Held(q)
  BY StillSame
<1> QED
  BY <1>1 DEF RemembersAt, Still

\* Nobody stamps a namespace that another holds.
LEMMA RemembersKept ==
    ASSUME NEW r \in Run, TurnInv, Start(r) \/ Proceed(r) \/ Crash(r), Alone',
           NEW q \in Run
    PROVE  RemembersAt(q)'
<1> USE DEF cluster
<1>1. /\ UNCHANGED <<op, plan, dry>> /\ \A p \in Run \ {r} : Still(p)
      /\ stamp \in [Namespace -> Stamp \cup {NoStamp}]
      /\ pc \in [Run -> PC] /\ todo \in [Run -> SUBSET Namespace]
      /\ existing \in [Run -> [Namespace -> Stamp \cup {NoStamp}]]
      /\ RemembersAt(r) /\ AffectedNamespaces(plan[r]) \subseteq Namespace
  BY OthersStill, NsInNamespace DEF TurnInv, TypeOK, ClusterTyped, MemoryTyped
<1>2. CASE UNCHANGED stamp /\ q # r
  BY <1>1, <1>2, RemembersStill DEF TurnInv
<1>3. CASE q # r /\ ~UNCHANGED stamp
  <2>1. pc[r] = "stamp"
    BY <1>3 DEF Start, Proceed, BeginWalk, LocalStep, SendPatch, EmitEvent, Record, EndWalk,
       Finish, ReadFails, ReadNs, StampNs, Crash
  <2>2. Held(q) = {}
    BY <1>3, <2>1 DEF TurnInv, Alone, Active, Ended, Held
  <2> QED
    BY <1>1, <1>3, <2>2, RemembersStill DEF TurnInv
<1>4. CASE q = r /\ (LocalStep(r) \/ SendPatch(r) \/ EmitEvent(r) \/ Record(r))
  <2>1. pc'[r] \in {"walk", "event", "record"} /\ pc[r] \in {"walk", "event", "record"}
        /\ UNCHANGED <<stamp, existing, plan>>
    BY <1>1, <1>4 DEF LocalStep, SendPatch, MustPatch, Answer, EmitEvent, Record
  <2>2. Held(r)' = Held(r)
    BY <1>1, <2>1 DEF Held
  <2> QED
    BY <1>1, <1>4, <2>1, <2>2 DEF RemembersAt
<1>5. CASE q = r /\ (ReadFails(r) \/ Finish(r) \/ Crash(r))
  <2>1. pc'[r] \in Ended
    BY <1>1, <1>5 DEF ReadFails, Finish, Crash, Ended
  <2> QED
    BY <1>5, <2>1 DEF RemembersAt, Held, Ended
<1>6. CASE q = r /\ Start(r)
  <2>1. pc'[r] = "read" /\ todo'[r] = AffectedNamespaces(plan[r])
    BY <1>1, <1>6 DEF Start
  <2>2. Held(r)' = {}
    BY <1>1, <2>1 DEF Held
  <2> QED
    BY <1>1, <1>6, <2>1, <2>2 DEF RemembersAt
<1>7. CASE q = r /\ BeginWalk(r)
  <2>1. pc[r] = "read" /\ pc'[r] = "walk" /\ todo[r] = {} /\ UNCHANGED <<stamp, existing>>
    BY <1>1, <1>7 DEF BeginWalk
  <2>2. Held(r)' = Held(r)
    BY <1>1, <2>1 DEF Held
  <2> QED
    BY <1>1, <1>7, <2>1, <2>2 DEF RemembersAt
<1>8. CASE q = r /\ EndWalk(r)
  <2>1. /\ pc[r] = "walk" /\ UNCHANGED <<stamp, existing>>
        /\ \/ pc'[r] = "done"
           \/ pc'[r] = "stamp" /\ todo'[r] = AffectedNamespaces(plan[r])
    BY <1>1, <1>8 DEF EndWalk
  <2>2. Held(r)' \subseteq Held(r)
    BY <1>1, <2>1 DEF Held
  <2> QED
    BY <1>1, <1>8, <2>1, <2>2 DEF RemembersAt
<1>9. ASSUME q = r, NEW n \in Namespace, ReadNs(r, n) PROVE RemembersAt(q)'
  <2>1. /\ pc[r] = "read" /\ pc'[r] = "read" /\ UNCHANGED <<stamp, liveNs>>
        /\ todo'[r] = todo[r] \ {n} /\ n \in todo[r]
        /\ existing'[r][n] = IF n \in liveNs THEN stamp[n] ELSE NoStamp
        /\ \A m \in Namespace \ {n} : existing'[r][m] = existing[r][m]
    BY <1>1, <1>9 DEF ReadNs, IsNext
  <2>2. Held(r)' = Held(r) \cup {n}
    BY <1>1, <2>1 DEF Held, RemembersAt
  <2>3. stamp'[n] \in {existing'[r][n], NoStamp}
    BY <2>1 DEF TurnInv, GoneUnstamped
  <2>4. \A m \in Held(r) \ {n} : stamp'[m] \in {existing'[r][m], NoStamp}
    BY <1>1, <2>1 DEF RemembersAt, Held
  <2>5. todo'[r] \subseteq AffectedNamespaces(plan'[r])
    BY <1>1, <2>1 DEF RemembersAt
  <2> QED
    BY <1>9, <2>1, <2>2, <2>3, <2>4, <2>5 DEF RemembersAt
<1>10. ASSUME q = r, NEW n \in Namespace, StampNs(r, n) PROVE RemembersAt(q)'
  <2>1. /\ pc[r] = "stamp" /\ pc'[r] = "stamp" /\ UNCHANGED existing
        /\ todo'[r] = todo[r] \ {n}
        /\ \A m \in Namespace \ {n} : stamp'[m] = stamp[m]
    BY <1>1, <1>10 DEF StampNs
  <2>2. Held(r)' = Held(r) \ {n} /\ Held(r) \subseteq Namespace
    BY <1>1, <2>1 DEF Held
  <2> QED
    BY <1>1, <1>10, <2>1, <2>2 DEF RemembersAt
<1> QED
  BY <1>2, <1>3, <1>4, <1>5, <1>6, <1>7, <1>8, <1>9, <1>10 DEF Proceed

\* Before a report no step is walked.
LEMMA NothingWalked ==
    ASSUME TypeOK, NEW r \in Run, results[r] = << >>
    PROVE  WalkedSteps(r) = {}
<1>1. Len(results[r]) = 0 /\ Len(Steps[plan[r]]) \in Nat
  BY DEF TypeOK, MemoryTyped
<1> QED
  BY <1>1 DEF WalkedSteps, Walked, Index

\* After the last step all are.
LEMMA AllWalked ==
    ASSUME TypeOK, NEW r \in Run, ~More(r)
    PROVE  WalkedSteps(r) = Index(plan[r])
<1>1. Len(results[r]) \in Nat /\ Len(Steps[plan[r]]) \in Nat
  BY DEF TypeOK, MemoryTyped, WalkTyped
<1>2. Walked(r) = Len(Steps[plan[r]])
  BY <1>1 DEF TypeOK, WalkTyped, More, Walked
<1> QED
  BY <1>1, <1>2 DEF WalkedSteps, Index

\* A flag is never set again.
LEMMA FlagsFall ==
    ASSUME TypeOK, NEW r \in Run, Spoil(r) \/ UNCHANGED allSuccess, NEW n \in Namespace
    PROVE  /\ allSuccess'[r][n] => allSuccess[r][n]
           /\ n # CurNs(r) => allSuccess'[r][n] = allSuccess[r][n]
           /\ Spoil(r) => ~allSuccess'[r][CurNs(r)] \/ CurNs(r) \notin Namespace
<1>1. allSuccess \in [Run -> [Namespace -> BOOLEAN]]
  BY DEF TypeOK, MemoryTyped
<1> QED
  BY <1>1 DEF Spoil

\* Another plan's namespace loses its flag with the first step in it.
LEMMA SparesKept ==
    ASSUME NEW r \in Run, TurnInv, Start(r) \/ Proceed(r) \/ Crash(r), NEW q \in Run
    PROVE  SparesAt(q)'
<1> USE DEF request, durable, cluster
<1>1. /\ UNCHANGED <<op, plan, dry>> /\ \A p \in Run \ {r} : Still(p)
      /\ TypeOK /\ SparesAt(r) /\ SparesAt(q) /\ plan[r] \in Plan
  BY OthersStill DEF TurnInv, TypeOK, MemoryTyped
<1>2. CASE q # r
  BY <1>1, <1>2, StillSame DEF SparesAt, Still
<1>3. ASSUME UNCHANGED <<results, existing, allSuccess>>
      PROVE  SparesAt(r)'
  BY <1>1, <1>3 DEF SparesAt, Away, WalkedSteps, Walked
<1>4. CASE q = r /\ (\/ Start(r) \/ BeginWalk(r) \/ SendPatch(r) \/ EmitEvent(r) \/ EndWalk(r)
                       \/ Finish(r) \/ ReadFails(r) \/ Crash(r)
                       \/ \E n \in Namespace : StampNs(r, n))
  BY <1>3, <1>4 DEF Start, BeginWalk, SendPatch, EmitEvent, EndWalk, Finish, ReadFails,
     Crash, StampNs
<1>5. CASE q = r /\ \E n \in Namespace : ReadNs(r, n)
  <2>1. results[r] = << >> /\ results'[r] = << >>
    BY <1>5 DEF ReadNs, TurnInv, Untouched
  <2>2. WalkedSteps(r)' = {}
    <3>1. WalkedSteps(r) = {}
      BY <1>1, <2>1, NothingWalked
    <3> QED
      BY <1>1, <2>1, <3>1 DEF WalkedSteps, Walked
  <2> QED
    BY <1>5, <2>2 DEF SparesAt
<1>6. ASSUME NEW s \in Status, Report(r, s), More(r), existing' = existing,
             Spoil(r) \/ UNCHANGED allSuccess, Foreign(r) => Spoil(r)
      PROVE  SparesAt(r)'
  <2>1. PICK c : c = Cursor(r)
    OBVIOUS
  <2>2. WalkedSteps(r)' = WalkedSteps(r) \cup {c}
    BY <1>1, <1>6, <2>1, StepJoins DEF Report
  <2>3. c \in Index(plan[r]) /\ NsAt(plan[r], c) = CurNs(r) /\ CurNs(r) \in Namespace
    BY <1>1, <1>6, <2>1, CursorInPlan DEF CurNs, CurStep, NsAt
  <2>4. \A n : Away(r, n)' = Away(r, n)
    BY <1>1, <1>6 DEF Away
  <2>5. ASSUME Away(r, NsAt(plan[r], c)) PROVE ~allSuccess'[r][NsAt(plan[r], c)]
    BY <1>1, <1>6, <2>3, <2>5, ByNamespace, FlagsFall
  <2>6. ASSUME NEW i \in WalkedSteps(r), Away(r, NsAt(plan[r], i))
        PROVE  ~allSuccess'[r][NsAt(plan[r], i)]
    <3>1. NsAt(plan[r], i) \in Namespace
      BY <1>1, NsInNamespace DEF WalkedSteps
    <3> QED
      BY <1>1, <1>6, <2>6, <3>1, FlagsFall DEF SparesAt
  <2> QED
    BY <1>1, <2>2, <2>4, <2>5, <2>6 DEF SparesAt, NsAt
<1>7. CASE q = r /\ LocalStep(r)
  <2>1. ShortCircuit(r) => ~Foreign(r)
    BY DEF ShortCircuit, Foreign
  <2>2. PICK s \in Status : Report(r, s)
    BY <1>7 DEF LocalStep, Status
  <2>3. More(r) /\ existing' = existing /\ (Spoil(r) \/ UNCHANGED allSuccess)
        /\ (Foreign(r) => Spoil(r))
    BY <1>7, <2>1 DEF LocalStep
  <2> QED
    BY <1>6, <1>7, <2>2, <2>3
<1>8. CASE q = r /\ Record(r)
  <2>1. More(r) /\ ~Foreign(r) /\ StatusOf(r) \in Status
    BY <1>8 DEF Record, TurnInv, SendsAt, TypeOK, WalkTyped, StatusOf, Status
  <2>2. Report(r, StatusOf(r)) /\ existing' = existing /\ (Spoil(r) \/ UNCHANGED allSuccess)
    BY <1>8 DEF Record
  <2> QED
    BY <1>6, <1>8, <2>1, <2>2
<1> QED
  BY <1>2, <1>4, <1>5, <1>7, <1>8 DEF Proceed

\* What was decided before a patch holds until its result is recorded.
LEMMA SendsKept ==
    ASSUME NEW r \in Run, TurnInv, Start(r) \/ Proceed(r) \/ Crash(r), NEW q \in Run
    PROVE  SendsAt(q)'
<1> USE DEF request, durable, cluster
<1>1. /\ UNCHANGED <<op, plan, dry>> /\ \A p \in Run \ {r} : Still(p)
      /\ pc \in [Run -> PC] /\ SendsAt(r) /\ SendsAt(q)
  BY OthersStill DEF TurnInv, TypeOK, MemoryTyped
<1>2. CASE q # r
  BY <1>1, <1>2, StillSame DEF SendsAt, Still
<1>3. CASE q = r /\ (SendPatch(r) \/ EmitEvent(r))
  <2>1. UNCHANGED <<existing, results>> /\ (MustPatch(r) \/ pc[r] = "event")
    BY <1>3 DEF SendPatch, EmitEvent
  <2> QED
    BY <1>1, <1>3, <2>1 DEF MustPatch, SendsAt, ShortCircuit, Foreign, Builds, CurNs, CurStep,
       Cursor, Walked
<1>4. CASE q = r /\ (\/ Start(r) \/ BeginWalk(r) \/ LocalStep(r) \/ Record(r) \/ EndWalk(r)
                       \/ Finish(r) \/ ReadFails(r) \/ Crash(r)
                       \/ \E n \in Namespace : ReadNs(r, n) \/ StampNs(r, n))
  <2>1. pc'[r] \notin {"event", "record"}
    BY <1>1, <1>4 DEF Start, BeginWalk, LocalStep, Record, EndWalk, Finish, ReadFails, Crash,
       ReadNs, StampNs
  <2> QED
    BY <1>4, <2>1 DEF SendsAt
<1> QED
  BY <1>2, <1>3, <1>4 DEF Proceed

\* A command that takes its turn keeps the invariant.
LEMMA TurnInvKept ==
    ASSUME MaxActive = 1, IsFiniteSet(Run), NEW r \in Run, TurnInv,
           Start(r) \/ Proceed(r) \/ Crash(r)
    PROVE  TurnInv'
<1>1. [Next]_vars
  BY DEF Next
<1>2. TypeOK' /\ StampsLast' /\ Untouched' /\ Alone' /\ GoneUnstamped'
  BY <1>1, NextTypeOK, StampsLastKept, UntouchedKept, AloneKept, GoneKept DEF TurnInv
<1> QED
  BY <1>1, <1>2, RemembersKept, SparesKept, SendsKept DEF TurnInv

\* And so do the other actors of the cluster.
LEMMA TurnInvUndisturbed ==
    ASSUME TurnInv, Environment \/ UNCHANGED vars
    PROVE  TurnInv'
<1>1. [Next]_vars
  BY DEF Next
<1>2. /\ \A q \in Run : Still(q)
      /\ \A n \in Namespace : stamp'[n] \in {stamp[n], NoStamp}
  BY DEF Environment, DeleteWorkload, Redeploy, DeleteNamespace, OthersUnchanged, request,
     vars, Still, TurnInv, TypeOK, ClusterTyped
<1>3. ASSUME NEW q \in Run
      PROVE  RemembersAt(q)' /\ SparesAt(q)' /\ SendsAt(q)'
  <2>1. RemembersAt(q) /\ SparesAt(q) /\ SendsAt(q) /\ Held(q) \subseteq Namespace
    BY NsInNamespace DEF TurnInv, Held, TypeOK, MemoryTyped
  <2>2. RemembersAt(q)'
    BY <1>2, <2>1, RemembersStill
  <2> QED
    BY <1>2, <2>1, <2>2, StillSame DEF SparesAt, SendsAt, Still
<1>4. Untouched' /\ Alone'
  BY <1>2 DEF TurnInv, Untouched, Alone, Active, Still
<1>5. TypeOK' /\ StampsLast' /\ GoneUnstamped'
  BY <1>1, NextTypeOK, StampsLastKept, GoneKept DEF TurnInv
<1> QED
  BY <1>3, <1>4, <1>5 DEF TurnInv

LEMMA InitTurnInv == Init => TurnInv
<1> SUFFICES ASSUME Init PROVE TurnInv
  OBVIOUS
<1>1. TypeOK
  BY InitTypeOK
<1>2. \A r \in Run : pc[r] = "idle" /\ results[r] = << >>
  BY DEF Init
<1>3. \A r \in Run : WalkedSteps(r) = {}
  BY <1>1, <1>2, NothingWalked
<1>4. StampsLast /\ Untouched /\ Alone /\ GoneUnstamped
  BY <1>2 DEF Init, StampsLast, Untouched, Alone, Active, GoneUnstamped
<1>5. \A r \in Run : Held(r) = {}
  BY <1>2 DEF Held
<1> QED
  BY <1>1, <1>2, <1>3, <1>4, <1>5 DEF TurnInv, RemembersAt, SparesAt, SendsAt

\* Operators who take turns never lose another plan's stamp to a rollback: it
\* was read before the walk, and its namespace has no flag left at the end.
LEMMA TurnSpares ==
    ASSUME TurnInv, NEW r \in Run, NEW n \in Namespace, StampNs(r, n),
           op[r] = "rollback", Hash[plan[r]] # NoStamp,
           stamp[n] \notin {NoStamp, Hash[plan[r]]}
    PROVE  stamp'[n] = stamp[n]
<1>1. pc[r] = "stamp" /\ n \in todo[r]
  BY DEF StampNs, IsNext
<1>2. stamp[n] = existing[r][n] /\ n \in AffectedNamespaces(plan[r])
  BY <1>1 DEF TurnInv, RemembersAt, Held
<1>3. Away(r, n)
  BY <1>2 DEF Away
<1>4. PICK i \in Index(plan[r]) : NsAt(plan[r], i) = n
  BY <1>2 DEF AffectedNamespaces
<1>5. i \in WalkedSteps(r)
  BY <1>1, AllWalked DEF TurnInv, StampsLast
<1>6. ~allSuccess[r][n]
  BY <1>3, <1>4, <1>5 DEF TurnInv, SparesAt
<1> QED
  BY <1>6 DEF StampNs

\* Where operators take turns, a rollback keeps another plan's annotation,
\* whichever calls fail, wherever a process dies and whatever others delete.
\* (Where they overlap it does not: foreign_stamp_race.)
THEOREM ForeignKeptInTurns ==
    ASSUME MaxActive = 1, IsFiniteSet(Run)
    PROVE  Spec => ForeignStampKept
<1>1. TurnInv /\ [Next]_vars => TurnInv'
  BY TurnInvKept, TurnInvUndisturbed DEF Next
<1>2. TurnInv /\ [Next]_vars =>
        [\A r \in Run, n \in Namespace :
           /\ op[r] = "rollback" /\ Hash[plan[r]] # NoStamp
           /\ stamp[n] \notin {NoStamp, Hash[plan[r]]}
           /\ StampNs(r, n)
           => stamp'[n] = stamp[n]]_vars
  BY TurnSpares
<1> QED
  BY <1>1, <1>2, InitTurnInv, PTL DEF Spec, ForeignStampKept

-----------------------------------------------------------------------------
(* The applier implements the ledger of seals. *)

\* What is performed, spelled out.
LEMMA Performed ==
    PerformedSteps =
        {x \in Plan \X Nat : x[2] \in Index(x[1]) /\ Landed(x[1], x[2])}
BY DEF PerformedSteps, Index

\* Nothing has been performed, or sealed, at first.
LEMMA InitLedger == Init => L!LedgerInit
<1> SUFFICES ASSUME Init PROVE L!LedgerInit
  OBVIOUS
<1>1. \A p \in Plan, i \in Nat : ~Landed(p, i)
  BY DEF Init, Landed
<1>2. PerformedSteps = {}
  BY <1>1, Performed
<1> QED
  BY <1>2 DEF Init, L!LedgerInit

\* The ledger grows with the patches that are performed and with nothing else.
LEMMA PerformedKept ==
    ASSUME TypeOK, [Next]_vars, UNCHANGED patched
    PROVE  UNCHANGED PerformedSteps
<1>1. UNCHANGED <<op, plan>>
  BY PatchesKept DEF request
<1>2. \A p, i : Landed(p, i)' <=> Landed(p, i)
  BY <1>1 DEF Landed
<1> QED
  BY <1>2 DEF PerformedSteps

\* A step of the applier is a step of the ledger or leaves it as it is.
LEMMA NextLedger ==
    IInv /\ [Next]_vars => [L!LedgerNext]_<<PerformedSteps, stamp>>
<1> SUFFICES ASSUME IInv, [Next]_vars
             PROVE  L!LedgerNext \/ UNCHANGED <<PerformedSteps, stamp>>
  OBVIOUS
<1> USE DEF cluster
<1> DEFINE Part == [p \in Plan |-> [n \in Namespace |-> StepsIn(p, n)]]
<1>1. TypeOK /\ WalkLanded /\ StampsLast
  BY DEF IInv
<1>2. plan \in [Run -> Plan]
  BY <1>1 DEF TypeOK, MemoryTyped
<1>3. ASSUME NEW r \in Run, SendPatch(r)
      PROVE  L!LedgerNext \/ UNCHANGED <<PerformedSteps, stamp>>
  <2>1. UNCHANGED stamp
    BY <1>3 DEF SendPatch
  <2>2. CASE UNCHANGED patched
    BY <1>1, <2>1, <2>2, PerformedKept
  <2>3. CASE patched' = [patched EXCEPT ![r] = @ \cup {Cursor(r)}]
    <3>1. UNCHANGED <<op, plan>>
      BY <1>1, PatchesKept DEF request
    <3>2. Cursor(r) \in Index(plan[r]) /\ CurNs(r) \in Namespace
      BY <1>1, <1>3, CursorInPlan DEF SendPatch, MustPatch
    <3>3. \A q \in Run \ {r} : patched'[q] = patched[q]
      BY <1>1, <2>3 DEF TypeOK, TrailTyped
    <3>4. patched'[r] = patched[r] \cup {Cursor(r)}
      BY <1>1, <2>3 DEF TypeOK, TrailTyped
    <3>5. CASE op[r] = "apply"
      <4>1. \A p, i : Landed(p, i)' <=> Landed(p, i) \/ (p = plan[r] /\ i = Cursor(r))
        BY <3>1, <3>3, <3>4, <3>5 DEF Landed
      <4>2. PerformedSteps' = PerformedSteps \cup {<<plan[r], Cursor(r)>>}
        BY <1>2, <3>2, <4>1 DEF PerformedSteps
      <4>3. Cursor(r) \in StepsIn(plan[r], CurNs(r))
        BY <3>2 DEF StepsIn, NsAt, CurNs, CurStep
      <4>4. L!Land(plan[r], Cursor(r))
        BY <2>1, <4>2 DEF L!Land
      <4> QED
        BY <1>2, <3>2, <4>3, <4>4 DEF L!LedgerNext
    <3>6. CASE op[r] # "apply"
      <4>1. \A p, i : Landed(p, i)' <=> Landed(p, i)
        BY <3>1, <3>3, <3>6 DEF Landed
      <4>2. UNCHANGED PerformedSteps
        BY <4>1 DEF PerformedSteps
      <4> QED
        BY <2>1, <4>2
    <3> QED
      BY <3>5, <3>6
  <2> QED
    BY <1>3, <2>2, <2>3 DEF SendPatch, Perform
<1>4. ASSUME NEW r \in Run, NEW n \in Namespace, StampNs(r, n)
      PROVE  L!LedgerNext \/ UNCHANGED <<PerformedSteps, stamp>>
  <2>1. UNCHANGED PerformedSteps
    BY <1>1, <1>4, PerformedKept DEF StampNs
  <2>2. CASE UNCHANGED stamp
    BY <2>1, <2>2
  <2>3. CASE /\ allSuccess[r][n]
             /\ stamp' = [stamp EXCEPT ![n] = StampTo(r)]
             /\ op[r] # "apply"
    BY <2>1, <2>3 DEF StampTo, L!LedgerNext, L!Break
  <2>4. CASE /\ allSuccess[r][n]
             /\ stamp' = [stamp EXCEPT ![n] = StampTo(r)]
             /\ op[r] = "apply"
    <3>1. Index(plan[r]) \subseteq 1 .. Walked(r) /\ ~dry[r]
      <4>1. results[r] \in Seq(Status) /\ Steps[plan[r]] \in Seq(Step)
        BY <1>1, <1>2 DEF TypeOK, WalkTyped
      <4> QED
        BY <1>1, <1>4, <4>1 DEF StampNs, StampsLast, More, Walked, Index
    <3>2. \A i \in StepsIn(plan[r], n) : i \in Index(plan[r]) /\ Landed(plan[r], i)
      BY <1>1, <2>4, <3>1 DEF WalkLanded, StepsIn
    <3>3. \A i \in StepsIn(plan[r], n) : <<plan[r], i>> \in PerformedSteps
      BY <1>2, <3>2 DEF PerformedSteps
    <3>4. L!Seal(plan[r], n)
      BY <1>2, <2>1, <2>4, <3>3 DEF L!Seal, StampTo
    <3> QED
      BY <1>2, <3>4 DEF L!LedgerNext
  <2> QED
    BY <1>4, <2>2, <2>3, <2>4 DEF StampNs
<1>5. ASSUME NEW n \in Namespace, DeleteNamespace(n)
      PROVE  L!LedgerNext
  <2>1. UNCHANGED PerformedSteps
    BY <1>1, <1>5, PerformedKept DEF DeleteNamespace, OthersUnchanged
  <2> QED
    BY <1>5, <2>1 DEF DeleteNamespace, L!LedgerNext, L!Break
<1>6. ASSUME UNCHANGED <<patched, stamp>>
      PROVE  UNCHANGED <<PerformedSteps, stamp>>
  BY <1>1, <1>6, PerformedKept
<1>7. CASE \E r \in Run : Start(r) \/ Crash(r)
  BY <1>6, <1>7 DEF Start, Crash
<1>8. ASSUME NEW r \in Run, Proceed(r), ~SendPatch(r),
             ~\E n \in Namespace : StampNs(r, n)
      PROVE  UNCHANGED <<patched, stamp>>
  BY <1>8 DEF Proceed, BeginWalk, LocalStep, EmitEvent, Record, EndWalk, Finish,
     ReadFails, ReadNs
<1>9. CASE \E w \in Workload : DeleteWorkload(w) \/ Redeploy(w)
  BY <1>6, <1>9 DEF DeleteWorkload, Redeploy, OthersUnchanged
<1>10. CASE UNCHANGED vars
  BY <1>6, <1>10 DEF vars
<1> QED
  BY <1>3, <1>4, <1>5, <1>6, <1>7, <1>8, <1>9, <1>10
  DEF Next, Environment, Proceed

\* The plan-hash annotation is a seal over completed work: every behaviour of
\* the applier is, seen through its performed steps and its annotations, a
\* behaviour of the ledger.
THEOREM AppliesByTheLedger == Spec => ImplementsLedger
<1> QED
  BY InitIInv, NextIInv, InitLedger, NextLedger, PTL
  DEF Spec, ImplementsLedger, L!LedgerSpec

-----------------------------------------------------------------------------
(* A session: one operator, one plan, one command after the other.  The proof *)
(* does not need the turns: applies may overlap as long as no rollback has    *)
(* begun.                                                                     *)

\* The runs are the script's, and nobody else changes the cluster.
ByScript ==
    /\ op = [r \in Run |-> Script[r]] /\ dry = [r \in Run |-> FALSE]
    /\ live = Workload
\* A namespace that has lost its flag in an apply has a failed step to show.
FlagsAccounted ==
    \A r \in Run : op[r] = "apply" =>
        \A n \in Namespace : ~allSuccess[r][n] => Reported(r, "failed")
DoneAfterLast == \A r \in Run : pc[r] = "done" => ~More(r)
NothingRolledBack == \A r \in Run : op[r] = "rollback" => pc[r] = "idle"
\* What was patched in stays in force until something is rolled back.
StaysInForce ==
    NothingRolledBack =>
        \A p \in Plan : \A i \in Index(p) :
            Landed(p, i) => class[Steps[p][i].target] = Steps[p][i].class
SessionInv ==
    IInv /\ ByScript /\ FlagsAccounted /\ DoneAfterLast /\ StaysInForce

\* A command of the session is a command of the applier.
LEMMA InScript ==
    ASSUME [SessionNext]_vars
    PROVE  [Next]_vars
BY DEF SessionNext, Next

\* Before the first command nothing has landed, failed or been rolled back.
LEMMA InitSessionInv ==
    ASSUME OneStepEach, SessionInit
    PROVE  SessionInv
<1>1. IInv
  BY InitIInv DEF SessionInit
<1>2. ByScript /\ FlagsAccounted /\ DoneAfterLast
  BY DEF SessionInit, Init, ByScript, FlagsAccounted, DoneAfterLast
<1>3. StaysInForce
  BY DEF SessionInit, Init, StaysInForce, Landed
<1> QED
  BY <1>1, <1>2, <1>3 DEF SessionInv

\* No command changes the request, and none deletes a workload.
LEMMA ByScriptKept ==
    ASSUME SessionInv, [SessionNext]_vars
    PROVE  ByScript'
<1>1. UNCHANGED <<op, plan, dry>>
  BY InScript, PatchesKept DEF request, SessionInv, IInv
<1>2. UNCHANGED live
  BY DEF SessionNext, Start, Proceed, BeginWalk, LocalStep, SendPatch, EmitEvent, Record,
     EndWalk, Finish, ReadFails, ReadNs, StampNs, Crash, cluster, vars
<1> QED
  BY <1>1, <1>2 DEF SessionInv, ByScript

\* A report that loses a flag in an apply is one of failure.
LEMMA FlagsAccountedKept ==
    ASSUME SessionInv, [SessionNext]_vars
    PROVE  FlagsAccounted'
<1> USE DEF request, durable, cluster
<1>1. TypeOK /\ FlagsAccounted /\ UNCHANGED <<op, plan, dry>>
  BY InScript, PatchesKept DEF SessionInv, IInv
<1>2. CASE UNCHANGED <<results, allSuccess>>
  BY <1>1, <1>2 DEF FlagsAccounted, Reported, Walked
<1>3. ASSUME NEW r \in Run, NEW s \in Status, Report(r, s),
             \/ UNCHANGED allSuccess
             \/ Spoil(r) /\ (s = "failed" \/ op[r] # "apply")
      PROVE  FlagsAccounted'
  <2>1. /\ Len(results'[r]) = Len(results[r]) + 1
        /\ results'[r] = Append(results[r], s)
        /\ \A q \in Run \ {r} : results'[q] = results[q]
    BY <1>1, <1>3, ReportGrows DEF Report, TypeOK, WalkTyped
  <2>2. results[r] \in Seq(Status)
    BY <1>1 DEF TypeOK, WalkTyped
  <2>3. Reported(r, "failed") => Reported(r, "failed")'
    BY <2>1, <2>2 DEF Reported, Walked
  <2>4. s = "failed" => Reported(r, "failed")'
    BY <2>1, <2>2 DEF Reported, Walked
  <2>5. ASSUME NEW q \in Run, q # r PROVE /\ allSuccess'[q] = allSuccess[q]
                                         /\ Reported(q, "failed")' = Reported(q, "failed")
    BY <1>1, <1>3, <2>1, <2>5 DEF Spoil, Reported, Walked, TypeOK, MemoryTyped
  <2>6. CASE UNCHANGED allSuccess
    BY <1>1, <2>3, <2>5, <2>6 DEF FlagsAccounted
  <2>7. CASE s = "failed" \/ op[r] # "apply"
    BY <1>1, <2>4, <2>5, <2>7 DEF FlagsAccounted
  <2> QED
    BY <1>3, <2>6, <2>7
<1>4. ASSUME NEW r \in Run, LocalStep(r) PROVE FlagsAccounted'
  <2>1. \/ Report(r, "already-applied") /\ UNCHANGED allSuccess
        \/ Report(r, "skipped") /\ Spoil(r) /\ op[r] # "apply"
        \/ Report(r, "failed") /\ Spoil(r)
        \/ Report(r, "applied") /\ UNCHANGED allSuccess
    BY <1>4 DEF LocalStep, Foreign
  <2> QED
    BY <1>3, <2>1 DEF Status
<1>5. ASSUME NEW r \in Run, Record(r) PROVE FlagsAccounted'
  <2>1. StatusOf(r) \in Status
    BY DEF StatusOf, Status
  <2> QED
    BY <1>3, <1>5, <2>1 DEF Record
<1>6. ASSUME NEW r \in Run, Start(r) \/ Proceed(r) \/ Crash(r), ~LocalStep(r), ~Record(r)
      PROVE  UNCHANGED <<results, allSuccess>>
  BY <1>6 DEF Start, Proceed, BeginWalk, SendPatch, EmitEvent, EndWalk, Finish, ReadFails,
     ReadNs, StampNs, Crash
<1>7. CASE UNCHANGED vars
  BY <1>2, <1>7 DEF vars
<1> QED
  BY <1>2, <1>4, <1>5, <1>6, <1>7 DEF SessionNext

\* A run is done after the last step, and for good.
LEMMA DoneAfterLastKept ==
    ASSUME SessionInv, [SessionNext]_vars
    PROVE  DoneAfterLast'
<1> USE DEF request
<1>1. /\ TypeOK /\ DoneAfterLast /\ StampsLast /\ ByScript
      /\ UNCHANGED <<op, plan, dry>> /\ pc \in [Run -> PC]
  BY InScript, PatchesKept DEF SessionInv, IInv, TypeOK, MemoryTyped
<1>2. CASE UNCHANGED vars
  BY <1>1, <1>2 DEF vars, DoneAfterLast, More, Walked
<1>3. ASSUME NEW r \in Run, Start(r) \/ Proceed(r) \/ Crash(r), NEW q \in Run, pc'[q] = "done"
      PROVE  ~More(q)'
  <2>1. CASE q # r
    <3>1. Still(q)
      BY <1>1, <1>3, <2>1, OthersStill
    <3> QED
      BY <1>1, <1>3, <3>1 DEF Still, DoneAfterLast, More, Walked
  <2>2. CASE q = r
    <3>1. UNCHANGED results /\ (Finish(r) \/ EndWalk(r))
      BY <1>1, <1>3, <2>2 DEF Start, Proceed, BeginWalk, LocalStep, SendPatch, Answer, EmitEvent,
         Record, EndWalk, Finish, ReadFails, ReadNs, StampNs, Crash, MustPatch, Active, Ended
    <3>2. ~More(r)
      BY <1>1, <3>1 DEF Finish, EndWalk, StampsLast
    <3> QED
      BY <1>1, <2>2, <3>1, <3>2 DEF More, Walked
  <2> QED
    BY <2>1, <2>2
<1> QED
  BY <1>2, <1>3 DEF SessionNext, DoneAfterLast

\* As long as no rollback has started, a patch can only put a step in force.
LEMMA StaysInForceKept ==
    ASSUME OneStepEach, ScriptFits, SessionInv, [SessionNext]_vars
    PROVE  StaysInForce'
<1> USE DEF request
<1>1. /\ TypeOK /\ StaysInForce /\ ByScript
      /\ UNCHANGED <<op, plan, dry>> /\ pc \in [Run -> PC] /\ plan \in [Run -> Plan]
      /\ op \in [Run -> Ops]
  BY InScript, PatchesKept DEF SessionInv, IInv, TypeOK, MemoryTyped
<1>2. NothingRolledBack' => NothingRolledBack
  <2>1. ASSUME NEW r \in Run, Start(r) \/ Proceed(r) \/ Crash(r)
        PROVE  /\ pc'[r] # "idle"
               /\ \A q \in Run \ {r} : pc'[q] = pc[q]
    <3>1. pc'[r] # "idle"
      BY <1>1, <2>1 DEF Start, Proceed, BeginWalk, LocalStep, SendPatch, Answer, EmitEvent, Record,
         EndWalk, Finish, ReadFails, ReadNs, StampNs, Crash, MustPatch, Active, Ended
    <3> QED
      BY <1>1, <2>1, <3>1, OthersStill DEF Still
  <2> QED
    BY <1>1, <2>1 DEF NothingRolledBack, SessionNext, vars
<1>3. CASE UNCHANGED <<class, patched>>
  BY <1>1, <1>2, <1>3 DEF StaysInForce, Landed
<1>4. ASSUME NEW r \in Run, SendPatch(r), Perform(r), NothingRolledBack'
      PROVE  StaysInForce'
  <2>1. PICK c : c = Cursor(r)
    OBVIOUS
  <2>2. /\ op[r] = "apply" /\ More(r)
    BY <1>1, <1>4 DEF SendPatch, Answer, MustPatch, NothingRolledBack
  <2>3. /\ c \in Index(plan[r]) /\ CurStep(r) = Steps[plan[r]][c]
        /\ CurStep(r) \in Step
    BY <1>1, <2>1, <2>2, CursorInPlan DEF CurStep
  <2>4. /\ class' = [class EXCEPT ![CurStep(r).target] = CurStep(r).class]
        /\ class \in [Workload -> Class \cup {NoClass}]
        /\ patched' = [patched EXCEPT ![r] = @ \cup {c}]
    BY <1>1, <1>4, <2>1, <2>2 DEF Perform, PatchTo, TypeOK, ClusterTyped
  <2>5. ASSUME NEW p \in Plan, NEW i \in Index(p), Landed(p, i)'
        PROVE  class'[Steps[p][i].target] = Steps[p][i].class
    <3>1. p = plan[r]
      BY <1>1 DEF ScriptFits
    <3>2. CASE i = c
      BY <2>3, <2>4, <3>1, <3>2 DEF Step
    <3>3. CASE i # c
      <4>1. Landed(p, i)
        BY <1>1, <2>4, <2>5, <3>3 DEF Landed, TypeOK, TrailTyped
      <4>2. class[Steps[p][i].target] = Steps[p][i].class
        BY <1>2, <1>4, <1>1, <4>1 DEF StaysInForce
      <4>3. Steps[p][i].target # CurStep(r).target
        BY <2>3, <3>1, <3>3 DEF OneStepEach
      <4>4. Steps[p][i].target \in Workload
        <5>1. Steps[p][i] \in Step
          BY DEF Index
        <5> QED
          BY <5>1 DEF Step
      <4> QED
        BY <2>4, <4>2, <4>3, <4>4
    <3> QED
      BY <3>2, <3>3
  <2> QED
    BY <2>5 DEF StaysInForce
<1>5. ASSUME NEW r \in Run, SendPatch(r) PROVE UNCHANGED <<class, patched>> \/ Perform(r)
  BY <1>5 DEF SendPatch
<1>6. ASSUME NEW r \in Run, Start(r) \/ Proceed(r) \/ Crash(r), ~SendPatch(r)
      PROVE  UNCHANGED <<class, patched>>
  BY <1>6 DEF Start, Proceed, BeginWalk, LocalStep, EmitEvent, Record, EndWalk, Finish, ReadFails,
     ReadNs, StampNs, Crash, cluster
<1>7. CASE UNCHANGED vars
  BY <1>3, <1>7 DEF vars
<1>8. ~NothingRolledBack' => StaysInForce'
  BY DEF StaysInForce
<1> QED
  BY <1>3, <1>4, <1>5, <1>6, <1>7, <1>8 DEF SessionNext

\* Every step of an apply that ended with exit code 0 has landed, by that apply
\* or before it, and nothing has been rolled back since.
LEMMA SucceededInForce ==
    ASSUME AppliesFirst, OneStepEach, ScriptFits, SessionInv
    PROVE  ApplyExitZero
<1> SUFFICES ASSUME NEW r \in Run, op[r] = "apply", Succeeded(r),
                    NEW p \in Plan, NEW n \in Namespace, NEW i \in StepsIn(p, n)
             PROVE  class[Steps[p][i].target] = Steps[p][i].class
  BY DEF ApplyExitZero, InForceEverywhere, InForce
<1>1. p = plan[r] /\ i \in Index(p) /\ NsAt(p, i) = n
  BY DEF ScriptFits, StepsIn, SessionInv, IInv, TypeOK, MemoryTyped
<1>2. NothingRolledBack
  <2>1. ASSUME NEW q \in Run, op[q] = "rollback" PROVE pc[q] = "idle"
    <3>1. Script[r] = "apply" /\ Script[q] = "rollback"
      BY <2>1 DEF SessionInv, ByScript
    <3>2. q \in Int /\ r \in Int
      BY ScriptAssumption DEF ScriptFits
    <3>3. ~(q < r) /\ q # r
      BY <3>1 DEF AppliesFirst
    <3> QED
      BY <3>2, <3>3 DEF Succeeded
  <2> QED
    BY <2>1 DEF NothingRolledBack
<1>3. pc[r] = "done" /\ ~Reported(r, "failed")
  BY DEF Succeeded, ExitCode
<1>4. allSuccess[r][n]
  BY <1>3 DEF SessionInv, FlagsAccounted
<1>5. i \in 1 .. Walked(r)
  <2>1. results[r] \in Seq(Status) /\ Steps[p] \in Seq(Step) /\ ~More(r)
    BY <1>3 DEF SessionInv, DoneAfterLast, IInv, TypeOK, WalkTyped
  <2> QED
    BY <1>1, <2>1 DEF More, Walked, Index
<1>6. Landed(p, i)
  BY <1>1, <1>4, <1>5 DEF SessionInv, IInv, WalkLanded, ByScript
<1> QED
  BY <1>1, <1>2, <1>6 DEF SessionInv, StaysInForce

\* Exit code 0 of an apply is the truth whatever calls failed before, in this
\* apply or an earlier one, and wherever an earlier one was killed, as long as
\* nothing was rolled back before it.  (An apply after a rollback that died
\* half-way trusts the annotation that is left: apply_already_true.)
THEOREM ExitZeroInForce ==
    ASSUME ScriptFits, AppliesFirst, OneStepEach
    PROVE  SessionSpec => []ApplyExitZero
<1>1. SessionInit => SessionInv
  BY InitSessionInv
<1>2. SessionInv /\ [SessionNext]_vars => SessionInv'
  BY InScript, NextIInv, ByScriptKept, FlagsAccountedKept, DoneAfterLastKept, StaysInForceKept
  DEF SessionInv
<1>3. SessionInv => ApplyExitZero
  BY SucceededInForce
<1> QED
  BY <1>1, <1>2, <1>3, PTL DEF SessionSpec
=============================================================================

--------------------------- MODULE MigrationProofs ---------------------------
(* What runs is what was planned and asked for: the invariant behind it, and   *)
(* the proof. *)
EXTENDS Migration, FiniteSetTheorems, ApplierProofs

\* Documents are in the files, or are known to the runs, by themselves or as
\* what was planned; the loader vouches for a claim as the planner does.
Placed ==
    /\ files \in [File -> Doc \cup {NoPlanFile}]
    /\ plan \in [Run -> Doc]
    /\ dry \in [Run -> BOOLEAN]
    /\ pc \in [Run -> PC]
    /\ DOMAIN patched = Run /\ DOMAIN asked = Run
    /\ loaded \subseteq Run
Sealed(d) == Content[d].claim = P!ComputePlanHash(Content[d].steps, Content[d].options)
Genuine == \A p \in proposals : p.doc \in Doc /\ Sealed(p.doc)
\* Whatever is edited, a claim is the one that the planner made.
ClaimsPlanned ==
    \A f \in File : files[f] \in Doc /\ Content[files[f]].claim # NoStamp =>
        \E p \in proposals : Content[files[f]].claim = Content[p.doc].claim
RunsPlanned ==
    \A r \in loaded : Content[plan[r]].claim # NoStamp =>
        \E p \in proposals : plan[r] = p.doc
\* Who is past idle has loaded a plan and has kept to what was asked.
Obedient ==
    \A r \in Run :
      /\ pc[r] \notin {"idle", "error"} => r \in loaded
      /\ r \in loaded => dry[r] = ReadDryRun(asked[r])
      /\ patched[r] # {} => r \in loaded /\ ~dry[r] /\ pc[r] # "idle"

MInv == Placed /\ Genuine /\ ClaimsPlanned /\ RunsPlanned /\ Obedient

\* The initial states satisfy the invariant.
LEMMA MInvInit == MigrationInit => MInv
<1> SUFFICES ASSUME MigrationInit PROVE MInv
  OBVIOUS
<1>1. (CHOOSE p \in Plan : TRUE) \in Plan /\ (CHOOSE d \in DryRuns : TRUE) \in DryRuns
  BY MigrationAssumption
<1>2. Placed
  BY <1>1, DocumentAssumption, InstanceAssumption
     DEF MigrationInit, Init, Placed, PC, Ended
<1>3. Genuine /\ ClaimsPlanned /\ RunsPlanned
  BY DocumentAssumption DEF MigrationInit, Genuine, ClaimsPlanned, RunsPlanned
<1>4. Obedient
  BY DEF MigrationInit, Init, Obedient
<1> QED
  BY <1>2, <1>3, <1>4 DEF MInv

\* What a run does once started leaves the other runs alone, ends in no state
\* that a run may be loaded in, and patches only where it is no dry run.
LEMMA ProceedKeeps ==
  ASSUME NEW r \in Run, Placed, Proceed(r)
  PROVE  /\ pc[r] \notin {"idle", "error"}
         /\ pc' \in [Run -> PC] /\ pc'[r] # "idle"
         /\ \A q \in Run \ {r} : pc'[q] = pc[q]
         /\ DOMAIN patched' = Run
         /\ \A q \in Run : patched'[q] # patched[q] => q = r /\ ~dry[r]
         /\ UNCHANGED request
<1>1. CASE BeginWalk(r) \/ ReadFails(r)
  BY <1>1 DEF BeginWalk, ReadFails, Placed, PC, Ended, request
<1>2. CASE LocalStep(r)
  BY <1>2 DEF LocalStep, Placed, PC, Ended, request
<1>3. CASE SendPatch(r)
  <2>1. pc[r] = "walk" /\ ~dry[r] /\ UNCHANGED request
    BY <1>3 DEF SendPatch, MustPatch
  <2>2. \E a \in {"ok", "failed", "notfound"} : Answer(r, a)
    BY <1>3 DEF SendPatch
  <2>3. pc' \in [Run -> PC] /\ pc'[r] # "idle" /\ \A q \in Run \ {r} : pc'[q] = pc[q]
    BY <2>2 DEF Answer, Placed, PC, Ended
  <2>4. Perform(r) \/ UNCHANGED patched
    BY <1>3 DEF SendPatch
  <2> QED
    BY <2>1, <2>3, <2>4 DEF Perform, Placed
<1>4. CASE EmitEvent(r)
  BY <1>4 DEF EmitEvent, Placed, PC, Ended, request
<1>5. CASE Record(r)
  BY <1>5 DEF Record, Placed, PC, Ended, request
<1>6. CASE EndWalk(r) \/ Finish(r)
  BY <1>6 DEF EndWalk, Finish, Placed, PC, Ended, request
<1>7. CASE \E n \in Namespace : ReadNs(r, n) \/ StampNs(r, n)
  BY <1>7 DEF ReadNs, StampNs, Placed, PC, Ended, request
<1> QED
  BY <1>1, <1>2, <1>3, <1>4, <1>5, <1>6, <1>7 DEF Proceed

\* The invariant holds on through every step.
LEMMA MInvStep == MInv /\ [MigrationNext]_migrationVars => MInv'
<1> SUFFICES ASSUME MInv, [MigrationNext]_migrationVars PROVE MInv'
  OBVIOUS
<1>1. ASSUME NEW r \in Run, Proceed(r), UNCHANGED surroundings
      PROVE  MInv'
  <2>1. Placed'
    BY <1>1, ProceedKeeps DEF MInv, Placed, surroundings, request
  <2>2. Genuine' /\ ClaimsPlanned' /\ RunsPlanned'
    BY <1>1, ProceedKeeps DEF MInv, Genuine, ClaimsPlanned, RunsPlanned, Sealed, surroundings, request
  <2>3. Obedient'
    BY <1>1, ProceedKeeps DEF MInv, Obedient, surroundings, request
  <2> QED
    BY <2>1, <2>2, <2>3 DEF MInv
<1>2. ASSUME NEW r \in Run, r \in loaded, Start(r), UNCHANGED surroundings
      PROVE  MInv'
  <2>1. pc[r] = "idle" /\ pc' = [pc EXCEPT ![r] = "read"] /\ UNCHANGED <<request, patched>>
    BY <1>2 DEF Start
  <2>2. Placed'
    BY <1>2, <2>1 DEF MInv, Placed, PC, Ended, surroundings, request
  <2>3. Genuine' /\ ClaimsPlanned' /\ RunsPlanned'
    BY <1>2, <2>1 DEF MInv, Genuine, ClaimsPlanned, RunsPlanned, Sealed, surroundings, request
  <2>4. Obedient'
    BY <1>2, <2>1 DEF MInv, Placed, Obedient, surroundings, request
  <2> QED
    BY <2>2, <2>3, <2>4 DEF MInv
<1>3. ASSUME NEW r \in Run, Blocked(r)
      PROVE  MInv'
  <2>1. r \in loaded /\ pc[r] = "idle"
    BY <1>3 DEF Blocked, Pending
  <2>2. Placed'
    BY <1>3 DEF MInv, Placed, Blocked, PC, Ended, surroundings, request
  <2>3. Genuine' /\ ClaimsPlanned' /\ RunsPlanned'
    BY <1>3 DEF MInv, Genuine, ClaimsPlanned, RunsPlanned, Sealed, Blocked, surroundings, request
  <2>4. Obedient'
    BY <1>3, <2>1 DEF MInv, Placed, Obedient, Blocked, surroundings, request
  <2> QED
    BY <2>2, <2>3, <2>4 DEF MInv
<1>4. ASSUME NEW r \in Run, NEW o \in Ops, NEW f \in File, NEW ask \in Asks, Load(r, o, f, ask)
      PROVE  MInv'
  <2>1. /\ r \notin loaded /\ pc[r] = "idle"
        /\ dry' = [dry EXCEPT ![r] = ReadDryRun(ask)]
        /\ asked' = [asked EXCEPT ![r] = ask]
        /\ UNCHANGED <<patched, files, proposals>>
    BY <1>4 DEF Load, Fresh
  <2>2. ReadDryRun(ask) \in BOOLEAN
    BY DEF ReadDryRun
  <2>3. CASE Loadable(files[f]) /\ UNCHANGED pc /\ loaded' = loaded \cup {r}
             /\ plan' = [plan EXCEPT ![r] = files[f]]
    <3>1. files[f] \in Doc /\ plan'[r] = files[f]
      BY <2>3 DEF MInv, Placed, Loadable
    <3>2. Placed'
      BY <2>1, <2>2, <2>3, <3>1 DEF MInv, Placed
    <3>3. Genuine' /\ ClaimsPlanned'
      BY <2>1 DEF MInv, Genuine, ClaimsPlanned, Sealed
    <3>4. ASSUME Content[files[f]].claim # NoStamp
          PROVE  \E p \in proposals : files[f] = p.doc
      <4>1. PICK p \in proposals : Content[files[f]].claim = Content[p.doc].claim
        BY <3>1, <3>4 DEF MInv, ClaimsPlanned
      <4>2. Sealed(files[f]) /\ Sealed(p.doc) /\ p.doc \in Doc
        BY <2>3, <3>4 DEF Loadable, Sealed, MInv, Genuine
      <4> DEFINE c == Content[files[f]]
                 d == Content[p.doc]
      <4>3. <<c.steps, c.options>> = <<d.steps, d.options>>
        BY <4>1, <4>2 DEF Sealed, P!ComputePlanHash
      <4>4. c.steps = d.steps /\ c.options = d.options
        <5> HIDE DEF c, d
        <5> QED
          BY <4>3
      <4> QED
        BY <3>1, <4>1, <4>2, <4>4, DocumentAssumption
    <3>5. RunsPlanned'
      BY <2>1, <2>3, <3>1, <3>4 DEF MInv, RunsPlanned, Placed
    <3>6. Obedient'
      BY <2>1, <2>3 DEF MInv, Obedient, Placed
    <3> QED
      BY <3>2, <3>3, <3>5, <3>6 DEF MInv
  <2>4. CASE pc' = [pc EXCEPT ![r] = "error"] /\ UNCHANGED <<plan, loaded>>
    <3>1. Placed'
      BY <2>1, <2>2, <2>4 DEF MInv, Placed, PC, Ended
    <3>2. Genuine' /\ ClaimsPlanned' /\ RunsPlanned'
      BY <2>1, <2>4 DEF MInv, Genuine, ClaimsPlanned, RunsPlanned, Sealed
    <3>3. Obedient'
      BY <2>1, <2>4 DEF MInv, Obedient, Placed
    <3> QED
      BY <3>1, <3>2, <3>3 DEF MInv
  <2> QED
    BY <1>4, <2>3, <2>4 DEF Load
<1>5. ASSUME NEW f \in File, NEW scope \in Scopes, NEW options \in PlanOptions,
             Propose(f, scope, options)
      PROVE  MInv'
  <2>1. UNCHANGED vars /\ UNCHANGED <<loaded, asked>>
    BY <1>5 DEF Propose
  <2> DEFINE moment == [w \in scope |-> template[w]]
             made == P!PlanOf(RowsOf(moment), options, "now", {})
  <2>2. PICK d \in DocsOf(Written(made)) :
             /\ files' = [files EXCEPT ![f] = d]
             /\ proposals' = proposals \cup {[doc |-> d, templates |-> moment]}
    BY <1>5 DEF Propose
  <2>3. d \in Doc /\ Content[d] = Written(made)
    BY <2>2 DEF DocsOf
  <2>4. made.hash = P!ComputePlanHash(made.steps, made.options)
    BY DEF P!PlanOf
  <2>5. Sealed(d)
    BY <2>3, <2>4 DEF Sealed, Written
  <2>6. Placed'
    BY <2>1, <2>2, <2>3 DEF MInv, Placed, vars
  <2>7. Genuine'
    BY <2>2, <2>3, <2>5 DEF MInv, Genuine, Sealed
  <2>8. ClaimsPlanned'
    <3>1. ASSUME NEW g \in File, files'[g] \in Doc, Content[files'[g]].claim # NoStamp
          PROVE  \E p \in proposals' : Content[files'[g]].claim = Content[p.doc].claim
      <4> DEFINE new == [doc |-> d, templates |-> moment]
      <4>1. new \in proposals' /\ new.doc = d
        BY <2>2
      <4>2. CASE g = f
        <5>1. files'[g] = d
          BY <2>2, <4>2 DEF MInv, Placed
        <5> QED
          BY <4>1, <5>1
      <4>3. CASE g # f
        <5>1. files'[g] = files[g]
          BY <2>2, <4>3 DEF MInv, Placed
        <5> QED
          BY <2>2, <3>1, <5>1 DEF MInv, ClaimsPlanned
      <4> QED
        BY <4>2, <4>3
    <3> QED
      BY <3>1 DEF ClaimsPlanned
  <2>9. RunsPlanned' /\ Obedient'
    BY <2>1, <2>2 DEF MInv, RunsPlanned, Obedient, vars
  <2> QED
    BY <2>6, <2>7, <2>8, <2>9 DEF MInv
<1>6. ASSUME NEW f \in File, Edit(f)
      PROVE  MInv'
  <2>1. UNCHANGED vars /\ UNCHANGED <<loaded, asked, proposals>> /\ files[f] \in Doc
    BY <1>6 DEF Edit, MInv, Placed
  <2>2. PICK c \in Edited(Content[files[f]]) : \E d \in DocsOf(c) : files' = [files EXCEPT ![f] = d]
    BY <1>6 DEF Edit
  <2>3. PICK d \in DocsOf(c) : files' = [files EXCEPT ![f] = d]
    BY <2>2
  <2>4. d \in Doc /\ Content[d] = c
    BY <2>3 DEF DocsOf
  <2>5. c.claim \in {NoStamp, Content[files[f]].claim}
    BY <2>1, <2>2, DocumentAssumption DEF Edited
  <2>6. Placed'
    BY <2>1, <2>3, <2>4 DEF MInv, Placed, vars
  <2>7. ClaimsPlanned'
    BY <2>1, <2>3, <2>4, <2>5 DEF MInv, ClaimsPlanned, Placed
  <2>8. Genuine' /\ RunsPlanned' /\ Obedient'
    BY <2>1 DEF MInv, Genuine, Sealed, RunsPlanned, Obedient, vars
  <2> QED
    BY <2>6, <2>7, <2>8 DEF MInv
<1>7. CASE UNCHANGED <<vars, files, loaded, asked, proposals>>
  BY <1>7 DEF MInv, Placed, Genuine, Sealed, ClaimsPlanned, RunsPlanned, Obedient, vars
<1>8. ASSUME NEW w \in Workload, NEW t \in Template, Change(w, t)
      PROVE  MInv'
  BY <1>7, <1>8 DEF Change
<1>9. ASSUME NEW r \in Run, Invocation(r)
      PROVE  MInv'
  BY <1>1, <1>2, <1>3, <1>4, <1>9 DEF Invocation
<1>10. CASE UNCHANGED migrationVars
  BY <1>7, <1>10 DEF migrationVars, surroundings
<1> QED
  BY <1>5, <1>6, <1>8, <1>9, <1>10 DEF MigrationNext

-----------------------------------------------------------------------------
(* The applier's types, under the loader. *)

\* Nobody else deletes anything here.
Whole == live = Workload /\ liveNs = Namespace

\* Started, a command deletes nothing.
LEMMA WholeKept ==
    ASSUME NEW r \in Run, Start(r) \/ Proceed(r), Whole
    PROVE  Whole'
BY DEF Start, Proceed, BeginWalk, LocalStep, SendPatch, EmitEvent, Record, EndWalk,
   Finish, ReadFails, ReadNs, StampNs, cluster, Whole

MTyped == TypeOK /\ Untouched /\ Whole

\* The applier's types hold at first,
LEMMA MTypedInit == MigrationInit => MTyped
BY InitTypeOK DEF MigrationInit, MTyped, Init, Untouched, Whole

\* and when a document is loaded, for the loader lets only plans through.
LEMMA MTypedStep == MTyped /\ MInv /\ [MigrationNext]_migrationVars => MTyped'
<1> SUFFICES ASSUME MTyped, MInv, [MigrationNext]_migrationVars PROVE MTyped'
  OBVIOUS
<1>1. ASSUME NEW r \in Run, Start(r) \/ Proceed(r) PROVE MTyped'
  <2>1. Next
    BY <1>1 DEF Next
  <2> QED
    BY <1>1, <2>1, NextTypeOK, UntouchedKept, WholeKept DEF MTyped
<1>2. ASSUME NEW r \in Run, Blocked(r) PROVE MTyped'
  <2>1. ClusterTyped' /\ MemoryTyped' /\ TrailTyped'
    BY <1>2 DEF Blocked, MTyped, TypeOK, ClusterTyped, MemoryTyped, TrailTyped, PC,
       Ended, cluster, request, durable, bounds
  <2>2. WalkTyped'
    BY <1>2 DEF Blocked, MTyped, TypeOK, WalkTyped, MemoryTyped, Walked, More, request
  <2>3. Untouched' /\ Whole'
    BY <1>2 DEF Blocked, MTyped, TypeOK, MemoryTyped, Untouched, Whole, cluster
  <2> QED
    BY <2>1, <2>2, <2>3 DEF MTyped, TypeOK
<1>3. ASSUME NEW r \in Run, NEW o \in Ops, NEW f \in File, NEW ask \in Asks,
             Load(r, o, f, ask)
      PROVE  MTyped'
  <2>1. pc[r] = "idle" /\ results[r] = << >>
    BY <1>3 DEF Load, Fresh, MTyped, Untouched
  <2>2. ReadDryRun(ask) \in DryRuns
    BY MigrationAssumption DEF ReadDryRun
  <2>3. \/ pc' = pc /\ plan' = [plan EXCEPT ![r] = files[f]] /\ files[f] \in Plan
        \/ pc' = [pc EXCEPT ![r] = "error"] /\ plan' = plan
    <3>1. ASSUME Loadable(files[f]) PROVE files[f] \in Plan
      <4>1. files[f] \in Doc
        BY <3>1 DEF Loadable, MInv, Placed
      <4>2. Content[files[f]].claim \in
              {NoStamp, P!ComputePlanHash(Content[files[f]].steps, Content[files[f]].options)}
        BY <3>1 DEF Loadable
      <4> QED
        BY <4>1, <4>2, DocumentAssumption
    <3> QED
      BY <1>3, <3>1 DEF Load
  <2>4. ClusterTyped' /\ MemoryTyped' /\ TrailTyped'
    BY <1>3, <2>2, <2>3 DEF Load, MTyped, TypeOK, ClusterTyped, MemoryTyped, TrailTyped,
       PC, Ended, cluster, durable, bounds
  <2>5. WalkTyped'
    <3>1. /\ results' = results /\ plan'[r] \in Plan /\ pc'[r] \in {"idle", "error"}
          /\ \A q \in Run \ {r} : plan'[q] = plan[q] /\ pc'[q] = pc[q]
      BY <1>3, <2>1, <2>3 DEF Load, MTyped, TypeOK, MemoryTyped
    <3>2. Len(results[r]) = 0 /\ Len(Steps[plan'[r]]) \in Nat
      BY <2>1, <3>1
    <3> QED
      BY <3>1, <3>2 DEF MTyped, TypeOK, WalkTyped, Walked, More
  <2>6. Untouched' /\ Whole'
    BY <1>3, <2>3 DEF Load, MTyped, TypeOK, MemoryTyped, Untouched, Whole, cluster
  <2> QED
    BY <2>4, <2>5, <2>6 DEF MTyped, TypeOK
<1>4. CASE UNCHANGED vars
  BY <1>4 DEF MTyped, TypeOK, ClusterTyped, MemoryTyped, WalkTyped, TrailTyped, Walked,
     More, Untouched, Whole, vars
<1>5. CASE \/ \E f \in File, scope \in Scopes, options \in PlanOptions :
               Propose(f, scope, options)
           \/ \E f \in File : Edit(f)
           \/ \E w \in Workload, t \in Template : Change(w, t)
           \/ UNCHANGED migrationVars
  BY <1>4, <1>5 DEF Propose, Edit, Change, migrationVars
<1> QED
  BY <1>1, <1>2, <1>3, <1>5 DEF MigrationNext, Invocation

-----------------------------------------------------------------------------
(* What planned documents say. *)

PP == INSTANCE PlannerProofs

\* The planner of Migration and that of PlannerProofs are one: they plan alike.
LEMMA SamePlanning ==
    ASSUME NEW rows, NEW options
    PROVE  /\ P!PlanSteps(rows, options) = PP!PlanSteps(rows, options)
           /\ PP!Included(rows, options) = P!Included(rows, options)
<1>1. P!Included(rows, options) = PP!Included(rows, options)
  BY DEF P!Included, PP!Included, P!PatchableInPlace, PP!PatchableInPlace
<1>2. ASSUME NEW S
      PROVE  P!Cardinality(S) = PP!Cardinality(S)
  BY Zenon DEF P!Cardinality, PP!Cardinality
<1>3. ASSUME NEW kind, NEW reasons
      PROVE  P!Score(kind, reasons) = PP!Score(kind, reasons)
  BY <1>2, Zenon DEF P!Score, PP!Score, P!KindRiskWeight, PP!KindRiskWeight,
     P!WarnWeight, PP!WarnWeight, P!InfoWeight, PP!InfoWeight
<1>4. ASSUME NEW w
      PROVE  P!Risk(rows, w) = PP!Risk(rows, w)
  BY <1>3, Zenon DEF P!Risk, PP!Risk
<1>5. ASSUME NEW v, NEW w
      PROVE  P!Before(rows, v, w) <=> PP!Before(rows, v, w)
  <2>1. P!Risk(rows, v) = PP!Risk(rows, v) /\ P!Risk(rows, w) = PP!Risk(rows, w)
    BY <1>4
  <2> QED
    BY <2>1, Zenon DEF P!Before, PP!Before
<1>6. ASSUME NEW S, NEW w
      PROVE  P!Position(rows, S, w) = PP!Position(rows, S, w)
  <2>1. {v \in S : P!Before(rows, v, w)} = {v \in S : PP!Before(rows, v, w)}
    BY <1>5
  <2> QED
    BY <1>2, <2>1, Zenon DEF P!Position, PP!Position
<1>7. ASSUME NEW S
      PROVE  P!Order(rows, S) = PP!Order(rows, S)
  <2>1. ASSUME NEW i
        PROVE  (CHOOSE w \in S : P!Position(rows, S, w) = i)
                 = CHOOSE w \in S : PP!Position(rows, S, w) = i
    BY <1>6
  <2>2. P!Cardinality(S) = PP!Cardinality(S)
    BY <1>2
  <2> QED
    BY <2>1, <2>2 DEF P!Order, PP!Order
<1>8. ASSUME NEW w
      PROVE  P!Step(rows, options, w) = PP!Step(rows, options, w)
  BY <1>4, Zenon DEF P!Step, PP!Step, P!WaitForKind, PP!WaitForKind
<1>9. P!Order(rows, P!Included(rows, options)) = PP!Order(rows, PP!Included(rows, options))
  BY <1>1, <1>7
<1> QED
  BY <1>1, <1>8, <1>9 DEF P!PlanSteps, PP!PlanSteps

\* Every document that was planned is the plan of the templates it was made of.
Derived ==
    /\ template \in [Workload -> Template]
    /\ \A p \in proposals :
         /\ p.doc \in Doc
         /\ \E scope \in SUBSET Workload : p.templates \in [scope -> Template]
         /\ \E options \in PlanOptions :
              Content[p.doc] = Written(P!PlanOf(RowsOf(p.templates), options, "now", {}))

\* Planning is by the ranking: the steps move each of the workloads once, with
\* the class asked for, and only those that may be moved.
LEMMA PlannedFits ==
    ASSUME Derived, NEW p \in proposals
    PROVE  LET c == Content[p.doc]
           IN  /\ \A i \in DOMAIN c.steps : /\ c.steps[i].target \in Workload
                                          /\ Fit(p, c.steps[i].target)
                                          /\ c.steps[i].class = c.options.class
               /\ \A i, j \in DOMAIN c.steps : c.steps[i].target = c.steps[j].target => i = j
<1>1. PICK options \in PlanOptions :
        Content[p.doc] = Written(P!PlanOf(RowsOf(p.templates), options, "now", {}))
  BY DEF Derived
<1>2. PICK scope \in SUBSET Workload : p.templates \in [scope -> Template]
  BY DEF Derived
<1> DEFINE rows == RowsOf(p.templates)
           c == Content[p.doc]
<1>3. /\ DOMAIN rows = scope \X {1}
      /\ \A r \in scope \X {1} : /\ r[1] \in scope /\ r = <<r[1], 1>>
                                /\ rows[r] = Verdict[p.templates[r[1]]]
  BY <1>2 DEF RowsOf
<1>4. PP!Report(rows, DOMAIN rows)
  <2>1. scope \X {1} \subseteq Nat \X Nat /\ IsFiniteSet(scope \X {1})
    <3>1. scope \subseteq Nat /\ IsFiniteSet(scope)
      BY MigrationAssumption, FS_Subset
    <3>2. IsFiniteSet({1})
      BY FS_Singleton
    <3>3. IsFiniteSet(scope \X {1})
      BY <3>1, <3>2, FS_Product
    <3>4. ASSUME NEW r \in scope \X {1} PROVE r \in Nat \X Nat
      <4>1. PICK w \in scope : r = <<w, 1>>
        OBVIOUS
      <4> QED
        BY <3>1, <4>1
    <3> QED
      BY <3>3, <3>4
  <2>2. \A r \in scope \X {1} : IsFiniteSet(DOMAIN rows[r].reasons)
    BY <1>2, <1>3, MigrationAssumption
  <2>3. \A S : IsFiniteSet(S) => PP!IsFiniteSet(S)
    BY DEF IsFiniteSet, PP!IsFiniteSet
  <2> QED
    BY <1>3, <2>1, <2>2, <2>3 DEF PP!Report
<1> HIDE DEF rows
<1>5. P!PlanSteps(rows, options) = PP!PlanSteps(rows, options)
      /\ PP!Included(rows, options) = P!Included(rows, options)
  BY SamePlanning
<1>6. c.steps = PP!PlanSteps(rows, options) /\ c.options = options
  BY <1>1, <1>5 DEF rows, Written, P!PlanOf
<1> HIDE DEF c
<1> DEFINE steps == PP!PlanSteps(rows, options)
           order == PP!Order(rows, PP!Included(rows, options))
           n == PP!Cardinality(PP!Included(rows, options))
<1>7. /\ n \in Nat /\ DOMAIN steps = 1..n
      /\ order \in [1..n -> PP!Included(rows, options)]
      /\ \A i \in 1..n : steps[i] = PP!Step(rows, options, order[i])
      /\ \A i, j \in 1..n : i < j <=> PP!Before(rows, order[i], order[j])
      /\ \A r \in PP!Included(rows, options) :
           /\ rows[r].compatibility \in {"compatible", "review"}
           /\ rows[r].compatibility = "review" => options.includeReview
  <2>1. PP!PlannerAssumption
    <3>1. IsFiniteSet(Workload) => PP!IsFiniteSet(Workload)
      BY DEF IsFiniteSet, PP!IsFiniteSet
    <3>2. P!Kinds = PP!Kinds
      BY DEF P!Kinds, PP!Kinds
    <3> QED
      BY <3>1, <3>2, MigrationAssumption DEF PP!PlannerAssumption
  <2>2. LET S == PP!Included(rows, options)
            m == PP!Cardinality(S)
            ranked == PP!Order(rows, S)
        IN  /\ m \in Nat
            /\ DOMAIN PP!PlanSteps(rows, options) = 1..m
            /\ ranked \in [1..m -> S]
            /\ \A r \in S : \E i \in 1..m : ranked[i] = r
            /\ \A i \in 1..m : PP!PlanSteps(rows, options)[i]
                                  = PP!Step(rows, options, ranked[i])
            /\ \A i, j \in 1..m : i < j <=> PP!Before(rows, ranked[i], ranked[j])
            /\ S \cup PP!Excluded(rows, options) = DOMAIN rows
            /\ S \cap PP!Excluded(rows, options) = {}
            /\ \A r \in S :
                 /\ rows[r].compatibility \in {"compatible", "review"}
                 /\ rows[r].compatibility = "review" => options.includeReview
                 /\ KindOf[r[1]] \notin {"Pod", "Job"}
    BY <1>4, <2>1, PP!PlanIsRanked, ZenonT(60)
  <2> QED
    BY <2>2, Zenon
<1>8. PP!Included(rows, options) \subseteq scope \X {1}
  BY <1>3 DEF PP!Included
<1> HIDE DEF steps, order, n
<1>9. ASSUME NEW i \in 1..n
       PROVE  /\ order[i] \in PP!Included(rows, options)
              /\ steps[i].target = order[i][1] /\ order[i] = <<steps[i].target, 1>>
              /\ steps[i].target \in scope /\ steps[i].class = options.class
  <2>1. order[i] \in PP!Included(rows, options) /\ order[i] \in scope \X {1}
    BY <1>7, <1>8
  <2>2. steps[i].target = order[i][1] /\ steps[i].class = options.class
    BY <1>7 DEF PP!Step
  <2> QED
    BY <1>3, <2>1, <2>2
<1>10. ASSUME NEW i \in 1..n
      PROVE  /\ steps[i].target \in Workload
             /\ Fit(p, steps[i].target)
             /\ steps[i].class = options.class
  <2>1. rows[order[i]] = Verdict[p.templates[steps[i].target]]
    BY <1>3, <1>8, <1>9
  <2>2. Fit(p, steps[i].target)
    BY <1>6, <1>7, <1>9, <2>1 DEF Fit, c
  <2> QED
    BY <1>9, <2>2
<1>11. ASSUME NEW i \in 1..n, NEW j \in 1..n, steps[i].target = steps[j].target
       PROVE  i = j
  <2>1. order[i] = order[j]
    BY <1>11, <1>9
  <2>2. (i < j <=> i < i) /\ (j < i <=> i < i)
    BY <1>7, <2>1
  <2> QED
    BY <1>7, <2>2
<1> QED
  BY <1>6, <1>7, <1>10, <1>11 DEF steps, c

\* Planning is of the templates of one moment.
LEMMA DerivedInit == MigrationInit => Derived
BY MigrationAssumption DEF MigrationInit, Derived

LEMMA DerivedStep == Derived /\ [MigrationNext]_migrationVars => Derived'
<1> SUFFICES ASSUME Derived, [MigrationNext]_migrationVars PROVE Derived'
  OBVIOUS
<1>1. CASE UNCHANGED <<template, proposals>>
  BY <1>1 DEF Derived
<1>2. CASE UNCHANGED migrationVars \/ UNCHANGED surroundings
  BY <1>1, <1>2 DEF migrationVars, surroundings
<1>3. ASSUME NEW r \in Run, Invocation(r) PROVE Derived'
  BY <1>1, <1>2, <1>3 DEF Invocation, Load, Blocked
<1>4. ASSUME NEW f \in File, NEW scope \in Scopes, NEW options \in PlanOptions,
             Propose(f, scope, options)
      PROVE  Derived'
  <2> DEFINE moment == [w \in scope |-> template[w]]
             rows == RowsOf(moment)
  <2>1. PICK d \in DocsOf(Written(P!PlanOf(rows, options, "now", {}))) :
          proposals' = proposals \cup {[doc |-> d, templates |-> moment]}
    BY <1>4 DEF Propose
  <2>2. template' = template
    BY <1>4 DEF Propose
  <2>3. scope \in SUBSET Workload /\ moment \in [scope -> Template]
    BY MigrationAssumption DEF Derived
  <2>5. d \in Doc /\ Content[d] = Written(P!PlanOf(RowsOf(moment), options, "now", {}))
    BY <2>1 DEF DocsOf
  <2> DEFINE new == [doc |-> d, templates |-> moment]
  <2>6. new.doc = d /\ new.templates = moment
    OBVIOUS
  <2> HIDE DEF moment, new
  <2>7. proposals' = proposals \cup {new}
    BY <2>1 DEF new
  <2> QED
    BY <2>2, <2>3, <2>5, <2>6, <2>7 DEF Derived
<1>5. CASE \E f \in File : Edit(f)
  BY <1>1, <1>5 DEF Edit
<1>6. ASSUME NEW w \in Workload, NEW t \in Template, Change(w, t) PROVE Derived'
  BY <1>6 DEF Change, Derived
<1> QED
  BY <1>2, <1>3, <1>4, <1>5, <1>6 DEF MigrationNext

-----------------------------------------------------------------------------
(* Nothing is moved against its verdict. *)

\* Who has a class got it from a patch, and the plan of that patch still says so.
Backs(r, i, w) ==
    /\ op[r] = "apply" /\ i \in patched[r] /\ i \in Index(plan[r])
    /\ Steps[plan[r]][i].target = w
    /\ Steps[plan[r]][i].class = class[w]
ClassBacked ==
    \A w \in Workload : class[w] # NoClass => \E r \in Run : \E i \in patched[r] : Backs(r, i, w)

\* Started, a run changes classes by its patches alone.
LEMMA ClassBackedKept ==
    ASSUME NEW r \in Run, TypeOK, ClassBacked, Start(r) \/ Proceed(r)
    PROVE  ClassBacked'
<1>1. UNCHANGED request /\ \A q \in Run : patched[q] \subseteq patched'[q]
  <2>1. [Next]_vars
    BY DEF Next
  <2> QED
    BY <2>1, PatchesKept
<1>2. ASSUME NEW w \in Workload, class'[w] # NoClass, class'[w] = class[w]
      PROVE  \E q \in Run : \E i \in patched'[q] : Backs(q, i, w)'
  <2>1. PICK q \in Run : \E i \in patched[q] : Backs(q, i, w)
    BY <1>2 DEF ClassBacked
  <2>2. PICK i \in patched[q] : Backs(q, i, w)
    BY <2>1
  <2>3. i \in patched'[q] /\ Backs(q, i, w)'
    BY <1>1, <1>2, <2>2 DEF Backs, request, Index
  <2> QED
    BY <2>3
<1>3. CASE UNCHANGED class
  BY <1>2, <1>3 DEF ClassBacked
<1>4. CASE Perform(r) /\ MustPatch(r)
  <2>0. PICK c, s : c = Cursor(r) /\ s = CurStep(r)
    OBVIOUS
  <2>1. c \in Index(plan[r]) /\ s = Steps[plan[r]][c]
    BY <1>4, <2>0, CursorInPlan DEF MustPatch, CurStep
  <2>2. class' = [class EXCEPT ![s.target] = PatchTo(r)]
    BY <1>4, <2>0 DEF Perform
  <2>3. patched' = [patched EXCEPT ![r] = @ \cup {c}]
    BY <1>4, <2>0 DEF Perform
  <2>4. c \in patched'[r]
    BY <2>3 DEF TypeOK, TrailTyped
  <2>5. class \in [Workload -> Class \cup {NoClass}]
    BY DEF TypeOK, ClusterTyped
  <2>6. ASSUME NEW w \in Workload, class'[w] # NoClass, class'[w] # class[w]
        PROVE  c \in patched'[r] /\ Backs(r, c, w)'
    <3>1. w = s.target /\ class'[w] = PatchTo(r)
      BY <2>2, <2>5, <2>6
    <3>2. op[r] = "apply" /\ class'[w] = s.class
      BY <2>0, <2>6, <3>1 DEF PatchTo
    <3> QED
      BY <1>1, <2>1, <2>4, <3>1, <3>2 DEF Backs, request, Index
  <2> QED
    BY <1>2, <2>6 DEF ClassBacked
<1>5. CASE SendPatch(r)
  BY <1>3, <1>4, <1>5 DEF SendPatch
<1>6. CASE Start(r) \/ (Proceed(r) /\ ~SendPatch(r))
  <2>1. UNCHANGED class
    BY <1>6 DEF Start, Proceed, BeginWalk, LocalStep, EmitEvent, Record, EndWalk, Finish,
       ReadFails, ReadNs, StampNs, cluster
  <2> QED
    BY <1>3, <2>1
<1> QED
  BY <1>5, <1>6

LEMMA ClassBackedStep ==
    MTyped /\ MInv /\ ClassBacked /\ [MigrationNext]_migrationVars => ClassBacked'
<1> SUFFICES ASSUME MTyped, MInv, ClassBacked, [MigrationNext]_migrationVars
             PROVE  ClassBacked'
  OBVIOUS
<1>1. CASE UNCHANGED <<class, op, plan, patched>>
  BY <1>1 DEF ClassBacked, Backs, Index
<1>2. ASSUME NEW r \in Run, Start(r) \/ Proceed(r) PROVE ClassBacked'
  BY <1>2, ClassBackedKept DEF MTyped
<1>3. ASSUME NEW r \in Run, NEW o \in Ops, NEW f \in File, NEW ask \in Asks,
             Load(r, o, f, ask)
      PROVE  ClassBacked'
  <2>1. UNCHANGED <<class, patched>> /\ patched[r] = {}
    BY <1>3 DEF Load, Fresh, MInv, Obedient, cluster
  <2>2. \A q \in Run \ {r} : op'[q] = op[q] /\ plan'[q] = plan[q]
    BY <1>3 DEF Load, MTyped, TypeOK, MemoryTyped
  <2> QED
    BY <2>1, <2>2 DEF ClassBacked, Backs, Index
<1>4. CASE \E r \in Run : Blocked(r)
  BY <1>1, <1>4 DEF Blocked, cluster, request
<1>5. CASE \/ \E f \in File, scope \in Scopes, options \in PlanOptions :
               Propose(f, scope, options)
           \/ \E f \in File : Edit(f)
           \/ \E w \in Workload, t \in Template : Change(w, t)
           \/ UNCHANGED migrationVars
  BY <1>1, <1>5 DEF Propose, Edit, Change, migrationVars, vars
<1> QED
  BY <1>2, <1>3, <1>4, <1>5 DEF MigrationNext, Invocation

FInv == MTyped /\ MInv /\ Derived /\ ClassBacked

LEMMA FInvAlways == MigrationSpec => []FInv
<1>1. MigrationInit => FInv
  <2>1. MigrationInit => ClassBacked
    BY DEF MigrationInit, Init, ClassBacked
  <2> QED
    BY <2>1, MTypedInit, MInvInit, DerivedInit DEF FInv
<1>2. FInv /\ [MigrationNext]_migrationVars => FInv'
  BY MTypedStep, MInvStep, DerivedStep, ClassBackedStep DEF FInv
<1> QED
  BY <1>1, <1>2, PTL DEF MigrationSpec

\* The invariant says that NoneForced: a class comes from a patch, the patch
\* from a loaded plan, a plan that claims a hash from the planner, and the
\* planner includes only what may be moved.
LEMMA FInvForces == FInv => NoneForced
<1> SUFFICES ASSUME FInv, NEW w \in Workload, class[w] # NoClass, ~ByHand(w)
             PROVE  \E p \in proposals :
                      /\ w \in Targets(p) /\ Fit(p, w)
                      /\ class[w] = Content[p.doc].options.class
  BY DEF NoneForced
<1>1. PICK r \in Run : \E i \in patched[r] : Backs(r, i, w)
  BY DEF FInv, ClassBacked
<1>2. PICK i \in patched[r] : Backs(r, i, w)
  BY <1>1
<1>3. Hash[plan[r]] # NoStamp
  BY <1>2 DEF ByHand, Backs
<1>4. plan[r] \in Plan /\ r \in loaded
  BY <1>2 DEF FInv, MTyped, TypeOK, MemoryTyped, MInv, Obedient
<1>5. PICK p \in proposals : plan[r] = p.doc
  BY <1>3, <1>4, DocumentAssumption DEF FInv, MInv, RunsPlanned
<1> DEFINE c == Content[p.doc]
<1>6. i \in DOMAIN Steps[plan[r]]
  BY <1>2, <1>4, InstanceAssumption DEF Backs, Index
<1>7. i \in DOMAIN c.steps /\ c.steps[i].target = w /\ c.steps[i].class = class[w]
  BY <1>2, <1>4, <1>5, <1>6, DocumentAssumption DEF Backs
<1>8. \A j \in DOMAIN c.steps : Fit(p, c.steps[j].target) /\ c.steps[j].class = c.options.class
  BY PlannedFits DEF FInv
<1>9. w \in Targets(p)
  BY <1>7 DEF Targets
<1> QED
  BY <1>7, <1>8, <1>9

\* Whatever is planned, edited, rolled out and run, and however many commands
\* overlap or fail: a workload has a class only where a scan saw a template of it
\* that may be moved, or a plan without a hash asked for it.
THEOREM NothingForced == MigrationSpec => []NoneForced
BY FInvAlways, FInvForces, PTL

-----------------------------------------------------------------------------
(* Stamps that tell the truth: one command at a time, and no call fails. *)

\* Namespace n runs the plan whose hash it carries.
Truth(n) == \A p \in Plan : stamp[n] = Hash[p] /\ Hash[p] # NoStamp => InForce(p, n)
\* What r does to the workloads of n, and where that has begun and has not
\* been stamped.
Patches(r, n) == ~dry[r] /\ ~Short(r, n) /\ ~Away(r, n)
Busy(r) == {n \in Held(r) : pc[r] # "read" /\ Patches(r, n)}
\* The class that the patch of step i leaves.
Goal(r, i) == IF op[r] = "apply" THEN Steps[plan[r]][i].class ELSE NoClass

\* An active run remembers each stamp as it is until it writes it; only another
\* plan's namespaces have lost their flag; the steps that it patched are as it
\* left them; and so is the step in flight, and the stamps already written.
FaithfulAt(r) ==
    /\ \A n \in Held(r) : stamp[n] = existing[r][n]
    /\ \A n \in Namespace : allSuccess[r][n] \/ Away(r, n)
    /\ (op[r] = "apply" => Hash[plan[r]] # NoStamp) =>
         \A i \in WalkedSteps(r) : Patches(r, NsAt(plan[r], i)) =>
            class[Steps[plan[r]][i].target] = Goal(r, i)
    /\ pc[r] \in {"event", "record"} =>
         answer[r] = "ok" /\ class[CurStep(r).target] = PatchTo(r)
    /\ pc[r] = "stamp" => \A n \in AffectedNamespaces(plan[r]) \ todo[r] :
         stamp[n] = IF Away(r, n) THEN existing[r][n] ELSE StampTo(r)
TruthInv ==
    /\ TurnInv /\ Whole
    /\ \A r \in Active : FaithfulAt(r)
    /\ \A n \in Namespace : (\A r \in Active : n \notin Busy(r)) => Truth(n)

\* A plan that can be applied: each step can be expressed, and a plan that
\* claims a hash moves each workload once.
Fits(p) ==
    /\ \A i \in Index(p) : Steps[p][i].supported /\ Steps[p][i].class # NoClass
    /\ Hash[p] # NoStamp =>
         \A i, j \in Index(p) : Steps[p][i].target = Steps[p][j].target => i = j

\* What is loaded fits, because it was planned.
LEMMA LoadedFits ==
    ASSUME FInv, NEW r \in loaded
    PROVE  Fits(plan[r])
<1>1. plan[r] \in Plan /\ r \in Run
  BY DEF FInv, MInv, Placed, MTyped, TypeOK, MemoryTyped
<1>2. Index(plan[r]) = DOMAIN Steps[plan[r]]
  BY <1>1, InstanceAssumption DEF Index
<1>3. ASSUME Hash[plan[r]] # NoStamp
      PROVE  \A i, j \in Index(plan[r]) :
               Steps[plan[r]][i].target = Steps[plan[r]][j].target => i = j
  <2>1. PICK p \in proposals : plan[r] = p.doc
    BY <1>1, <1>3, DocumentAssumption DEF FInv, MInv, RunsPlanned
  <2> DEFINE c == Content[p.doc]
  <2>2. \A i, j \in DOMAIN c.steps : c.steps[i].target = c.steps[j].target => i = j
    BY PlannedFits DEF FInv
  <2> QED
    BY <1>1, <1>2, <2>1, <2>2, DocumentAssumption
<1> QED
  BY <1>1, <1>2, <1>3, DocumentAssumption DEF Fits

\* Truth about n is about the classes of its workloads.
LEMMA TruthOfNamespace ==
    ASSUME NEW n \in Namespace, Truth(n), Whole, Whole', stamp'[n] = stamp[n],
           \A w \in Workload : NsOf[w] = n => class'[w] = class[w]
    PROVE  Truth(n)'
<1> SUFFICES ASSUME NEW p \in Plan, stamp'[n] = Hash[p], Hash[p] # NoStamp
             PROVE  InForce(p, n)'
  BY DEF Truth
<1>1. InForce(p, n)
  BY DEF Truth
<1>2. ASSUME NEW i \in StepsIn(p, n)
      PROVE  class'[Steps[p][i].target] = class[Steps[p][i].target]
             /\ Steps[p][i].target \in Workload
  <2>1. Steps[p] \in Seq(Step) /\ i \in 1 .. Len(Steps[p]) /\ NsOf[Steps[p][i].target] = n
    BY InstanceAssumption DEF StepsIn, Index, NsAt
  <2>2. Steps[p][i] \in Step
    BY <2>1
  <2> QED
    BY <2>1, <2>2 DEF Step
<1> QED
  BY <1>1, <1>2 DEF InForce, StepsIn, Index, NsAt, Whole

\* Whoever takes a step is alone, before it and after.
LEMMA OnlyOne ==
    ASSUME MaxActive = 1, NEW r \in Run, TurnInv, Start(r) \/ Proceed(r)
    PROVE  /\ Active' \subseteq {r}
           /\ Start(r) => Active = {}
           /\ Proceed(r) => Active = {r}
<1>1. Alone'
  BY AloneKept, MigrationAssumption DEF TurnInv
<1>2. \A q \in Run \ {r} : pc'[q] = pc[q]
  BY OthersStill DEF TurnInv, Still
<1>3. ASSUME Start(r) PROVE Active = {}
  <2>1. IsFiniteSet(Active) /\ Cardinality(Active) < 1
    BY <1>3, MigrationAssumption, FS_Subset DEF Active, Start
  <2> QED
    BY <2>1, FS_CardinalityType, FS_EmptySet
<1>4. ASSUME Proceed(r) PROVE Active = {r}
  <2>1. r \in Active
    BY <1>4 DEF Proceed, BeginWalk, LocalStep, SendPatch, MustPatch, EmitEvent, Record,
       EndWalk, Finish, ReadFails, ReadNs, StampNs, Active, Ended
  <2> QED
    BY <2>1 DEF TurnInv, Alone
<1>5. \A q \in Active' : q \in Active \/ q = r
  BY <1>2 DEF Active
<1> QED
  BY <1>3, <1>4, <1>5

\* Without faults a patch is performed, and its answer arrives.
LEMMA PatchSucceeds ==
    ASSUME MaxFaults = 0, NEW r \in Run, TurnInv, Whole, SendPatch(r)
    PROVE  Perform(r) /\ Answer(r, "ok")
<1>1. ~Fault
  BY DEF Fault, CanFault, TurnInv, TypeOK, TrailTyped
<1>2. CurStep(r).target \in live
  BY CursorInPlan DEF SendPatch, MustPatch, Whole, TurnInv, Step
<1> QED
  BY <1>1, <1>2 DEF SendPatch

\* What a run remembers and has done stays true of the cluster while it runs.
LEMMA FaithfulKept ==
    ASSUME MaxActive = 1, MaxFaults = 0, NEW r \in Run, TruthInv, Fits(plan[r]),
           Start(r) \/ Proceed(r), r \in Active'
    PROVE  FaithfulAt(r)'
<1> USE DEF cluster, durable, request
<1>1. /\ TurnInv /\ TypeOK /\ Whole /\ UNCHANGED <<op, plan, dry>>
      /\ plan[r] \in Plan /\ pc \in [Run -> PC] /\ todo \in [Run -> SUBSET Namespace]
      /\ class \in [Workload -> Class \cup {NoClass}]
      /\ stamp \in [Namespace -> Stamp \cup {NoStamp}]
      /\ existing \in [Run -> [Namespace -> Stamp \cup {NoStamp}]]
      /\ answer \in [Run -> {"none", "ok", "failed", "notfound"}]
      /\ AffectedNamespaces(plan[r]) \subseteq Namespace
      /\ RemembersAt(r)
      /\ \A i \in Index(plan[r]) : NsAt(plan[r], i) \in AffectedNamespaces(plan[r])
  BY OthersStill, NsInNamespace
     DEF TruthInv, TurnInv, TypeOK, MemoryTyped, ClusterTyped, AffectedNamespaces
<1>2. ~Fault
  BY <1>1 DEF Fault, CanFault, TypeOK, TrailTyped
<1>3. Proceed(r) => FaithfulAt(r)
  BY <1>1, OnlyOne DEF TruthInv
<1>a. UNCHANGED existing => \A n : /\ Away(r, n)' = Away(r, n)
                                   /\ Short(r, n)' = Short(r, n)
                                   /\ Patches(r, n)' = Patches(r, n)
  BY <1>1 DEF Away, Short, Patches
<1>b. \A i : Goal(r, i)' = Goal(r, i) /\ NsAt(plan'[r], i) = NsAt(plan[r], i)
  BY <1>1 DEF Goal
<1>c. UNCHANGED results => /\ WalkedSteps(r)' = WalkedSteps(r)
                           /\ Cursor(r)' = Cursor(r) /\ CurStep(r)' = CurStep(r)
                           /\ PatchTo(r)' = PatchTo(r) /\ CurNs(r)' = CurNs(r)
  BY <1>1 DEF WalkedSteps, Walked, Cursor, CurStep, PatchTo, CurNs
<1>4. CASE pc'[r] = "read"
  <2>1. pc[r] \in {"idle", "read"} /\ UNCHANGED <<stamp, class, results, allSuccess>>
    BY <1>1, <1>4 DEF Start, Proceed, BeginWalk, LocalStep, SendPatch, MustPatch, Answer, EmitEvent,
       Record, EndWalk, Finish, ReadFails, ReadNs, StampNs
  <2>2. results[r] = << >> /\ \A n \in Namespace : allSuccess'[r][n]
    BY <1>1, <2>1 DEF TurnInv, Untouched
  <2>3. WalkedSteps(r)' = {}
    BY <1>1, <1>c, <2>1, <2>2, NothingWalked
  <2>4. \A n \in Held(r)' : stamp'[n] = existing'[r][n]
    <3>1. CASE Start(r)
      <4>1. todo'[r] = AffectedNamespaces(plan[r])
        BY <1>1, <3>1 DEF Start
      <4> QED
        BY <1>1, <1>4, <4>1 DEF Held
    <3>2. ASSUME NEW n \in Namespace, ReadNs(r, n)
          PROVE  \A m \in Held(r)' : stamp'[m] = existing'[r][m]
      <4>1. /\ pc[r] = "read" /\ todo'[r] = todo[r] \ {n} /\ n \in todo[r]
            /\ existing'[r][n] = stamp[n]
            /\ \A m \in Namespace \ {n} : existing'[r][m] = existing[r][m]
        BY <1>1, <3>2 DEF ReadNs, IsNext, Whole
      <4>2. Held(r)' \subseteq Held(r) \cup {n} /\ Held(r)' \subseteq Namespace
        BY <1>1, <1>4, <4>1 DEF Held
      <4> QED
        BY <1>1, <1>3, <2>1, <3>2, <4>1, <4>2 DEF FaithfulAt, Proceed
    <3>3. Start(r) \/ \E n \in Namespace : ReadNs(r, n)
      BY <1>1, <1>4 DEF Proceed, BeginWalk, LocalStep, SendPatch, MustPatch, Answer, EmitEvent,
         Record, EndWalk, Finish, ReadFails, StampNs
    <3> QED
      BY <3>1, <3>2, <3>3
  <2> QED
    BY <1>4, <2>2, <2>3, <2>4 DEF FaithfulAt
<1>5. CASE BeginWalk(r) \/ EmitEvent(r) \/ EndWalk(r)
  <2>1. UNCHANGED <<stamp, class, existing, results, allSuccess, answer>> /\ Proceed(r)
    BY <1>5 DEF BeginWalk, EmitEvent, EndWalk, Proceed
  <2>2. pc'[r] \in {"walk", "record", "stamp"}
        /\ (pc'[r] = "record" => pc[r] = "event")
        /\ (pc'[r] = "stamp" => todo'[r] = AffectedNamespaces(plan[r]))
        /\ (pc[r] = "read" => todo[r] = {})
        /\ pc[r] \in {"read", "walk", "event"}
    BY <1>1, <1>5 DEF BeginWalk, EmitEvent, EndWalk, Active, Ended
  <2>3. Held(r)' = AffectedNamespaces(plan[r]) /\ Held(r) = AffectedNamespaces(plan[r])
    BY <1>1, <2>2 DEF Held
  <2> QED
    BY <1>1, <1>3, <1>a, <1>b, <1>c, <2>1, <2>2, <2>3 DEF FaithfulAt
<1>6. ASSUME NEW s \in Status, Report(r, s), More(r), Proceed(r),
             UNCHANGED <<stamp, class, existing>>,
             pc[r] \in {"walk", "record"}, pc'[r] = "walk",
             Spoil(r) \/ UNCHANGED allSuccess, Spoil(r) => Foreign(r),
             Patches(r, CurNs(r)) =>
                class[CurStep(r).target] = PatchTo(r)
      PROVE  FaithfulAt(r)'
  <2>1. PICK c : c = Cursor(r)
    OBVIOUS
  <2>2. WalkedSteps(r)' = WalkedSteps(r) \cup {c}
    BY <1>1, <1>6, <2>1, StepJoins DEF Report
  <2>3. c \in Index(plan[r]) /\ NsAt(plan[r], c) = CurNs(r) /\ CurNs(r) \in Namespace
        /\ CurStep(r) = Steps[plan[r]][c]
    BY <1>1, <1>6, <2>1, CursorInPlan DEF CurNs, CurStep, NsAt
  <2>4. Held(r)' = Held(r)
    BY <1>1, <1>6 DEF Held
  <2>5. PatchTo(r) = Goal(r, c)
    BY <2>3 DEF PatchTo, Goal
  <2>6. ASSUME NEW n \in Namespace PROVE allSuccess'[r][n] \/ Away(r, n)'
    <3>1. allSuccess[r][n] \/ Away(r, n)
      BY <1>3, <1>6 DEF FaithfulAt
    <3>2. CASE UNCHANGED allSuccess \/ n # CurNs(r)
      BY <1>1, <1>6, <1>a, <3>1, <3>2, FlagsFall
    <3>3. CASE Spoil(r) /\ n = CurNs(r)
      BY <1>6, <1>a, <3>3, ByNamespace
    <3> QED
      BY <1>6, <3>2, <3>3
  <2>7. ASSUME (op[r] = "apply" => Hash[plan[r]] # NoStamp),
               NEW i \in WalkedSteps(r)', Patches(r, NsAt(plan[r], i))
        PROVE  class[Steps[plan[r]][i].target] = Goal(r, i)
    BY <1>3, <1>6, <2>2, <2>3, <2>5, <2>7 DEF FaithfulAt
  <2>8. \A n \in Held(r)' : stamp'[n] = existing'[r][n]
    BY <1>3, <1>6, <2>4 DEF FaithfulAt
  <2> QED
    BY <1>1, <1>6, <1>a, <1>b, <2>6, <2>7, <2>8 DEF FaithfulAt
<1>7. CASE LocalStep(r)
  <2>1. CurStep(r) = Steps[plan[r]][Cursor(r)] /\ Cursor(r) \in Index(plan[r])
    BY <1>1, <1>7, CursorInPlan DEF LocalStep, CurStep
  <2>2. Builds(r)
    BY <2>1 DEF Builds, Fits
  <2>3. ~Patches(r, CurNs(r)) /\ (Spoil(r) => Foreign(r) \/ UNCHANGED allSuccess)
    BY <1>7, <2>2, ByNamespace DEF LocalStep, Patches
  <2>4. PICK s \in Status : Report(r, s)
    BY <1>7 DEF LocalStep, Status
  <2>5. /\ More(r) /\ UNCHANGED <<stamp, class, existing>>
        /\ pc[r] = "walk" /\ pc'[r] = "walk" /\ Proceed(r)
        /\ \/ UNCHANGED allSuccess
           \/ Spoil(r) /\ Foreign(r)
    BY <1>7, <2>2 DEF LocalStep, Proceed
  <2>6. CASE Foreign(r)
    BY <1>6, <2>3, <2>4, <2>5, <2>6
  <2>7. CASE ~Foreign(r)
    <3>1. UNCHANGED allSuccess
      BY <2>5, <2>7
    <3>2. CurNs(r) \in Namespace /\ allSuccess \in [Run -> [Namespace -> BOOLEAN]]
      BY <1>1, <2>5, CursorInPlan DEF TypeOK, MemoryTyped
    <3>3. allSuccess[r][CurNs(r)] = TRUE
      BY <1>3, <2>5, <2>7, <3>2, ByNamespace DEF FaithfulAt
    <3>4. ~Spoil(r)
      BY <3>1, <3>2, <3>3 DEF Spoil
    <3> QED
      BY <1>6, <2>3, <2>4, <2>5, <3>4
  <2> QED
    BY <2>6, <2>7
<1>8. CASE SendPatch(r)
  <2>1. Perform(r) /\ Answer(r, "ok") /\ MustPatch(r) /\ Proceed(r)
        /\ UNCHANGED <<stamp, todo, existing, allSuccess, results>>
    BY <1>1, <1>8, PatchSucceeds DEF SendPatch, Proceed
  <2>2. PICK t \in Workload, c \in Index(plan[r]) :
          c = Cursor(r) /\ t = CurStep(r).target /\ t = Steps[plan[r]][c].target
    BY <1>1, <2>1, CursorInPlan DEF MustPatch, CurStep, Step
  <2>3. class' = [class EXCEPT ![t] = PatchTo(r)]
    BY <2>1, <2>2 DEF Perform
  <2>4. pc'[r] = "event" /\ answer'[r] = "ok" /\ pc[r] = "walk"
    BY <1>1, <2>1 DEF Answer, MustPatch
  <2>5. Held(r)' = Held(r)
    BY <1>1, <2>4 DEF Held
  <2>7. PatchTo(r) = Goal(r, c)
    BY <2>2 DEF PatchTo, Goal, CurStep
  <2>8. ASSUME (op[r] = "apply" => Hash[plan[r]] # NoStamp),
               NEW i \in WalkedSteps(r), Patches(r, NsAt(plan[r], i))
        PROVE  class'[Steps[plan[r]][i].target] = Goal(r, i)
    <3>1. class[Steps[plan[r]][i].target] = Goal(r, i)
      BY <1>3, <2>1, <2>8 DEF FaithfulAt
    <3>2. CASE Steps[plan[r]][i].target # t
      <4>1. Steps[plan[r]][i].target \in Workload
        <5>1. Steps[plan[r]] \in Seq(Step) /\ i \in 1 .. Len(Steps[plan[r]])
          BY <1>1, InstanceAssumption DEF WalkedSteps, Index
        <5>2. Steps[plan[r]][i] \in Step
          BY <5>1
        <5> QED
          BY <5>2 DEF Step
      <4> QED
        BY <1>1, <2>3, <3>1, <3>2, <4>1
    <3>3. CASE Steps[plan[r]][i].target = t /\ op[r] = "apply"
      <4>1. i = c
        BY <2>2, <2>8, <3>3 DEF Fits, WalkedSteps
      <4> QED
        BY <1>1, <2>3, <2>7, <3>3, <4>1
    <3>4. CASE Steps[plan[r]][i].target = t /\ op[r] # "apply"
      BY <1>1, <2>3, <3>4 DEF PatchTo, Goal
    <3> QED
      BY <3>2, <3>3, <3>4
  <2>9. class'[t] = PatchTo(r)
    BY <1>1, <2>3
  <2>10. class'[CurStep(r)'.target] = PatchTo(r)'
    BY <1>c, <2>1, <2>2, <2>9
  <2> QED
    BY <1>1, <1>3, <1>a, <1>b, <1>c, <2>1, <2>4, <2>5, <2>8, <2>10 DEF FaithfulAt
<1>9. CASE Record(r)
  <2>1. Proceed(r) /\ pc[r] = "record" /\ More(r)
    BY <1>1, <1>9 DEF Proceed, Record, TypeOK, WalkTyped
  <2>2. answer[r] = "ok" /\ class[CurStep(r).target] = PatchTo(r)
    BY <1>3, <2>1 DEF FaithfulAt
  <2>3. StatusOf(r) = "applied"
    BY <2>2 DEF StatusOf
  <2>4. Report(r, "applied") /\ UNCHANGED <<allSuccess, stamp, class, existing>> /\ pc'[r] = "walk"
    BY <1>1, <1>9, <2>3 DEF Record
  <2>5. ~Spoil(r)
    <3>1. ~Foreign(r)
      BY <1>1, <2>1 DEF TurnInv, SendsAt
    <3>2. CurNs(r) \in Namespace /\ allSuccess \in [Run -> [Namespace -> BOOLEAN]]
      BY <1>1, <2>1, CursorInPlan DEF TypeOK, MemoryTyped
    <3>3. allSuccess[r][CurNs(r)] = TRUE
      BY <1>3, <2>1, <3>1, <3>2, ByNamespace DEF FaithfulAt
    <3> QED
      BY <2>4, <3>2, <3>3 DEF Spoil
  <2> QED
    BY <1>6, <2>1, <2>2, <2>4, <2>5 DEF Status
<1>10. ASSUME NEW n \in Namespace, StampNs(r, n) PROVE FaithfulAt(r)'
  <2>1. /\ pc[r] = "stamp" /\ pc'[r] = "stamp" /\ n \in todo[r]
        /\ todo'[r] = todo[r] \ {n} /\ ~More(r) /\ ~dry[r]
        /\ UNCHANGED <<class, existing, allSuccess, results, answer>>
        /\ Proceed(r) /\ n \in liveNs
    BY <1>1, <1>10 DEF StampNs, IsNext, Proceed, TurnInv, StampsLast, Whole
  <2>2. Held(r) = todo[r] /\ Held(r)' = todo[r] \ {n}
    BY <1>1, <2>1 DEF Held
  <2>3. \A m \in Namespace \ {n} : stamp'[m] = stamp[m]
    BY <1>1, <1>10 DEF StampNs
  <2>4. stamp[n] = existing[r][n]
    BY <1>3, <2>1, <2>2 DEF FaithfulAt
  <2>5. stamp'[n] = IF Away(r, n) THEN existing[r][n] ELSE StampTo(r)
    <3>1. CASE Away(r, n)
      <4>1. PICK i \in Index(plan[r]) : NsAt(plan[r], i) = n
        BY <1>1, <2>1 DEF RemembersAt, AffectedNamespaces
      <4>2. ~allSuccess[r][n]
        BY <1>1, <2>1, <3>1, <4>1, AllWalked DEF TurnInv, SparesAt
      <4> QED
        BY <1>10, <2>4, <3>1, <4>2 DEF StampNs
    <3>2. CASE ~Away(r, n)
      <4>1. allSuccess[r][n]
        BY <1>3, <2>1, <3>2 DEF FaithfulAt
      <4> QED
        BY <1>1, <1>2, <1>10, <2>1, <3>2, <4>1 DEF StampNs
    <3> QED
      BY <3>1, <3>2
  <2>6. StampTo(r)' = StampTo(r)
    BY <1>1 DEF StampTo
  <2>7. ASSUME NEW m \in AffectedNamespaces(plan[r]) \ todo'[r]
        PROVE  stamp'[m] = IF Away(r, m) THEN existing[r][m] ELSE StampTo(r)
    BY <1>1, <1>3, <2>1, <2>3, <2>5 DEF FaithfulAt
  <2> QED
    BY <1>1, <1>3, <1>a, <1>b, <1>c, <2>1, <2>2, <2>3, <2>6, <2>7 DEF FaithfulAt
<1>11. CASE ReadFails(r) \/ Finish(r)
  BY <1>1, <1>2, <1>11 DEF ReadFails, Finish, Active, Ended
<1>12. CASE Start(r) \/ \E n \in Namespace : ReadNs(r, n)
  <2>1. pc'[r] = "read"
    BY <1>1, <1>12 DEF Start, ReadNs
  <2> QED
    BY <1>4, <2>1
<1> QED
  BY <1>5, <1>7, <1>8, <1>9, <1>10, <1>11, <1>12 DEF Proceed

\* A namespace where nothing is in progress keeps its truth; the stamp that is
\* written over one where it was is true again.
LEMMA TruthKept ==
    ASSUME MaxActive = 1, MaxFaults = 0, NEW r \in Run, TruthInv, Fits(plan[r]),
           Start(r) \/ Proceed(r), NEW n \in Namespace, r \in Active' => n \notin Busy(r)'
    PROVE  Truth(n)'
<1> USE DEF cluster, durable, request
<1>1. /\ TurnInv /\ TypeOK /\ Whole /\ Whole' /\ UNCHANGED <<op, plan, dry>>
      /\ plan[r] \in Plan /\ pc \in [Run -> PC] /\ todo \in [Run -> SUBSET Namespace]
      /\ class \in [Workload -> Class \cup {NoClass}]
      /\ stamp \in [Namespace -> Stamp \cup {NoStamp}]
      /\ AffectedNamespaces(plan[r]) \subseteq Namespace
      /\ RemembersAt(r)
  BY OthersStill, NsInNamespace, WholeKept DEF TruthInv, TurnInv, TypeOK, MemoryTyped, ClusterTyped
<1>2. ASSUME n \notin Busy(r) \/ ~Proceed(r)
      PROVE  Truth(n)
  BY <1>1, <1>2, OnlyOne DEF TruthInv
<1>a. UNCHANGED existing => Patches(r, n)' = Patches(r, n)
  BY <1>1 DEF Away, Short, Patches
<1>3. ASSUME UNCHANGED <<stamp, class>>, n \notin Busy(r) \/ ~Proceed(r)
      PROVE  Truth(n)'
  BY <1>1, <1>2, <1>3, TruthOfNamespace
<1>4. CASE Start(r)
  <2>1. ~Proceed(r)
    BY <1>4 DEF Start, Proceed, BeginWalk, LocalStep, SendPatch, MustPatch, EmitEvent, Record,
       EndWalk, Finish, ReadFails, ReadNs, StampNs
  <2> QED
    BY <1>3, <1>4, <2>1 DEF Start
<1>5. CASE ReadFails(r) \/ BeginWalk(r) \/ \E m \in Namespace : ReadNs(r, m)
  <2>1. UNCHANGED <<stamp, class>> /\ pc[r] = "read"
    BY <1>5 DEF ReadFails, BeginWalk, ReadNs
  <2> QED
    BY <1>3, <2>1 DEF Busy
<1>6. CASE LocalStep(r) \/ EmitEvent(r) \/ Record(r) \/ EndWalk(r)
  <2>1. UNCHANGED <<stamp, class, existing>> /\ pc[r] \in {"walk", "event", "record"}
    BY <1>6 DEF LocalStep, EmitEvent, Record, EndWalk
  <2>2. CASE pc'[r] \in {"walk", "event", "record"}
    <3>1. Held(r)' = Held(r) /\ r \in Active'
      BY <1>1, <2>1, <2>2 DEF Held, Active, Ended
    <3> QED
      BY <1>3, <1>a, <2>1, <2>2, <3>1 DEF Busy
  <2>3. CASE pc'[r] = "stamp" /\ todo'[r] = AffectedNamespaces(plan[r])
    <3>1. Held(r)' = Held(r) /\ r \in Active'
      BY <1>1, <2>1, <2>3 DEF Held, Active, Ended
    <3> QED
      BY <1>3, <1>a, <2>1, <2>3, <3>1 DEF Busy
  <2>4. CASE dry[r]
    BY <1>3, <2>1, <2>4 DEF Busy, Patches
  <2> QED
    BY <1>1, <1>6, <2>2, <2>3, <2>4 DEF LocalStep, EmitEvent, Record, EndWalk
<1>7. CASE SendPatch(r)
  <2>1. Perform(r) /\ Answer(r, "ok") /\ MustPatch(r) /\ UNCHANGED <<stamp, todo, existing>>
    BY <1>1, <1>7, PatchSucceeds DEF SendPatch
  <2>2. PICK t \in Workload, c \in Index(plan[r]) :
          t = CurStep(r).target /\ NsOf[t] = CurNs(r) /\ NsAt(plan[r], c) = NsOf[t]
    BY <1>1, <2>1, CursorInPlan DEF MustPatch, CurStep, Step, CurNs, NsAt
  <2>3. pc[r] = "walk" /\ pc'[r] = "event"
    BY <1>1, <2>1 DEF MustPatch, Answer
  <2>4. NsOf[t] \in Held(r)
    BY <2>2, <2>3 DEF Held, AffectedNamespaces
  <2>5. Patches(r, NsOf[t])
    BY <2>1, <2>2, ByNamespace DEF MustPatch, Patches
  <2>6. Held(r)' = Held(r) /\ r \in Active'
    BY <1>1, <2>3 DEF Held, Active, Ended
  <2>7. n \notin Busy(r)
    BY <1>a, <2>1, <2>3, <2>6 DEF Busy
  <2>8. n # NsOf[t]
    BY <2>3, <2>4, <2>5, <2>7 DEF Busy
  <2>9. class' = [class EXCEPT ![t] = PatchTo(r)]
    BY <2>1, <2>2 DEF Perform
  <2>10. \A w \in Workload : NsOf[w] = n => class'[w] = class[w]
    BY <1>1, <2>8, <2>9
  <2> QED
    BY <1>1, <1>2, <2>1, <2>7, <2>10, TruthOfNamespace
<1>8. CASE Finish(r)
  <2>1. UNCHANGED <<stamp, class>> /\ Busy(r) = {}
    BY <1>8 DEF Finish, Busy, Held
  <2> QED
    BY <1>3, <2>1
<1>9. ASSUME NEW m \in Namespace, StampNs(r, m) PROVE Truth(n)'
  <2>1. /\ pc[r] = "stamp" /\ pc'[r] = "stamp" /\ m \in todo[r]
        /\ todo'[r] = todo[r] \ {m} /\ ~More(r) /\ ~dry[r]
        /\ UNCHANGED <<class, existing>>
        /\ Proceed(r) /\ m \in AffectedNamespaces(plan[r])
    BY <1>1, <1>9 DEF StampNs, IsNext, Proceed, TurnInv, StampsLast, RemembersAt
  <2>2. Held(r) = todo[r] /\ Held(r)' = todo[r] \ {m} /\ r \in Active'
    BY <1>1, <2>1 DEF Held, Active, Ended
  <2>3. CASE n # m
    <3>1. stamp'[n] = stamp[n] /\ n \notin Busy(r)
      BY <1>1, <1>9, <1>a, <2>1, <2>2, <2>3 DEF StampNs, Busy
    <3> QED
      BY <1>1, <1>2, <2>1, <3>1, TruthOfNamespace
  <2>4. CASE n = m
    <3>1. FaithfulAt(r)' /\ FaithfulAt(r)
      BY <1>1, <2>1, <2>2, FaithfulKept, OnlyOne DEF TruthInv
    <3>2. stamp'[n] = IF Away(r, n) THEN existing[r][n] ELSE StampTo(r)
      <4>1. Away(r, n)' = Away(r, n) /\ StampTo(r)' = StampTo(r)
        BY <1>1, <2>1 DEF Away, StampTo
      <4>2. n \in AffectedNamespaces(plan'[r]) \ todo'[r]
        BY <1>1, <2>1, <2>4
      <4> QED
        BY <1>1, <2>1, <3>1, <4>1, <4>2 DEF FaithfulAt
    <3>3. stamp[n] = existing[r][n]
      BY <2>1, <2>2, <2>4, <3>1 DEF FaithfulAt
    <3>4. CASE Away(r, n) \/ (Short(r, n) /\ stamp'[n] = stamp[n])
      <4>1. n \notin Busy(r) /\ stamp'[n] = stamp[n]
        BY <3>2, <3>3, <3>4 DEF Busy, Patches
      <4> QED
        BY <1>1, <1>2, <2>1, <4>1, TruthOfNamespace
    <3>5. CASE stamp'[n] = NoStamp
      BY <3>5 DEF Truth
    <3>6. CASE /\ ~Away(r, n) /\ ~Short(r, n) /\ op[r] = "apply"
               /\ stamp'[n] = Hash[plan[r]] /\ Hash[plan[r]] # NoStamp
      <4>1. \A i \in StepsIn(plan[r], n) :
              class[Steps[plan[r]][i].target] = Steps[plan[r]][i].class
        BY <1>1, <2>1, <3>1, <3>6, AllWalked DEF FaithfulAt, StepsIn, Patches, Goal
      <4>2. InForce(plan[r], n)'
        BY <1>1, <2>1, <4>1 DEF InForce, StepsIn, Index, NsAt
      <4>3. ASSUME NEW p \in Plan, stamp'[n] = Hash[p] PROVE p = plan[r]
        BY <1>1, <3>6, <4>3, HashAssumption
      <4> QED
        BY <1>1, <4>2, <4>3 DEF Truth
    <3>7. Short(r, n) => (stamp'[n] = stamp[n] \/ stamp'[n] = NoStamp)
      BY <3>2, <3>3 DEF Short, StampTo, Away
    <3> QED
      BY <3>2, <3>4, <3>5, <3>6, <3>7 DEF StampTo
  <2> QED
    BY <2>3, <2>4
<1> QED
  BY <1>4, <1>5, <1>6, <1>7, <1>8, <1>9 DEF Proceed

\* A command that takes its turn keeps the invariant.
LEMMA TruthInvKept ==
    ASSUME MaxActive = 1, MaxFaults = 0, NEW r \in Run, TruthInv, Fits(plan[r]),
           Start(r) \/ Proceed(r)
    PROVE  TruthInv'
<1>1. TurnInv' /\ Whole'
  BY TurnInvKept, WholeKept, MigrationAssumption DEF TruthInv
<1>2. Active' \subseteq {r}
  BY OnlyOne DEF TruthInv
<1>3. \A q \in Active' : FaithfulAt(q)'
  BY <1>2, FaithfulKept
<1>4. \A n \in Namespace : (\A q \in Active' : n \notin Busy(q)') => Truth(n)'
  BY TruthKept
<1> QED
  BY <1>1, <1>3, <1>4 DEF TruthInv

\* Nothing else of the cycle touches the cluster or an active run.
LEMMA TruthUndisturbed ==
    ASSUME NEW r \in Run, TruthInv, MTyped', pc[r] = "idle", pc'[r] \in {"idle", "error"},
           UNCHANGED <<cluster, results, allSuccess>>,
           \A q \in Run \ {r} : Still(q)
    PROVE  TruthInv'
<1> USE DEF cluster
<1>1. TypeOK /\ TypeOK' /\ Whole' /\ Untouched'
  BY DEF TruthInv, TurnInv, MTyped
<1>2. Active' = Active /\ r \notin Active /\ \A q \in Active : Still(q)
  BY DEF Active, Ended, Still
<1>3. RemembersAt(r)' /\ SparesAt(r)' /\ SendsAt(r)'
  <2>1. Held(r)' = {}
    BY DEF Held
  <2>2. results'[r] = << >>
    BY DEF TruthInv, TurnInv, Untouched
  <2>3. WalkedSteps(r)' = {}
    <3>1. Len(results'[r]) = 0 /\ Len(Steps[plan'[r]]) \in Nat
      BY <1>1, <2>2, InstanceAssumption DEF TypeOK, MemoryTyped
    <3> QED
      BY <3>1 DEF WalkedSteps, Walked, Index
  <2> QED
    BY <2>1, <2>3 DEF RemembersAt, SparesAt, SendsAt
<1>4. ASSUME NEW q \in Run \ {r}
      PROVE  RemembersAt(q)' /\ SparesAt(q)' /\ SendsAt(q)'
  <2>1. RemembersAt(q)'
    BY RemembersStill DEF TruthInv, TurnInv
  <2> QED
    BY <2>1, StillSame DEF TruthInv, TurnInv, SparesAt, SendsAt, Still
<1>5. StampsLast' /\ Alone' /\ GoneUnstamped'
  <2>1. \A q \in Run \ {r} : More(q)' = More(q) /\ pc'[q] = pc[q] /\ dry'[q] = dry[q]
    BY DEF More, Walked, Still
  <2> QED
    BY <1>2, <2>1 DEF TruthInv, TurnInv, StampsLast, Alone, GoneUnstamped
<1>6. ASSUME NEW q \in Active PROVE FaithfulAt(q)' /\ Busy(q)' = Busy(q)
  <2>1. q \in Run /\ Still(q) /\ FaithfulAt(q)
    BY <1>2 DEF TruthInv, Active
  <2>2. \A n : Patches(q, n)' = Patches(q, n)
    BY <2>1, StillSame DEF Patches, Still
  <2>3. PatchTo(q)' = PatchTo(q) /\ StampTo(q)' = StampTo(q) /\ \A i : Goal(q, i)' = Goal(q, i)
    BY <2>1, StillSame DEF PatchTo, StampTo, Goal, Still
  <2>4. Busy(q)' = Busy(q)
    BY <2>1, <2>2, StillSame DEF Busy, Still
  <2>5. FaithfulAt(q)'
    BY <2>1, <2>2, <2>3, StillSame DEF FaithfulAt, Still, NsAt
  <2> QED
    BY <2>4, <2>5
<1>7. \A n \in Namespace : Truth(n)' = Truth(n)
  BY DEF Truth, InForce
<1>8. TurnInv'
  BY <1>1, <1>3, <1>4, <1>5 DEF TurnInv
<1>9. \A q \in Active' : FaithfulAt(q)'
  BY <1>2, <1>6
<1>10. \A n \in Namespace : (\A q \in Active' : n \notin Busy(q)') => Truth(n)'
  BY <1>2, <1>6, <1>7 DEF TruthInv
<1> QED
  BY <1>1, <1>8, <1>9, <1>10 DEF TruthInv

\* Stamps are true through every step of the cycle.
LEMMA TruthInvStep ==
    ASSUME MaxActive = 1, MaxFaults = 0, FInv, FInv', TruthInv, [MigrationNext]_migrationVars
    PROVE  TruthInv'
<1>1. ASSUME NEW r \in Run, Start(r) \/ Proceed(r), r \in loaded
      PROVE  TruthInv'
  BY <1>1, LoadedFits, TruthInvKept
<1>2. ASSUME NEW r \in Run, Proceed(r) PROVE r \in loaded
  BY <1>2, ProceedKeeps DEF FInv, MInv, Obedient
<1>3. ASSUME NEW r \in Run, NEW o \in Ops, NEW f \in File, NEW ask \in Asks,
             Load(r, o, f, ask)
      PROVE  TruthInv'
  <2>1. /\ pc[r] = "idle" /\ pc'[r] \in {"idle", "error"}
        /\ UNCHANGED <<cluster, results, allSuccess>>
    BY <1>3 DEF Load, Fresh, FInv, MTyped, TypeOK, MemoryTyped
  <2>2. \A q \in Run \ {r} : Still(q)
    BY <1>3 DEF Load, Still, FInv, MTyped, TypeOK, MemoryTyped
  <2> QED
    BY <2>1, <2>2, TruthUndisturbed DEF FInv
<1>4. ASSUME NEW r \in Run, Blocked(r) PROVE TruthInv'
  <2>1. /\ pc[r] = "idle" /\ pc'[r] \in {"idle", "error"}
        /\ UNCHANGED <<cluster, results, allSuccess>>
    BY <1>4 DEF Blocked, Pending, FInv, MTyped, TypeOK, MemoryTyped
  <2>2. \A q \in Run \ {r} : Still(q)
    BY <1>4 DEF Blocked, Still, request, FInv, MTyped, TypeOK, MemoryTyped
  <2> QED
    BY <2>1, <2>2, TruthUndisturbed DEF FInv
<1>5. ASSUME UNCHANGED vars PROVE TruthInv'
  <2>1. TurnInv'
    BY <1>5, TurnInvUndisturbed DEF TruthInv
  <2>2. \A q \in Run : Still(q)
    BY <1>5 DEF vars, Still
  <2>3. ASSUME NEW q \in Active PROVE FaithfulAt(q)' /\ Busy(q)' = Busy(q)
    <3>1. q \in Run /\ Still(q) /\ FaithfulAt(q) /\ UNCHANGED <<stamp, class>>
      BY <1>5, <2>2 DEF TruthInv, Active, vars
    <3>2. \A n : Patches(q, n)' = Patches(q, n)
      BY <3>1, StillSame DEF Patches, Still
    <3>3. PatchTo(q)' = PatchTo(q) /\ StampTo(q)' = StampTo(q) /\ \A i : Goal(q, i)' = Goal(q, i)
      BY <3>1, StillSame DEF PatchTo, StampTo, Goal, Still
    <3>4. Busy(q)' = Busy(q)
      BY <3>1, <3>2, StillSame DEF Busy, Still
    <3>5. FaithfulAt(q)'
      BY <3>1, <3>2, <3>3, StillSame DEF FaithfulAt, Still, NsAt
    <3> QED
      BY <3>4, <3>5
  <2>4. Active' = Active /\ Whole' /\ \A n \in Namespace : Truth(n)' = Truth(n)
    BY <1>5 DEF vars, Active, Truth, InForce, TruthInv, Whole
  <2> QED
    BY <2>1, <2>3, <2>4 DEF TruthInv
<1>6. CASE \/ \E f \in File, scope \in Scopes, options \in PlanOptions :
               Propose(f, scope, options)
           \/ \E f \in File : Edit(f)
           \/ \E w \in Workload, t \in Template : Change(w, t)
           \/ UNCHANGED migrationVars
  BY <1>5, <1>6 DEF Propose, Edit, Change, migrationVars
<1> QED
  BY <1>1, <1>2, <1>3, <1>4, <1>6 DEF MigrationNext, Invocation

LEMMA TruthInvInit == MigrationInit => TruthInv
<1> SUFFICES ASSUME MigrationInit PROVE TruthInv
  OBVIOUS
<1>1. Init /\ TurnInv
  BY InitTurnInv DEF MigrationInit
<1>2. Active = {} /\ Whole
  BY <1>1 DEF Init, Active, Whole
<1>3. \A n \in Namespace : Truth(n)
  BY <1>1 DEF Init, Truth
<1> QED
  BY <1>1, <1>2, <1>3 DEF TruthInv

\* What a rollback that ends has found and left: TruthInv says all of it.
LEMMA RollbackEnds ==
    ASSUME TruthInv, NEW r \in Run, Proceed(r), op[r] = "rollback", ~dry[r],
           Hash[plan[r]] # NoStamp, pc'[r] = "done", TurnInv',
           NEW n \in AffectedNamespaces(plan[r])
    PROVE  /\ existing[r][n] = Hash[plan[r]] =>
                /\ \A i \in StepsIn(plan[r], n) : class[Steps[plan[r]][i].target] = NoClass
                /\ stamp[n] = NoStamp
           /\ existing[r][n] \notin {NoStamp, Hash[plan[r]]} =>
                /\ stamp[n] = existing[r][n]
                /\ Truth(n)
<1>1. /\ TypeOK /\ pc[r] = "stamp" /\ todo[r] = {} /\ r \in Active /\ ~More(r)
      /\ n \in Namespace
  <2>1. TypeOK /\ n \in Namespace /\ pc \in [Run -> PC]
    BY NsInNamespace DEF TruthInv, TurnInv, TypeOK, MemoryTyped
  <2>2. Finish(r)
    BY <2>1 DEF Proceed, BeginWalk, LocalStep, SendPatch, MustPatch, Answer, EmitEvent, Record,
       EndWalk, ReadFails, ReadNs, StampNs
  <2> QED
    BY <2>1, <2>2 DEF Finish, Active, Ended, TruthInv, TurnInv, StampsLast
<1>2. FaithfulAt(r) /\ Held(r) = {}
  BY <1>1 DEF TruthInv, Held
<1>3. stamp[n] = IF Away(r, n) THEN existing[r][n] ELSE NoStamp
  BY <1>1, <1>2 DEF FaithfulAt, StampTo
<1>4. ASSUME existing[r][n] = Hash[plan[r]], NEW i \in StepsIn(plan[r], n)
      PROVE  class[Steps[plan[r]][i].target] = NoClass
  <2>1. i \in WalkedSteps(r) /\ NsAt(plan[r], i) = n
    BY <1>1, AllWalked DEF StepsIn
  <2>2. Patches(r, n)
    BY <1>4 DEF Patches, Short, Away
  <2> QED
    BY <1>2, <2>1, <2>2 DEF FaithfulAt, Goal
<1>5. Truth(n)
  BY <1>1, <1>2 DEF TruthInv, TurnInv, Alone, Busy
<1> QED
  BY <1>3, <1>4, <1>5 DEF Away

LEMMA TruthInvAlways ==
    ASSUME MaxActive = 1, MaxFaults = 0
    PROVE  MigrationSpec => []TruthInv
<1>1. FInv /\ FInv' /\ TruthInv /\ [MigrationNext]_migrationVars => TruthInv'
  BY TruthInvStep
<1> QED
  BY <1>1, TruthInvInit, FInvAlways, PTL DEF MigrationSpec

\* Whatever is planned, edited, rolled out and run by operators who take turns:
\* while no command runs and if no call failed, a namespace that carries a
\* plan's hash runs that plan.
THEOREM StampsTellTheTruth ==
    ASSUME MaxActive = 1, MaxFaults = 0
    PROVE  MigrationSpec => []StampTruth
<1>1. TruthInv => StampTruth
  BY DEF TruthInv, StampTruth, Truth
<1> QED
  BY <1>1, TruthInvAlways, PTL

\* And a rollback takes back its own plan and nothing else.
THEOREM RollbackUndoesItsOwn ==
    ASSUME MaxActive = 1, MaxFaults = 0
    PROVE  MigrationSpec => RollbackUndoes
<1>1. FInv /\ TruthInv /\ TruthInv' /\ [MigrationNext]_migrationVars =>
        [\A r \in Run :
          /\ op[r] = "rollback" /\ ~dry[r] /\ Hash[plan[r]] # NoStamp
          /\ pc[r] # "done" /\ pc'[r] = "done"
          => \A n \in AffectedNamespaces(plan[r]) :
               LET found == existing[r][n] IN
               /\ found = Hash[plan[r]] =>
                    /\ \A i \in StepsIn(plan[r], n) :
                         LET w == Steps[plan[r]][i].target
                         IN  w \in live => class[w] = NoClass
                    /\ stamp[n] = NoStamp
               /\ found \notin {NoStamp, Hash[plan[r]]} =>
                    /\ stamp[n] = found
                    /\ \A p \in Plan : Hash[p] = found => InForce(p, n)
        ]_migrationVars
  <2> SUFFICES ASSUME FInv, TruthInv, TruthInv', MigrationNext, NEW r \in Run,
                      op[r] = "rollback", ~dry[r], Hash[plan[r]] # NoStamp,
                      pc[r] # "done", pc'[r] = "done",
                      NEW n \in AffectedNamespaces(plan[r])
               PROVE  LET found == existing[r][n] IN
                      /\ found = Hash[plan[r]] =>
                           /\ \A i \in StepsIn(plan[r], n) :
                                LET w == Steps[plan[r]][i].target
                                IN  w \in live => class[w] = NoClass
                           /\ stamp[n] = NoStamp
                      /\ found \notin {NoStamp, Hash[plan[r]]} =>
                           /\ stamp[n] = found
                           /\ \A p \in Plan : Hash[p] = found => InForce(p, n)
    OBVIOUS
  <2>1. pc \in [Run -> PC]
    BY DEF TruthInv, TurnInv, TypeOK, MemoryTyped
  <2>2. Proceed(r)
    <3>1. \A q \in Run : Start(q) \/ Proceed(q) => q = r \/ pc'[r] = pc[r]
      BY OthersStill DEF TruthInv, TurnInv, Still
    <3>2. ~Start(r)
      BY <2>1 DEF Start
    <3>3. \A q \in Run : Blocked(q) => pc'[r] # "done"
      BY <2>1 DEF Blocked
    <3>4. ASSUME NEW q \in Run, NEW o \in Ops, NEW f \in File, NEW ask \in Asks,
                 Load(q, o, f, ask)
          PROVE  FALSE
      BY <2>1, <3>4 DEF Load
    <3>5. ~(\/ \E f \in File, scope \in Scopes, options \in PlanOptions :
                 Propose(f, scope, options)
            \/ \E f \in File : Edit(f)
            \/ \E w \in Workload, t \in Template : Change(w, t))
      BY DEF Propose, Edit, Change, vars
    <3> QED
      BY <3>1, <3>2, <3>3, <3>4, <3>5 DEF MigrationNext, Invocation
  <2>3. /\ existing[r][n] = Hash[plan[r]] =>
             /\ \A i \in StepsIn(plan[r], n) : class[Steps[plan[r]][i].target] = NoClass
             /\ stamp[n] = NoStamp
        /\ existing[r][n] \notin {NoStamp, Hash[plan[r]]} =>
             /\ stamp[n] = existing[r][n]
             /\ Truth(n)
    BY <2>2, RollbackEnds DEF TruthInv
  <2> QED
    BY <2>3 DEF Truth
<1> QED
  BY <1>1, FInvAlways, TruthInvAlways, PTL DEF RollbackUndoes, MigrationSpec

\* Nor does a rollback take another plan's stamp, in any order of the commands.
THEOREM ForeignKeptInCycle ==
    ASSUME MaxActive = 1, MaxFaults = 0
    PROVE  MigrationSpec => ForeignStampKept
<1>1. TruthInv =>
        [\A r \in Run, n \in Namespace :
           /\ op[r] = "rollback" /\ Hash[plan[r]] # NoStamp
           /\ stamp[n] \notin {NoStamp, Hash[plan[r]]}
           /\ StampNs(r, n)
           => stamp'[n] = stamp[n]]_vars
  BY TurnSpares DEF TruthInv
<1> QED
  BY <1>1, TruthInvAlways, PTL DEF ForeignStampKept

-----------------------------------------------------------------------------
\* What runs under a hash was planned, and what changes the cluster was asked
\* for, whatever is edited or overwritten and however many commands overlap.
THEOREM RunsWhatWasPlanned == MigrationSpec => []PlannedAndAsked
<1>1. MInv => PlannedAndAsked
  BY DEF MInv, RunsPlanned, Obedient, PlannedAndAsked, ReadDryRun
<1> QED
  BY <1>1, MInvInit, MInvStep, PTL DEF MigrationSpec
=============================================================================

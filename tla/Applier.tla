------------------------------- MODULE Applier -------------------------------
(***************************************************************************)
(* The only mutating component of agentmoat: pkg/applier, reached through   *)
(* pkg/agentmoat.Apply and pkg/agentmoat.Rollback.                          *)
(*                                                                          *)
(* A run is one invocation of `agentmoat apply` or `agentmoat rollback` (or *)
(* of the MCP tool of the same name).  It reads the plan-hash annotation    *)
(* ("stamp") of every namespace its plan touches, walks the plan's steps,   *)
(* and stamps or clears the namespaces in which every step succeeded.  The  *)
(* decision taken at a step uses the stamps read at the START of the run.   *)
(*                                                                          *)
(* Every call to the API server is an action of its own, so that other runs,*)
(* operators deleting workloads and crashes of the process fall between     *)
(* any two of them.  Runs are one-shot: Run is the set of invocations.      *)
(***************************************************************************)
EXTENDS Naturals, Sequences, FiniteSets

CONSTANTS
    Run,            \* invocations of apply or rollback
    Plan,           \* plan files an invocation may be given
    Workload,       \* controllers the plans target
    Namespace,
    Class,          \* RuntimeClass names
    NoClass,        \* runtimeClassName absent
    Stamp,          \* non-empty plan hashes
    NoStamp,        \* annotation absent; also the hash of a plan without one
    NsOf,           \* NsOf[w]: the namespace of workload w
    Steps,          \* Steps[p]: the plan's steps, in plan order
    Hash,           \* Hash[p]: metadata.planHash, recomputed by loadPlan
    Ops,            \* the commands this instance's operators use
    DryRuns,        \* the values of --dry-run they use
    MaxActive,      \* invocations alive at once (1: operators take turns)
    MaxFaults,      \* API refusals, lost answers, failed writes, crashes
    MaxChurn        \* changes other actors make to workloads and namespaces

Step == [target : Workload, class : Class \cup {NoClass}, supported : BOOLEAN]

ASSUME InstanceAssumption ==
    /\ NsOf \in [Workload -> Namespace]
    /\ Steps \in [Plan -> Seq(Step)]
    /\ Ops \subseteq {"apply", "rollback"}
    /\ DryRuns \subseteq BOOLEAN
    /\ MaxActive \in Nat /\ MaxFaults \in Nat /\ MaxChurn \in Nat
    /\ NoClass \notin Class

(* loadPlan rejects a file whose hash is not the SHA-256 of its steps and  *)
(* options, so two loaded plans with the same hash are the same plan.       *)
ASSUME HashAssumption ==
    /\ Hash \in [Plan -> Stamp \cup {NoStamp}]
    /\ NoStamp \notin Stamp
    /\ \A p, q \in Plan : Hash[p] = Hash[q] => p = q \/ Hash[p] = NoStamp

VARIABLES
    \* the cluster
    class,      \* class[w]: runtimeClassName of w's pod template
    live,       \* workloads that exist
    liveNs,     \* namespaces that exist
    stamp,      \* stamp[n]: the agentmoat.io/plan-hash annotation of n
    \* one invocation: its command line, then its progress
    op, plan, dry,
    pc,
    todo,       \* namespaces still to read, or still to stamp
    existing,   \* existing[r][n]: the stamp r read
    allSuccess, \* allSuccess[r][n]: no step of r in n has failed yet
    results,    \* results[r]: the statuses of the steps walked, in order
    answer,     \* answer[r]: outcome of the patch in flight
    \* what outlives an invocation
    audit,      \* audit[r]: the audit lines of r, as <<step, status>>
    warned,     \* warned[r]: the steps r warned of "audit append failed"
    events,     \* events[r]: the steps of r that have a Kubernetes Event
    patched,    \* patched[r]: the steps of r whose patch the server performed
    \* bounds
    faults, churn

cluster == <<class, live, liveNs, stamp>>
request == <<op, plan, dry>>
durable == <<audit, warned, events>>
bounds  == <<faults, churn>>
vars == <<class, live, liveNs, stamp, op, plan, dry, pc, todo, existing,
          allSuccess, results, answer, audit, warned, events, patched, faults, churn>>

Status == {"applied", "already-applied", "skipped", "failed"}
Ended  == {"done", "error", "crashed"}
PC     == {"idle", "read", "walk", "event", "record", "stamp"} \cup Ended

-----------------------------------------------------------------------------
(* Helpers. *)

Index(p)     == 1 .. Len(Steps[p])
NsAt(p, i)   == NsOf[Steps[p][i].target]
StepsIn(p, n) == {i \in Index(p) : NsAt(p, i) = n}

\* The namespaces of the plan; they are visited in order of first occurrence.
AffectedNamespaces(p) == {NsAt(p, i) : i \in Index(p)}
Before(p, m, n) == \E i \in StepsIn(p, m) : \A j \in StepsIn(p, n) : i < j
IsNext(r, n) == n \in todo[r] /\ ~\E m \in todo[r] : Before(plan[r], m, n)

\* Apply walks the plan forwards, Rollback backwards.
Walked(r) == Len(results[r])
Cursor(r) == IF op[r] = "apply" THEN Walked(r) + 1
                                ELSE Len(Steps[plan[r]]) - Walked(r)
More(r)     == Walked(r) < Len(Steps[plan[r]])
CurStep(r)  == Steps[plan[r]][Cursor(r)]
CurNs(r)    == NsOf[CurStep(r).target]
WalkedSteps(r) ==
    {i \in Index(plan[r]) : IF op[r] = "apply"
                              THEN i <= Walked(r)
                              ELSE i > Len(Steps[plan[r]]) - Walked(r)}
StatusAt(r, i) == results[r][IF op[r] = "apply" THEN i
                                                ELSE Len(Steps[plan[r]]) + 1 - i]

Active == {r \in Run : pc[r] \notin Ended \cup {"idle"}}

\* applyPatchBytes refuses an empty class; both refuse an unsupported kind.
Builds(r) == /\ CurStep(r).supported
             /\ op[r] = "apply" => CurStep(r).class # NoClass

\* The class a patch of this run leaves on its target.
PatchTo(r) == IF op[r] = "apply" THEN CurStep(r).class ELSE NoClass

\* A step that needs no patch, because of the stamp read at the start.
AnyStampShortCircuits(r) == \* mutant: the hash is not compared
    IF op[r] = "apply" THEN existing[r][CurNs(r)] # NoStamp
                       ELSE existing[r][CurNs(r)] = NoStamp
ShortCircuit(r) ==
    IF op[r] = "apply"
      THEN existing[r][CurNs(r)] = Hash[plan[r]] /\ Hash[plan[r]] # NoStamp
      ELSE existing[r][CurNs(r)] = NoStamp
NoOtherPlan(r) == FALSE \* mutant: rollback goes by its own plan alone
Foreign(r) == /\ op[r] = "rollback"
              /\ Hash[plan[r]] # NoStamp
              /\ existing[r][CurNs(r)] \notin {NoStamp, Hash[plan[r]]}

CanFault == faults < MaxFaults
Fault    == CanFault /\ faults' = faults + 1

-----------------------------------------------------------------------------
Init ==
    /\ class = [w \in Workload |-> NoClass]
    /\ live = Workload
    /\ liveNs = Namespace
    /\ stamp = [n \in Namespace |-> NoStamp]
    /\ pc = [r \in Run |-> "idle"]
    /\ op \in [Run -> Ops]
    /\ plan \in [Run -> Plan]
    /\ dry \in [Run -> DryRuns]
    /\ todo = [r \in Run |-> {}]
    /\ existing = [r \in Run |-> [n \in Namespace |-> NoStamp]]
    /\ allSuccess = [r \in Run |-> [n \in Namespace |-> TRUE]]
    /\ results = [r \in Run |-> << >>]
    /\ answer = [r \in Run |-> "none"]
    /\ audit = [r \in Run |-> {}]
    /\ warned = [r \in Run |-> {}]
    /\ events = [r \in Run |-> {}]
    /\ patched = [r \in Run |-> {}]
    /\ faults = 0
    /\ churn = 0

\* An operator (or an agent, through MCP) starts the command.
Start(r) ==
    /\ pc[r] = "idle"
    /\ Cardinality(Active) < MaxActive
    /\ pc' = [pc EXCEPT ![r] = "read"]
    /\ todo' = [todo EXCEPT ![r] = AffectedNamespaces(plan[r])]
    /\ UNCHANGED <<cluster, request, existing, allSuccess, results, answer,
                   durable, patched, bounds>>

\* readAllNamespaceAnnotations, one GET; a missing namespace reads as "".
ReadNs(r, n) ==
    /\ pc[r] = "read"
    /\ IsNext(r, n)
    /\ existing' = [existing EXCEPT ![r][n] = IF n \in liveNs THEN stamp[n]
                                                              ELSE NoStamp]
    /\ todo' = [todo EXCEPT ![r] = @ \ {n}]
    /\ UNCHANGED <<cluster, pc, request, allSuccess, results, answer, durable,
                   patched, bounds>>

\* Any other error on a GET aborts the run before its first patch.
ReadFails(r) ==
    /\ pc[r] = "read"
    /\ todo[r] # {}
    /\ Fault
    /\ pc' = [pc EXCEPT ![r] = "error"]
    /\ UNCHANGED <<cluster, request, todo, existing, allSuccess, results,
                   answer, durable, patched, churn>>

BeginWalk(r) ==
    /\ pc[r] = "read"
    /\ todo[r] = {}
    /\ pc' = [pc EXCEPT ![r] = "walk"]
    /\ UNCHANGED <<cluster, request, todo, existing, allSuccess, results,
                   answer, durable, patched, bounds>>

\* emitAudit: best effort, one line per step; its failure is only a warning.
AppendAudit(r, status) ==
    \/ /\ audit' = [audit EXCEPT ![r] = @ \cup {<<Cursor(r), status>>}]
       /\ UNCHANGED <<warned, faults>>
    \/ /\ Fault
       /\ warned' = [warned EXCEPT ![r] = @ \cup {Cursor(r)}]
       /\ UNCHANGED audit

\* mutant: the branch of skipped steps forgets emitAudit
ReportUnlessSkipped(r, status) ==
    /\ results' = [results EXCEPT ![r] = Append(@, status)]
    /\ IF status = "skipped" THEN UNCHANGED <<audit, warned, faults>>
                             ELSE AppendAudit(r, status)
\* The step's result, in memory and in the audit file.
Report(r, status) ==
    /\ results' = [results EXCEPT ![r] = Append(@, status)]
    /\ AppendAudit(r, status)

\* mutant: an early `continue` that leaves the namespace's flag alone
NoSpoil(r) == UNCHANGED allSuccess
\* A namespace with a step that failed or was skipped keeps its stamp.
Spoil(r) == allSuccess' = [allSuccess EXCEPT ![r][CurNs(r)] = FALSE]

\* A step that sends nothing: short-circuited, governed by another plan, not
\* expressible as a patch, or only previewed.
LocalStep(r) ==
    /\ pc[r] = "walk"
    /\ More(r)
    /\ \/ /\ ShortCircuit(r)
          /\ Report(r, "already-applied")
          /\ UNCHANGED allSuccess
       \/ /\ Foreign(r)
          /\ Report(r, "skipped")
          /\ Spoil(r)
       \/ /\ ~ShortCircuit(r) /\ ~Foreign(r) /\ ~Builds(r)
          /\ Report(r, "failed")
          /\ Spoil(r)
       \/ /\ ~ShortCircuit(r) /\ ~Foreign(r) /\ Builds(r)
          /\ dry[r]
          /\ Report(r, "applied")
          /\ UNCHANGED allSuccess
    /\ UNCHANGED <<cluster, request, pc, todo, existing, answer, events,
                   patched, churn>>

MustPatch(r) == /\ pc[r] = "walk"
                /\ More(r)
                /\ ~ShortCircuit(r) /\ ~Foreign(r) /\ Builds(r)
                /\ ~dry[r]

\* The API server performs the patch.
Perform(r) ==
    /\ CurStep(r).target \in live
    /\ class' = [class EXCEPT ![CurStep(r).target] = PatchTo(r)]
    /\ patched' = [patched EXCEPT ![r] = @ \cup {Cursor(r)}]

Answer(r, a) ==
    /\ answer' = [answer EXCEPT ![r] = a]
    /\ pc' = [pc EXCEPT ![r] = IF a = "ok" THEN "event" ELSE "record"]

\* sendPatch: performed; performed but the answer is lost; refused; or 404.
SendPatch(r) ==
    /\ MustPatch(r)
    /\ \/ /\ Perform(r)
          /\ Answer(r, "ok")
          /\ UNCHANGED faults
       \/ /\ Perform(r)
          /\ Answer(r, "failed")
          /\ Fault
       \/ /\ Answer(r, "failed")
          /\ Fault
          /\ UNCHANGED <<class, patched>>
       \/ /\ CurStep(r).target \notin live
          /\ Answer(r, "notfound")
          /\ UNCHANGED <<class, patched, faults>>
    /\ UNCHANGED <<live, liveNs, stamp, request, todo, existing, allSuccess,
                   results, durable, churn>>

\* emitEvent: a failure to create the Event is ignored.
EmitEvent(r) ==
    /\ pc[r] = "event"
    /\ \/ /\ events' = [events EXCEPT ![r] = @ \cup {Cursor(r)}]
          /\ UNCHANGED faults
       \/ Fault /\ UNCHANGED events
    /\ pc' = [pc EXCEPT ![r] = "record"]
    /\ UNCHANGED <<cluster, request, todo, existing, allSuccess, results,
                   answer, audit, warned, patched, churn>>

\* mutant: only success is translated
RawStatusOf(r) == IF answer[r] = "ok" THEN "applied" ELSE answer[r]
\* A 404 means "already rolled back" to Rollback, and a failure to Apply.
StatusOf(r) ==
    CASE answer[r] = "ok"       -> "applied"
      [] answer[r] = "notfound" -> IF op[r] = "rollback" THEN "already-applied"
                                                         ELSE "failed"
      [] OTHER                  -> "failed"

Record(r) ==
    /\ pc[r] = "record"
    /\ Report(r, StatusOf(r))
    /\ IF StatusOf(r) = "failed" THEN Spoil(r) ELSE UNCHANGED allSuccess
    /\ answer' = [answer EXCEPT ![r] = "none"]
    /\ pc' = [pc EXCEPT ![r] = "walk"]
    /\ UNCHANGED <<cluster, request, todo, existing, events, patched, churn>>

\* After the last step: writeNamespaceStamps, unless this is a dry run.
EndWalk(r) ==
    /\ pc[r] = "walk"
    /\ ~More(r)
    /\ IF dry[r]
         THEN pc' = [pc EXCEPT ![r] = "done"] /\ UNCHANGED todo
         ELSE /\ pc' = [pc EXCEPT ![r] = "stamp"]
              /\ todo' = [todo EXCEPT ![r] = AffectedNamespaces(plan[r])]
    /\ UNCHANGED <<cluster, request, existing, allSuccess, results, answer,
                   durable, patched, bounds>>

\* writeNamespaceAnnotation: Apply writes its hash ("" deletes the key),
\* Rollback always deletes it.  A failed write is only a warning.
StampTo(r) == IF op[r] = "apply" THEN Hash[plan[r]] ELSE NoStamp

StampNs(r, n) ==
    /\ pc[r] = "stamp"
    /\ IsNext(r, n)
    /\ \/ /\ allSuccess[r][n] /\ n \in liveNs
          /\ stamp' = [stamp EXCEPT ![n] = StampTo(r)]
          /\ UNCHANGED faults
       \/ /\ allSuccess[r][n] /\ n \in liveNs
          /\ Fault
          /\ UNCHANGED stamp
       \/ /\ ~allSuccess[r][n] \/ n \notin liveNs
          /\ UNCHANGED <<stamp, faults>>
    /\ todo' = [todo EXCEPT ![r] = @ \ {n}]
    /\ UNCHANGED <<class, live, liveNs, request, pc, existing, allSuccess,
                   results, answer, durable, patched, churn>>

Finish(r) ==
    /\ pc[r] = "stamp"
    /\ todo[r] = {}
    /\ pc' = [pc EXCEPT ![r] = "done"]
    /\ UNCHANGED <<cluster, request, todo, existing, allSuccess, results,
                   answer, durable, patched, bounds>>

\* The process is killed, or its host dies, between two of its calls.
Crash(r) ==
    /\ r \in Active
    /\ Fault
    /\ pc' = [pc EXCEPT ![r] = "crashed"]
    /\ UNCHANGED <<cluster, request, todo, existing, allSuccess, results,
                   answer, durable, patched, churn>>

-----------------------------------------------------------------------------
(* The other actors of the cluster. *)

Churn == churn < MaxChurn /\ churn' = churn + 1

OthersUnchanged == UNCHANGED <<request, pc, todo, existing, allSuccess,
                               results, answer, durable, patched, faults>>

DeleteWorkload(w) ==
    /\ w \in live
    /\ Churn
    /\ live' = live \ {w}
    /\ UNCHANGED <<class, liveNs, stamp>> /\ OthersUnchanged

\* Created again, or reverted by a GitOps controller, from its own manifest.
Redeploy(w) ==
    /\ NsOf[w] \in liveNs
    /\ Churn
    /\ live' = live \cup {w}
    /\ class' = [class EXCEPT ![w] = NoClass]
    /\ UNCHANGED <<liveNs, stamp>> /\ OthersUnchanged

DeleteNamespace(n) ==
    /\ n \in liveNs
    /\ Churn
    /\ liveNs' = liveNs \ {n}
    /\ live' = {w \in live : NsOf[w] # n}
    /\ stamp' = [stamp EXCEPT ![n] = NoStamp]
    /\ UNCHANGED class /\ OthersUnchanged

-----------------------------------------------------------------------------
\* What the process does by itself once started.
Proceed(r) ==
    \/ BeginWalk(r) \/ LocalStep(r) \/ SendPatch(r) \/ EmitEvent(r)
    \/ Record(r) \/ EndWalk(r) \/ Finish(r) \/ ReadFails(r)
    \/ \E n \in Namespace : ReadNs(r, n) \/ StampNs(r, n)

Environment ==
    \/ \E w \in Workload : DeleteWorkload(w) \/ Redeploy(w)
    \/ \E n \in Namespace : DeleteNamespace(n)

Next ==
    \/ \E r \in Run : Start(r) \/ Proceed(r) \/ Crash(r)
    \/ Environment

Spec == Init /\ [][Next]_vars

-----------------------------------------------------------------------------
(* Properties. *)

ClusterTyped ==
    /\ class \in [Workload -> Class \cup {NoClass}]
    /\ live \subseteq Workload /\ liveNs \subseteq Namespace
    /\ stamp \in [Namespace -> Stamp \cup {NoStamp}]
MemoryTyped ==
    /\ op \in [Run -> Ops] /\ plan \in [Run -> Plan] /\ dry \in [Run -> DryRuns]
    /\ pc \in [Run -> PC]
    /\ todo \in [Run -> SUBSET Namespace]
    /\ existing \in [Run -> [Namespace -> Stamp \cup {NoStamp}]]
    /\ allSuccess \in [Run -> [Namespace -> BOOLEAN]]
    /\ answer \in [Run -> {"none", "ok", "failed", "notfound"}]
WalkTyped ==
    /\ results \in [Run -> Seq(Status)]
    /\ \A r \in Run : /\ Walked(r) <= Len(Steps[plan[r]])
                      /\ pc[r] \in {"event", "record"} => More(r)
TrailTyped ==
    /\ audit \in [Run -> SUBSET (Nat \X Status)]
    /\ warned \in [Run -> SUBSET Nat]
    /\ events \in [Run -> SUBSET Nat]
    /\ patched \in [Run -> SUBSET Nat]
    /\ faults \in Nat /\ churn \in Nat

\* Every variable has its type, what a run reports is a status, and no run
\* walks, or has a patch in flight, past the last step of its plan.
TypeOK == ClusterTyped /\ MemoryTyped /\ WalkTyped /\ TrailTyped

\* Some apply of plan p got the patch of step i performed, now or in the past.
Landed(p, i) ==
    \E r \in Run : op[r] = "apply" /\ plan[r] = p /\ i \in patched[r]
Earned(p, n) == \A i \in StepsIn(p, n) : Landed(p, i)

\* A namespace carries a plan's hash only if each of the plan's steps in it
\* was patched in by some apply of that plan: whatever two runs do to each
\* other, whichever calls fail and wherever a process dies, a hash is never
\* written over, or trusted because of, work that was not done (the stamp is
\* written last, and only over namespaces without a failed step).
StampEarned ==
    \A p \in Plan, n \in Namespace :
        stamp[n] = Hash[p] /\ Hash[p] # NoStamp => Earned(p, n)

\* Why StampEarned is inductive: what a run believes about a namespace, and
\* what it has done so far, is backed by patches the server performed.
TrustEarned ==
    \A r \in Run, n \in Namespace :
        existing[r][n] = Hash[plan[r]] /\ Hash[plan[r]] # NoStamp
        => Earned(plan[r], n)
AnswerHonest ==
    \A r \in Run :
        /\ answer[r] = "ok" => Cursor(r) \in patched[r]
        /\ pc[r] \in {"idle", "read", "walk"} => answer[r] = "none"
WalkLanded ==
    \A r \in Run : op[r] = "apply" /\ ~dry[r] =>
        \A i \in 1 .. Walked(r) :
            allSuccess[r][NsAt(plan[r], i)] => Landed(plan[r], i)
StampsLast ==
    \A r \in Run : pc[r] = "stamp" => ~More(r) /\ ~dry[r]

\* The inductive invariant: a stamp, a stamp a run remembers, and a namespace
\* whose flag a run has kept each stand for patches that were performed.
IInv == /\ TypeOK
        /\ StampEarned /\ TrustEarned /\ AnswerHonest /\ WalkLanded
        /\ StampsLast

\* The trail is complete up to the step in flight: each walked step of a run
\* has a line in the audit file, with the status reported, or else a warning
\* that the line could not be written, and no other line or warning exists; a
\* patch the server performed is on no trail only at the step the run is at or
\* died at; a step reported applied outside a dry run was performed; and an
\* Event exists only for a patch that was performed.
AuditTrail ==
    \A r \in Run :
      /\ audit[r] = {<<i, StatusAt(r, i)>> : i \in WalkedSteps(r) \ warned[r]}
      /\ warned[r] \subseteq WalkedSteps(r)
      /\ events[r] \subseteq patched[r]
      /\ patched[r] \ WalkedSteps(r) \subseteq
           (IF pc[r] \in {"event", "record", "crashed"} THEN {Cursor(r)} ELSE {})
      /\ \A i \in WalkedSteps(r) :
           StatusAt(r, i) = "applied" => (i \in patched[r] <=> ~dry[r])

\* The plan's class is what its targets in n run with (those that still exist).
InForce(p, n) == \A i \in StepsIn(p, n) :
    LET s == Steps[p][i] IN s.target \in live => class[s.target] = s.class

\* Between runs, a stamp tells the truth: the namespace runs the plan whose
\* hash it carries.  This is what makes "the namespace carries our hash" a
\* reason for apply to send nothing.  It takes operators who take turns and
\* runs in which no call fails: an apply of p that is killed between a patch and
\* its stamp leaves the stamp of q over p's class.
StampTruth ==
    Active = {} =>
      \A p \in Plan, n \in Namespace :
        stamp[n] = Hash[p] /\ Hash[p] # NoStamp => InForce(p, n)

\* Rollback preserves the stamp of another plan: no step of a rollback of p
\* changes an annotation that is neither absent nor p's own hash.
ForeignStampKept ==
    [][\A r \in Run, n \in Namespace :
          /\ op[r] = "rollback" /\ Hash[plan[r]] # NoStamp
          /\ stamp[n] \notin {NoStamp, Hash[plan[r]]}
          /\ StampNs(r, n)
          => stamp'[n] = stamp[n]]_vars

\* The step a run reports on in this transition, with the status it reports.
Reports(r, status) == results'[r] = Append(results[r], status)

\* When rollback reports a step as already applied its workload, if it is still
\* there, runs without a class: an absent stamp means the plan is not in force.
RollbackAlreadyTrue ==
    [][\A r \in Run :
          /\ op[r] = "rollback" /\ Hash[plan[r]] # NoStamp
          /\ pc[r] = "walk" /\ More(r) /\ Reports(r, "already-applied")
          /\ CurStep(r).target \in live
          => class[CurStep(r).target] = NoClass]_vars
=============================================================================

# A verification development of agentmoat

agentmoat finds the workloads of a Kubernetes cluster that can run under gVisor,
plans their migration, applies the plan by setting `runtimeClassName` on
controllers, verifies the result and rolls it back. This directory holds TLA+
models of what it reads of a cluster, decides, and does to it, the TLC runs that
check them, and proofs, checked by TLAPS: every invariant and every action
property that a passing run checks, but one (`CondemnedForCause`), is a theorem, for
all values of the constants or under a named assumption about who runs when (section
4). Liveness is model-checked.

## 1. The system

One Go module, two binaries: the CLI `cmd/agentmoat` and the MCP server
`cmd/agentmoat-mcp`. Both call the functions of `pkg/agentmoat`, which wire the
packages below together. There is no daemon and no state in memory between
invocations. What outlives an invocation is in the cluster (pod templates, the
annotation `agentmoat.io/plan-hash` of namespaces, Events, the probe pod) and in
two places on disk (plan files, `~/.agentmoat/audit.jsonl`). Two invocations
interact only through those; nothing locks them, and the MCP server runs tool
calls concurrently in one process.

| Component | State it keeps | Operations | What is hard | What makes it correct |
|---|---|---|---|---|
| Scanner (`pkg/scanner`) | none | six paginated lists, ownership rules, sort | the lists are not one snapshot | every workload once, under its owner |
| Classifier (`pkg/classifier`) | rule registry | rules over pod specs, severity overrides, refinement by GPU and runsc facts | stale or missing facts | the verdict is the worst reason; refinement never hides an error it cannot refute |
| Planner (`pkg/planner`) | none | partition, risk score, order, hash | scans grow old; hash stability | nothing a verdict kept out is planned; low risk first |
| Loader (`pkg/agentmoat/loader.go`) | none | parse, recompute the hash | files edited or overwritten between plan, apply and rollback | a hash stands for the steps the planner wrote |
| Applier (`pkg/applier`) | stamps read at the start, `allSuccess` per namespace, results | read stamps, walk, patch, Event, audit, stamp; and the same backwards | overlapping runs, lost answers, crashes, deletions and reverts by others | a stamp is never written over, or trusted for, work that was not done; everything done is on the audit trail; re-running converges |
| Audit (`internal/audit`) | the file, a mutex per process | append | goroutines of several processes, short writes, kills | lines stay whole; the caller is told the truth; no way out keeps the mutex |
| Preflight (`pkg/preflight`) | none | read RuntimeClass, list nodes, evaluate | two reads; counts instead of nodes | no refusal without reason, no passing when nothing can host |
| Gate (`pkg/agentmoat/apply.go`) | none | preflight, then the applier | the cluster changes in between | as above; `--skip-preflight` is the only bypass |
| Probe (`pkg/probe`) | the pod with the fixed name | create, poll, read log, delete | one name for all, killed probes, pods that never run | answers belong to the node named; the pod is cleaned up; the probe ends |
| Verifier (`pkg/verifier`) | memoized RuntimeClass and nodes | list pods of a step, compare specs, nodes, exec | runs during the rollout | exit code 0 is sound; a finished rollout gets it |
| Explainer (`pkg/explainer`, `explain`) | none | evidence for every finding | extractors that repeat the rules' predicates with lists of their own | every rule either has something to show or is listed as checked |
| Output, kube client, schema, rules | none (embedded documents) | render, build a client | - | - |
| CLI | exit code | flags, wiring, exit codes | context.Background(), no client timeout | exit codes tell the truth |
| MCP server | none | one tool per operation | concurrent tool calls; a missing `dry_run` | only an explicit false lets a tool call change anything; else as the operations it calls |

## 2. The modules

| Module | Models | Role |
|---|---|---|
| `Applier` | `pkg/applier`, as reached through `pkg/agentmoat` | the detailed specification |
| `Ledger` | what the annotation promises | abstract specification |
| `ApplierLedger` | - | refinement mapping, `ImplementsLedger` |
| `ApplierProofs` | - | theorems, those about `Session` and the refinement of `Ledger` included |
| `Migration` | `plan` to a file, `loader.go`, `dry_run` of the flags and of the MCP tools, the gate's refusal | composes `Planner` and `Applier` |
| `MigrationProofs` | - | theorems |
| `AuditLog` | `internal/audit` | the detailed specification |
| `Trail` | what the applier relies on when it calls `audit.Append` | abstract specification, `ImplementsTrail` |
| `AuditLogProofs` | - | theorems, of `AuditLog` and of `Trail` |
| `Session` | a shell script of `apply` and `rollback`, and their exit codes | composes commands over `Applier` |
| `Preflight`, `Gpu` | `pkg/preflight` | pure operators: facts and findings |
| `Gate` | `pkg/agentmoat.Apply` | composes `Preflight` with a changing cluster |
| `GateProofs` | - | theorems |
| `Probe` | `pkg/probe` | one module, several invocations |
| `ProbeProofs` | - | theorems |
| `Verify` | `pkg/verifier`, the exit code of `verify`, CI that repeats it | with the rollout as environment |
| `VerifyProofs` | - | theorems |
| `Classifier` | `pkg/classifier` | pure operators: rules, overrides, refinement, verdict |
| `Planner` | `pkg/planner` | pure operators: partition, score, order, hash, plan |
| `PlannerProofs` | - | theorem about any report, on which those of `Scan` and `Migration` rest |
| `Explainer` | `pkg/explainer/workload.go` | pure operators: evidence |
| `Scan` | `pkg/scanner`, and `Scan`, `AssessWorkload`, `Explain` and `Plan` of `pkg/agentmoat` | composes the above over a changing cluster |
| `ScanProofs` | - | theorems |
| `MCApplier`, `MCMigration`, `MCSession`, `MCAuditLog`, `MCGate`, `MCVerify`, `MCScan` | - | small instances |

`PROJECT.json` maps each definition to the lines it stands for.

### Applier

`Run` is the set of invocations; each has its command line (`op`, `plan`, `dry`),
chosen in `Init`, and a `pc`. The actions follow the code from top to bottom:
`Start` and `ReadNs` (`readAllNamespaceAnnotations`, one GET per namespace),
`LocalStep` (the branches of the loop that send nothing), `SendPatch`, `EmitEvent`,
`Record` (status, result, audit line), `EndWalk`, `StampNs`
(`writeNamespaceStamps`), `Finish`. Each API call is an action, so anything falls
between two calls. `existing[r]`, `allSuccess[r]` and `results[r]` are the local
variables of the same names; `stamp[n]` is the annotation and `class[w]` the
template's `runtimeClassName`. `SendPatch` has four outcomes: performed, performed
with the answer lost, refused, not found. `Crash` ends an invocation anywhere.
`DeleteWorkload`, `Redeploy` (re-creation or a GitOps revert) and `DeleteNamespace`
are other clients of the API server. `patched[r]` is a history variable: the steps
whose patch the server performed. `audit` and `warned` are the audit lines and the
warnings about lines that could not be written.

Abstracted: the shape of the patches (a patch sets or clears the class and adds
or removes nothing else that a property tells apart), pods (an applied step is one
whose template is patched; the applier does not wait for rollouts), texts. Events
and audit are always on, as by default. The SHA-256 is the assumption
`HashAssumption`: plans that were loaded and have the same hash are the same.

### Migration

Where `Applier` starts from plans that are given, `Migration` makes them. Workloads have
templates, of which the constant `Verdict` says what the classifier says; `Propose` is
`scan` and `plan` at one moment, by the operators of `Planner`, into a file. `Edit` is a
hand on the file (the hash taken out, a class changed), `Change` a rollout of another
template. `Load` is the start of `apply` and `rollback`, from the terminal or as
`apply_plan` and `rollback_plan` of the MCP server: the argument `dry_run` is decoded, the
file parsed, and a hash that does not belong to the steps and options refuses it
(`Loadable`). `Blocked` is the refusal of the gate. From there on a run takes the steps of
`Applier`.

A plan file's contents are the constant `Content`: a document is a number, the
plans of `Applier` are the documents the loader lets through, and a hash is the number of the
document it was computed from (`DocumentAssumption` ties the two views together).
`proposals` is a history variable: what was planned, with the templates the scan saw.
Operators take turns and nothing fails: crashes, lost answers, deletions and reverts are
the business of `applier_concurrent` and `session_cycle`, and with them `StampTruth` and
`RollbackUndoes` are not true of the code (section 6).

### AuditLog and Trail

A caller is a goroutine, which belongs to a process. `Prepare` is everything before the
mutex (path, directory, JSON), `Lock`, `Open`, `Write` and `Return` are the rest of `Append`;
each of them but the locking may fail. A file is the sequence of its write(2)s, each of them a line, or
the `head` and the `tail` of a line of which the kernel took only a part at first: Go's
`File.Write` then writes on from there (`Rest`), and other processes may write in between.
`Kill` ends a process with all its goroutines. `Trail` says what the applier makes of this:
an entry joins the trail at one moment, between the call and its return, and the call returns an error
if and only if it has not. The refinement takes a line to be in the trail from the moment
its newline is written.

### Session

The invocations of `Applier` one after the other, by `Script`; `ExitCode` is what
`cmd/agentmoat` makes of the result. `ScriptFits` (one command per invocation, one hashed
plan), `AppliesFirst` and `OneStepEach` are definitions, which `MCSession` assumes of its
instance and the theorem about the exit code of any; `ApplierProofs` extends this module, and its other theorems
need none of them.

### Preflight and Gate

`Collect` keeps counts, as the code does, and `Evaluate` reads only these.
GPU facts (module `Gpu`) are left out of the gate: their findings stop at `warn` and cannot block. `Gate`
takes `GET runtimeclass` and `LIST nodes` as two steps and lets the cluster change
around them; `tolerating` says whether the plan was made with `--add-toleration`, which the gate
never learns. The properties compare the decision with an independent account of what the scheduler
would do (`Repels`, `CanHost`), at the moments from the gate's first read to its second: `moments`
is a history variable. What `Collect` puts together need not have been true at any moment: when both
the RuntimeClass and the nodes change between the reads (`Torn`), the gate may decide either way.

### Probe

`pod` is the one pod of the fixed name and remembers who created it. The probes
only ever use the name, as in the code. The kubelet of a Ready node may run the
pod, must end it after `activeDeadlineSeconds`, and must remove it once it is
terminating; nothing forces the pod to run at all. The end label `undeleted` marks
a run whose deletion failed (the code ignores that error).

### Verify

A pod is its class (`old` or `expected`), phase, node and whether it is
terminating. The templates are patched already, but a controller need not have got to every
pod: `wanted[s][i]` is the class it gives the pod `i` of step `s` when it creates it next. The old
ReplicaSet in the middle of a rollout, the pods below a StatefulSet's partition and the retries of a
Job made before the apply are pods whose `wanted` is still `old`; `MoveOn` is the rollout getting to
one, which nothing forces, and `Undo` somebody rolling back. Pods complete (`Complete`), are
evicted, and may stay or be cleaned up. Two history variables serve the properties: `owed[s]`, the
names whose controller wanted the old class when `s` was listed or since, and `boxed`, the steps that
had a pod under runsc since the run began.
`Resolve` takes the snapshot of one step and compares the specs; `ReadRuntimeClass`
and `ReadNode` are the memoized reads; `Judge` is the body of the loop in
`check`; `ExecProbe` goes by name to whatever has the name now. `Begin` starts a
run, again and again until one exits with 0.

### Classifier, Explainer, Planner and Scan

A workload is a natural number, its place in the order by namespace, kind and name,
with its kind and namespace; its object (pod spec, annotations, owners, labels) comes,
goes and changes. `Start` takes a command (`scan`, `assess`, `explain`) and its options;
the three share the rest of the pipeline. `GetWorkload` is `assess` reading its one
workload by name, whoever owns it; `Filter` is `explain workload` narrowing the lists to
a name. `Classify` ends in `ExplainWorkload` for `explain`. Each `ListPage` is one
List call; the API server serves the later pages of a list from the moment of its first
page (`cont`), or refuses the continue token (`CallFails`), which ends the scan as any
other error of a list does. `GetRuntimeClass` and `ListNodes` are the two reads behind
the facts; `FactsSkipped` is the degradation when they fail; `LoadFacts` is `--facts` or
`--no-cluster-facts`, and takes the facts of a file as they are written there, as `loadClusterFacts`
does: whether a card or a driver is supported is what the file says, which an older release or
another hand may have written. `Classify` applies the registry with its overrides to the rows
that were kept, with the facts that were read after them. `MakePlan` is `plan`, from the scan
report in memory or on disk; its `--facts` changes the warnings only. `seen[w]` is a
history variable: what the object has been since the scan began.

Abstracted: a pod spec is what the fifteen rules tell apart (capabilities, host
namespaces, kinds of volumes, image hints, where PID 1 comes from); a GPU product is a
model value, so the cutting of labels into words is left out; a runsc release is its date
and point number. SHA-256 is taken for an injective function, so a hash is what is
hashed. Rows are appended as in the code: `rows[<<w, n>>]` is the `n`-th row about `w`, and a
namespace that is named twice is listed twice, and doubles its rows. `Registry` says
what a rule file comes to, the last valid override of each rule, without the loop.
`ClusterAssumption` says who controls whom, as the built-in controllers do (a job descends from a
cron job, a pod from one of four kinds, everything of a listed kind is in view of the API), and that
the support of a card in a loaded report is one of the three levels that `schema` has.

## 3. The runs

| Run | Instance | Distinct states | What it shows |
|---|---|---|---|
| `applier_concurrent` | 2 overlapping invocations, plans `p` (2 namespaces, one split around the other), `q` (another class for one of `p`'s workloads), `b` (unsupported kind, empty class), dry or not, 1 fault, 1 outside change | 669,351 | `StampEarned`, the inductive invariant, the audit trail, the refinement |
| `migration_cycle` | 3 workloads in 2 namespaces with 3 templates, 2 plans (all that compatible and review allow to one class, compatible alone to another) into 1 file, 3 commands in turn, 3 ways of giving `dry_run`, 1 edit or rollout | 894,101 | what runs is what was planned and asked for; verdicts are kept; a rollback undoes its plan and no other; stamps are true between turns |
| `session_cycle` | apply x3, rollback x3, 2 faults | 172,002 | exit code 0 of apply, convergence both ways |
| `audit_log` | 2 goroutines of one process and 1 of another, 2 calls each, 2 faults | 587,212 | lines of a process stay whole, what a fault can cost, the promise to the applier, every call returns |
| `gate_sound` | 2 nodes of 10 shapes, 5 RuntimeClasses, 2 changes of nodes or class, plans with and without a toleration of their own | 1,878,864 | the gate's decision, held against the moments between its reads |
| `probe_shared_pod` | 2 probes, 3 nodes, 1 fault, 1 outside deletion, 1 node change | 532,456 | isolation by name, clean-up, termination |
| `scan_plan` | 9 workloads in 3 namespaces, 16 clusters, pages of 2, 8 command lines (5 of scan, one of which names a namespace twice, 1 of assess, 2 of explain), 7 saved facts (one with outdated verdicts), 1 change of a workload, node or RuntimeClass, 1 plan | 122,825 | completeness and uniqueness of rows, evidence for every finding, what plans keep off, what condemns a GPU workload, the order of plans, termination |
| `verify_loop` | 2 steps with 2 and 1 pods, old or new, whose controllers may want either class, 2 nodes, 1 failed call, eviction, completion, undone rollout, change of a node or of the class | 840,404 | what exit code 0 means, of specs and of the sandbox; one report does not contradict itself; a healthy rollout is verified |

Four runs end in a counterexample on purpose: each checks a sentence of the
repository's own documentation or comments.

| Run | The sentence | What happens |
|---|---|---|
| `rollback_already_true` | `applier.go:215-216` "If the annotation is absent we never applied this plan to that namespace" | apply `p`; apply `q` over one of its workloads; roll back `q`, which clears the annotation and that workload's class; roll back `p`: without an annotation everything counts as already rolled back, and `p`'s other workloads keep its class |
| `foreign_stamp_race` | `applier.go:168,233` another plan's stamp is preserved | a rollback of `p` that overlaps an apply of `q` deletes the stamp `q` has just written |
| `verify_placement` | `docs/preflight.md:105-106` "A node outside the selector demotes the step to `mismatch`" | a later node that is gone ends the check before the mismatch counts, and the step stays `ok` |
| `gate_advice` | `docs/preflight.md:58`, `evaluate.go:210` "re-plan with `--add-toleration` when the taint is exactly `runtime=gvisor:NoSchedule`" | every selected node has that taint and the plan brings the toleration: the gate is not told, and refuses all the same |

### Why the bounds are enough to be interesting

Two overlapping invocations are the least for a race on a stamp, and the defects of
turn-taking need three or four commands, which is what the runs of that kind have.
In `migration_cycle` two plans over the same workloads, of which one leaves out what is
under review, are the least that compete for a workload and a namespace; three commands let one
plan be applied over the other and rolled back again, and one edit or rollout falls anywhere between
planning and loading. The documents are all those that two plans and one edit lead to.
In `audit_log` two callers share a mutex and the third does not; two calls each let a
line follow a broken one, and with two faults a write can be short and its rest fail, or
two lines break at once.
Plan `p` visits namespace `n1`, then `n2`, then `n1` again, so that "in every step
of the namespace" differs from "in the last one"; `q` shares a workload and a
namespace with `p`. One fault is the least for a partial outcome; the session has
two, so that a retry fails as well, and one command more than faults, so that
convergence may be asked for. In the gate, two nodes can have different
obstacles, which is where counts and nodes part; a third node would only repeat a
shape. Two changes are the least that can make what the gate read a cluster that never was. In `Probe`, the third node has GPUs and is Ready but not selected. In `Verify`, one
step has two pods, so that first and all differ, and the two steps may share a
node, so that a memoized read is used. One eviction, completion or undone rollout can hit the
pod between the list and the exec, and a controller that has not moved on replaces it by an old
one. In `Scan`, three pods in one namespace and pages of
two make a second page, so that a change falls between pages, lists and reads; the
two deployments carry every pod spec that a rule is about, and the saved facts reach
every row of the GPU decision table. One change is enough because the properties are
about the families that do not change.

`CHECK_DEADLOCK FALSE` everywhere: invocations come to an end, and so does CI.

### Fairness

- `Session`: a command is typed once the previous one has ended, and a process that
  is not killed goes on. `Applier` itself has no fairness.
- `Probe`: calls return, the clock reaches the timeout, and the kubelet of a Ready
  node enforces `activeDeadlineSeconds` and removes terminating pods. That the pod
  runs is never assumed.
- `AuditLog`: a goroutine that can take a step takes it, and what waits for the mutex gets
  it some time (Go's mutex hands over after a millisecond). Kills are not forced, nor does
  a fault have to happen.
- `Scan`: a call of a running scan is answered (`Proceed`). No call has to fail, so that a
  scan that would only end by an error counts as one that does not end.
- `Verify`: calls return and CI tries again; the controllers replace, create and
  schedule pods. Completed pods need not be cleaned up, and no rollout has to move on
  (`EventuallyVerified` is about those that have).

"Calls return" is an assumption the code does not enforce: `internal/kube/client.go`
sets no timeout and the CLI passes `context.Background()`, so a connection that
hangs, hangs the command. No fault, crash or outside change is ever forced by
fairness.

## 4. What is proved

### The applier

`ApplierProofs`, for any number of invocations, plans, workloads, namespaces, faults and
outside changes, from `InstanceAssumption` (the plans are sequences of steps, and so on) and
`HashAssumption`:

| Theorem | Statement |
|---|---|
| `TypeCorrect` | `Spec => []TypeOK` |
| `AlwaysBacked` | `Spec => []IInv`, the inductive invariant |
| `StampAlwaysEarned` | `Spec => []StampEarned`: a namespace with a plan's hash had each of the plan's steps in it performed by an apply of that plan |
| `TrustAlwaysEarned` | `Spec => []TrustEarned`: the same for the stamp a run has read and acts on |
| `TrailComplete` | `Spec => []AuditTrail`: every walked step has its one audit line, with the status reported for it, or a warning; nothing is patched that is not walked or under way |
| `AppliesByTheLedger` | `Spec => ImplementsLedger` |
| `ForeignKeptInTurns` | `Spec => ForeignStampKept`, if `MaxActive = 1` and `Run` is finite |
| `ExitZeroInForce` | `SessionSpec => []ApplyExitZero`, if `ScriptFits`, `AppliesFirst` and `OneStepEach` |

`StampEarned` is not inductive. A stamp is written by a run whose flag for the
namespace is still set, so one has to know what the flag stands for: every step
walked there has landed (`WalkLanded`). A step lands by a patch, so an `ok` in
flight must mean a performed patch (`AnswerHonest`); or it was short-circuited, so
the stamp that was read at the start, possibly outdated by now, must have been
earned (`TrustEarned`, which follows from `StampEarned` at the time of the read,
because landing is never undone: `LandedKept`). And stamps are written only by
runs that have walked all of their plan and are no dry runs (`StampsLast`). The
conjunction is `IInv`, which TLC checks in `applier_concurrent` and the proof shows
inductive, action by action. The refinement then is one case per action: a
performed patch of an apply is `Land`, a stamp over a kept flag is `Seal`, a cleared
annotation or a deleted namespace is `Break`, everything else a stutter.

`AuditTrail` needs to know more about the step under way than it says: a patch
is performed only for the step at the cursor and before its line is written (`InFlight`),
and the walk goes through the plan without meeting a step twice, forwards and backwards
(`StepJoins`), so that a line that was written is never joined by another for the same step.

`HashAssumption` is what makes `StampEarned` about plans: without it, a hash in a
namespace could be another plan's.

`ForeignStampKept` is not true of runs that overlap (`foreign_stamp_race`), so its theorem assumes that they
do not: no invocation starts before the others have ended. Faults, crashes, deletions and reverts
may happen all the same. `TurnInv` says what turns are good for: whoever is alone finds each stamp
of a namespace it has yet to stamp as it was read, or deleted with its namespace
(`RemembersAt`); a walked step in a namespace with another plan's hash has cost the namespace
its flag (`SparesAt`). Deleted namespaces carry no stamp, and a run starts with nothing walked.

`ApplyExitZero` needs an account of failures: a namespace that has lost its flag in an apply has a
failed step to show (`FlagsAccounted`), so exit code 0 means that no flag was lost, hence
(`WalkLanded`) that every step has landed, in this apply or an earlier one; and what has landed stays
in force until something is rolled back (`StaysInForce`). The hypotheses are those of the
sentence it is about. Without `AppliesFirst`, a rollback that died half-way leaves annotations that
the next apply trusts. `OneStepEach` is what the planner guarantees (`PlanIsRanked`): a plan with two classes for
one workload could not be in force. That the commands take turns is not used. `ScriptFits`
gives every invocation its command and the session its one hashed plan.

### Plan files

`MigrationProofs`, for any workloads, templates, verdicts, files, documents and numbers of plans, edits
and runs, overlapping or not unless said otherwise, from `InstanceAssumption`, `MigrationAssumption` and
`DocumentAssumption`:

| Theorem | Statement |
|---|---|
| `RunsWhatWasPlanned` | `MigrationSpec => []PlannedAndAsked`: a plan with a hash that a run has loaded is one the planner wrote, and a patch is only performed for a run whose caller gave a false `dry_run` in so many words |
| `NothingForced` | `MigrationSpec => []NoneForced`: whatever no unhashed plan has touched is on a class only if the scan behind a plan for that class saw a template of it that may be moved |
| `StampsTellTheTruth` | `MigrationSpec => []StampTruth`, if `MaxActive = 1` and `MaxFaults = 0` |
| `RollbackUndoesItsOwn` | `MigrationSpec => RollbackUndoes`, under the same |
| `ForeignKeptInCycle` | `MigrationSpec => ForeignStampKept`, under the same |

`PlannedAndAsked` says nothing of files, and files may be edited, so the invariant `MInv` does:
whatever is edited, a claim in a file is the claim of some planned document
(`ClaimsPlanned`), planned documents claim what belongs to their steps and options
(`Genuine`), and the loader lets a document through only if its claim belongs to its own steps and
options; with SHA-256 injective, both are the same document (`RunsPlanned`). `Obedient`
follows the argument from the flag to the patch.

`NoneForced` goes from the other end: every planned document is the planner's, of templates the scan saw
(`Derived`), its steps are the workloads included (`PlanIsRanked`, which is where the order of the steps
comes in), and a class that is set was set by a patch of such a step (`ClassBacked`).

The last three are about what is true *between* runs, so the invariant has to say what is true *during* one:
`TruthInv`. While a run is active, each stamp is as it was read until the run writes it, only
another plan's namespaces have lost their flag, and the steps it has walked are as it left them
(`FaithfulAt`); every other namespace, and those that it has not begun to change, tell the truth. When
the run has written its last stamp, all of them do. That a workload of the plan is not walked twice with
different classes is again `PlanIsRanked`. Turns and the absence of faults are needed:
`foreign_stamp_race` shows what happens in an overlap, section 6 what one crash does.

### Planner and scan

`PlannerProofs`, from `PlannerAssumption`, and `ScanProofs`, for any workloads, clusters, changes, command
lines, page sizes, saved facts and plans, from `ScanAssumption` and `ClusterAssumption`:

| Theorem | Statement |
|---|---|
| `PlanIsRanked` | for every finite report and all options: the steps are the workloads included, each once, a step before another exactly if `Before` says so; included and excluded make up the report; nothing incompatible, unasked for under review, or of a kind without a patch, is included |
| `ScanTypeCorrect` | `Spec => []TypeOK` |
| `RowsAreReal` | `Spec => []RowsWereReal` |
| `FamiliesHaveOneRow` | `Spec => []OneRowPerFamily` |
| `EveryFindingHasEvidence` | `Spec => []EvidenceForEveryFinding` |
| `NothingKeptOffIsPlanned` | `Spec => []PlansKeepOff` |
| `LowRiskRollsFirst` | `Spec => []LowRiskFirst` |

`Order` numbers each workload by how many come before it. `Before` is a strict linear order on a report
(`BeforeIsLinear`: the place of the workload breaks every tie), so the numbers grow along it
(`PositionsGrow`) and, each workload having one of its own among as many numbers as there are workloads, every
number is taken (`OrderRanks`).

`ScanInv` says what the pages are made of: whatever is in a page still to come, or in a row, is
something the object was since the scan began (`RowsInv`); a report is the verdicts on its rows and facts
(`ReportOf`), and a plan keeps those it was made of (`MadeOf`). With this the properties of reports and plans are
lemmas about operators: `FiredWhen` and `SomethingToShow` go through the fifteen rules and their extractors,
`FoundAgainst` and `RemarkMeansServed` through the verdict and the GPU table, `RollsByRisk` through the score.
`NothingKeptOffIsPlanned` takes the word of a loaded file: that a card is supported is what it says, and
only if the verdicts in it are those of this release (`Refreshed`) is it so. That live facts never suffice
comes from the table itself: without a probe, no driver is known to be driven.
`OneRowPerFamily` needs to know where the walk over kinds, scopes and pages is: a workload
that has stayed as it is, is in view and is controlled by no listed kind is either still ahead of the
walk or has its row (`ListInv`, `Behind`). The other half, that what is controlled has no row, is `RowsInv`.
That no object has two rows if no namespace is named twice is `OnceInv`: what has a row is neither in a page to
come nor in a list still ahead (`NotListedAgain`).

### The audit log

`AuditLogProofs`, for any callers, processes, numbers of calls and faults, from `AuditAssumption`:

| Theorem | Statement |
|---|---|
| `TypeCorrect` | `Spec => []TypeOK` |
| `OrderlyAppends` | `Spec => []IInv`, the inductive invariant |
| `LinesAlwaysWhole` | `Spec => []WholeLines`: nothing of the same process between the head and the tail of a line |
| `FaultsCostAtMostTwo` | `Spec => []FaultsCostTwo`: a fault costs at most two entries whose callers were told that they were written |
| `AppendsToTheTrail` | `Spec => ImplementsTrail` |
| `TrailTellsTheTruth` | `TrailSpec => []ToldTruth`: what a call returned is true of the trail for good |
| `ToldTheTruth` | the same of `AuditLog`, by the refinement |

`WholeLines` is not inductive either: whoever is between `Lock` and `Return` holds the mutex of its
process (`MutexHeld`), nobody has written an entry it has not come to (`NotAhead`), and the
head of a line in hand is the last that its process wrote (`HeadLast`). The conjunction is `IInv`, an
invariant of the run `audit_log`.

`FaultsCostTwo` is an account. Each head took a fault (`HeadsPaid`) and each tail has its head
(`TailsBegun`); an entry that was written and cannot be read is either the one whose head this
is, or the one glued behind the head (`UnreadableCharged`), so a map from heads and two sides covers
them all (`LossBounded`).

### Gate, probe, verifier

`GateProofs`, for any finite set of nodes, RuntimeClasses and number of changes, from
`GateAssumption` and `AdmissionAssumption` (what the API server's validation lets through of taints and
tolerations):

| Theorem | Statement |
|---|---|
| `NoRefusalForNothing` | `Spec => []BlockedRightly` |
| `OneCauseIsEnough` | `Spec => []SingleCauseBlocks` |

The statements are about the moments between the reads, so the invariant `GInv` ties what was read to them: unless
`Torn`, the class and the nodes that were read are those of one moment, whichever of them changed. The
rest is one lemma, `FindingsMean`: the findings block exactly when all the nodes selected are not ready, or
all are tainted, or all are Auto Mode, or all are Bottlerocket, which is what comparing the
counts of a finite set and its part amounts to (`Parts`). `TaintedRepels` shows that the code's
`tolerates` agrees with the scheduler's rule on everything that validation admits, and not
without it: a toleration without a key and with `Equal` is one the two would read differently.

`ProbeProofs`, for any number of probes, nodes and faults, from `ProbeAssumption` and
`NoPodAssumption`:

| Theorem | Statement |
|---|---|
| `TypeCorrect` | `Spec => []TypeOK` |
| `AnswersAreOwn` | `Spec => []OwnAnswer` |
| `LeavesNothing` | `Spec => []NoLeftover` |
| `OnlyOwnDeleted` | `Spec => DeletesOwn` |

The name is a lock in disguise: as long as nobody else deletes the pod, a run between its creation and its
deletion finds its own pod under the name, not terminating (`NameHeld`), because another run's creation
is refused meanwhile. The other parts say that a pod comes from a run that got as far as
creating it (`Created`) and that an answer is given once (`Answered`).

`VerifyProofs`, for any number of steps, pods and nodes, from `VerifyAssumption`:

| Theorem | Statement |
|---|---|
| `TypeCorrect` | `Spec => []TypeOK` |
| `ExitZeroSound` | `Spec => []ExitZeroMigrated` |
| `PlacementConsistent` | `Spec => []SamePlacement` |
| `ExitZeroInSandbox` | `Spec => []ExitZeroSandboxed` |

`ExitZeroMigrated` rests on a step staying migrated once its live pods are but for those that its controller owes
(`OkMigrated`, `Kept`): what is created later is of the class wanted, which is the new one outside `owed[s]`.
`SamePlacement` rests on the memo: the
mismatched nodes of a step that is through are a function of its nodes and the memo alone, the
nodes outside up to the first that could not be judged (`ByTheMemo`), also after the memo
has grown (`MemoGrows`), since a node not read yet lies beyond such a first one.
`ExitZeroSandboxed` needs nothing of the pod that was listed: the exec reaches whatever has its name then, and an
`ok` means that this pod runs under runsc, which `boxed` records whenever it happens (`BoxInv`).

### Induction

The library's induction theorems take an operator and cannot be instantiated here. Where an extreme
element of a set of numbers is needed (`MaxIsMember` in `ScanProofs`, `MinIsMember` in `VerifyProofs`) the proofs use
`WFMin`, which quantifies over sets; where a count is, the facts about `Cardinality` of
`FiniteSetTheorems`.

## 5. What is only model-checked

- Liveness, which is out of the prover's reach: `AppendReturns`, `ApplyConverges`, `RollbackConverges`,
  `ProbeEnds`, `PodStops`, `EventuallyVerified`, `ScanEnds`.
- `CondemnedForCause`, an invariant of `scan_plan`: it relates counts per node group to single nodes at the
  moments of a scan, and is left to TLC.
- The four runs that end in a counterexample: they show that a sentence is false of one instance, which is all
  that is needed.

`StampTruth`, `RollbackUndoes`, `ForeignStampKept` and `ApplyExitZero` are proved under the hypotheses given
above, which the instances of `migration_cycle` and `session_cycle`, where TLC checks them, satisfy.

## 6. What is not modelled, and known limits

- Output and the read-only tools of the MCP server render or forward, and the topics of `explain` are
  embedded documents. None of them is modelled. The kube client holds no state but its timeout, of
  which there is none; schema and rule data are types and documents.
- `audit.go:48-51` says that with O_APPEND "the kernel guarantees atomic line writes across
  processes". It does so for a write(2) that is taken whole; a short one lets another
  process's line in between the two pieces. `FaultsCostTwo` is what is left: one fault costs
  at most two entries whose `Append` returned without an error, one of which can be the
  other process's, or a later one of the same process, glued to a line that was never finished
  (so that `audit.go:106-107`, which marshals first to leave no half-written line, avoids one way to such a
  line and not the other). NFS, where O_APPEND is not atomic at all, is left out.
- A plan hash is not a function of the workloads and options. `plan.go:87-89` says that "the same
  workloads hash the same whether or not the cluster was ready when the scan ran", but the facts
  have a part in the verdicts: a GPU node that changes its card between two scans changes the
  verdict on a GPU workload, hence the steps, hence the hash.
- `scanner.go:130-131` says that the pods of a ReplicaSet "are already covered by the controller
  rows above". ReplicaSets are not listed, so the pod of a ReplicaSet without a Deployment
  is in no row; `OneRowPerFamily` is about families whose head is of a listed kind.
- A plan without a hash is not compared with anything (`loader.go:68`), is never stamped, and its rollback
  takes the missing stamp for its own target state. `StampTruth`, `PlannedAndAsked`, `NoneForced` and
  `RollbackUndoes` leave such plans out and let them run beside the others.
- A rollback after an apply that failed half-way finds no stamp, reports `already-applied` and
  exits 0 while the patched workloads keep their class; the way out is to apply again first.
- `NoneForced` says "the scan saw a template that may be moved". The template may have
  changed since: `apply` looks at neither the pod spec nor the age of the plan.
- The evidence of `explain` can name more than what made a rule fire: the extractors of
  `workload.go` take any image with `cilium` in its name and capabilities in any case
  (`workload.go:289`, `:493`), the rules only three references and the exact case
  (`builtin_rules.go:207`, `:315`). `EvidenceForEveryFinding` asks that there is some. The
  other side of it is that an image with `cilium` in its name from elsewhere than these three references
  is compatible and planned, although `docs/compatibility-checklist.md:19` and `README.md:151` list the hint
  without exception; `PlansKeepOff` leaves those images out.
- `scanner.go:71-73` promises one row per controller. With a namespace named twice on the command line
  (`scanner.go:308`) there are two, and a plan has two steps for the workload; the second
  half of `OneRowPerFamily` says that this is the only way.
- A rollback takes a missing stamp for its own target state (`applier.go:217`), also when
  another plan's rollback deleted it: that is `rollback_already_true`, and it is the way out that the
  message of a skipped step recommends (`applier.go:230-232`). `RollbackUndoes` is about
  namespaces that carry a hash. Skipped steps, too, leave the exit code at 0.
- The gate passes a RuntimeClass that selects one EKS Auto Mode node and one
  Bottlerocket node and no other (`evaluate.go:218`), although `docs/exit-codes.md:13`
  lists "only EKS Auto Mode / Bottlerocket nodes" as blocking; `SingleCauseBlocks` asks for
  a single cause.
- A label selector is applied to each list, so a pod whose own labels match, and its
  controller's do not, is in no row either. `OneRowPerFamily` is about families that are in view as a
  whole.
- `StampEarned` says "was performed", not "is in force": the applier reads stamps
  once and never looks at the workloads, so a GitOps revert, an overlapping run or
  a crash can make a stamp outdated. `StampTruth` shows that turn-taking operators
  without faults are safe. One fault is enough to lose it: apply `q`; apply `p`, which shares a workload
  with `q`, dies after patching that workload and before stamping; the namespace still has
  `q`'s stamp, and the next apply of `q` reports the workload `already-applied` although it runs `p`'s class.
- Facts of a file are used as they are (`facts.go:61-94`); only `preflight` and the probe
  compute the verdicts on cards and drivers anew. `PlansKeepOff` says what follows for plans: on
  an outdated file, a GPU workload may be planned for a card this release does not support.
- The gate judges by the RuntimeClass's tolerations alone (`gate_advice`); an apply of a plan made
  with `--add-toleration` to a pool with the taint needs `--skip-preflight`. `BlockedRightly` is
  about plans that leave placement to the RuntimeClass.
- After exit code 0 of `verify`, pods of the old class may come back, made by a controller whose
  rollout has not got to them: the verifier looks at pods, not at the progress of the
  rollout. `ExitZeroMigrated` says which.
- The gate works on one count per obstacle. A pool in which every node has an
  obstacle, but not the same one, passes. `SingleCauseBlocks` states what the code
  does guarantee.
- `probe.go:77-78` says that two concurrent probes cannot both succeed. They can if
  somebody else deletes the pod in between, which is why `OwnAnswer` and `DeletesOwn`
  ask for no outside deletion. A creation whose answer is lost leaves a pod behind that only
  `activeDeadlineSeconds` ends and only an operator deletes.
- `verifier.go:191-193` says that the applier uses the same fallback for an empty
  class; `applyPatchBytes` (`patch.go:89-91`) refuses one instead.
- `verify` on a step whose pods have all completed, such as a CronJob between two
  jobs, ends in `error` and exit code 4. `EventuallyVerified` therefore asks for a
  live pod in every step.
- `verify` without the in-pod probe says `ok` of pods that are still pending;
  `ExitZeroSandboxed` is about `--in-pod-probe` only. It says "ran in this run": the pod
  may be gone by the time the others are probed.
- `Probe` does not model the errors of its first reads of the cluster, which end the run before
  there is a pod, and of the gate's findings only that no selected node is Ready. `Session` has
  no gate, so exit code 5 is not in its `ExitCode`.
- In `Verify`, targets of kind Pod, whose single pod is not filtered by
  `listPodsFiltered`, are left out; the planner emits no such steps.

## 7. Plan

Done: the applier with its abstract specification, sessions, the cycle from a scan through
the plan file to apply and rollback, the audit log with its abstract specification, gate, probe,
verifier, and the pipeline from the scan to the plan; and theorems for every invariant and action
property of the passing runs but `CondemnedForCause`.

1. Proofs: `RollbackUndoes` and `StampTruth` under weaker assumptions than the absence of faults, for instance for
   cycles in which only the last command may fail; `ApplyExitZero` for scripts in which a rollback that
   ended without a failure comes before an apply.
2. Planner: the hash of a plan is a function of its steps and options, and its converse, as lemmas.
3. Abstract specifications of the probe (a question and its answer) and of the verifier (a snapshot).
4. `Scan`: more than one change at a time, `assess` after a scan of the same workload, and a proof of
   `CondemnedForCause`.

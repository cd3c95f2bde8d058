--------------------------------- MODULE Verify --------------------------------
(***************************************************************************)
(* pkg/verifier: `agentmoat verify`, run by CI until it exits 0, while the  *)
(* controllers roll out what an apply has patched.  The verifier lists the  *)
(* live pods of one step at a time, and then judges that snapshot: the      *)
(* class in the pods' specs, the labels of the nodes they are on, and, when *)
(* asked to, what a command executed in one of them prints.                 *)
(***************************************************************************)
EXTENDS Naturals, FiniteSets, FiniteSetsExt

CONSTANTS
    NSteps,     \* steps of the plan, 1 .. NSteps, all applied before
    Names,      \* step |-> the names 1 .. k its pods can have
    N,          \* nodes 1 .. N, in name order
    Labelled,   \* the nodes the RuntimeClass nodeSelector matches at first
    Runsc,      \* the nodes that really run the class with runsc
    FirstPods,  \* pods, and NoPod, as a rollout may have them at first
    NoPod,
    MaxTrouble  \* faults (reads and exec calls that fail) and churn (relabelled
                \* or removed nodes, edits of the RuntimeClass, pods that are
                \* evicted or complete, rollouts that are undone), together

Step == 1 .. NSteps
Node == 1 .. N
Class == {"old", "expected"}
Pods == [class : Class, phase : {"Pending", "Running", "Ended"},
         node : 0 .. N, terminating : BOOLEAN]

ASSUME VerifyAssumption ==
    /\ NSteps \in Nat \ {0} /\ Names \in [Step -> SUBSET Nat]
    /\ N \in Nat /\ Labelled \subseteq Node /\ Runsc \subseteq Node
    /\ FirstPods \subseteq Pods \cup {NoPod}
    /\ MaxTrouble \in Nat

VARIABLES
    pods,       \* step |-> name |-> the pod: class, phase, terminating, node
    where,      \* node |-> in or out of the nodeSelector, or gone
    wanted,     \* step |-> name |-> the class its controller gives that pod next
    steered,    \* the RuntimeClass has a nodeSelector
    inPodProbe, \* --in-pod-probe
    pc, cur,    \* the verifier, and the step it is at
    snap,       \* the live pods of that step, as they were listed
    todo,       \* the nodes of the snapshot still to be judged
    rcMemo, nodeMemo,
    result,     \* step |-> its VerifyResult
    exit,       \* the exit code of the last run that has come to its end
    faults, churn,
    owed,       \* history, for the properties: step |-> the names its controller
                \* was to give the old class when the step was listed, or since
    boxed       \* history: steps that had a pod running under runsc in this run

cluster == <<pods, wanted, where, steered>>
history == <<owed, boxed>>
vars == <<cluster, inPodProbe, pc, cur, snap, todo, rcMemo, nodeMemo,
          result, exit, faults, churn, history>>

\* A pod's class is what the plan asks for, or whatever it was created with
\* before the apply.
Pod(class, phase, n) == [class |-> class, phase |-> phase, node |-> n,
                         terminating |-> FALSE]
Sandboxed(p) == p.class = "expected" /\ p.node \in Runsc
InSandbox == {s \in Step : \E i \in Names[s] : /\ pods[s][i] # NoPod
                                              /\ pods[s][i].phase = "Running"
                                              /\ Sandboxed(pods[s][i])}
Unverified == [status |-> "none", nodes |-> {}, checked |-> FALSE, mismatched |-> {}]

Init ==
    /\ pods \in {f \in [Step -> UNION {[Names[s] -> FirstPods] : s \in Step}] :
                   \A s \in Step : DOMAIN f[s] = Names[s]}
    /\ wanted \in {f \in [Step -> UNION {[Names[s] -> Class] : s \in Step}] :
          \A s \in Step : /\ DOMAIN f[s] = Names[s]
                          /\ \A i \in Names[s] : f[s][i] = "old" =>
                               pods[s][i] = NoPod \/ pods[s][i].class = "old"}
    /\ where = [n \in Node |-> IF n \in Labelled THEN "in" ELSE "out"]
    /\ steered = TRUE
    /\ inPodProbe \in BOOLEAN
    /\ pc = "idle" /\ cur = 1
    /\ snap = <<>> /\ todo = {}
    /\ rcMemo = "unread" /\ nodeMemo = [n \in Node |-> "unread"]
    /\ result = [s \in Step |-> Unverified]
    /\ exit = "none"
    /\ faults = 0 /\ churn = 0
    /\ owed = [s \in Step |-> {}]
    /\ boxed = InSandbox

Fault == faults + churn < MaxTrouble /\ faults' = faults + 1

-----------------------------------------------------------------------------
(* The verifier. *)

\* Verify: a new report and a new placementChecker.
Begin ==
    /\ pc = "idle" /\ exit # "zero"
    /\ pc' = "resolve" /\ cur' = 1
    /\ rcMemo' = "unread" /\ nodeMemo' = [n \in Node |-> "unread"]
    /\ result' = [s \in Step |-> Unverified]
    /\ exit' = "none"
    /\ owed' = [s \in Step |-> {}] /\ boxed' = InSandbox
    /\ UNCHANGED <<cluster, inPodProbe, snap, todo, faults, churn>>

Verdict(v) == result' = [result EXCEPT ![cur].status = v]
NextStep == pc' = "resolve" /\ cur' = cur + 1 /\ snap' = <<>> /\ todo' = {}

PodsOf(s, names) == [i \in names |-> pods[s][i]]
Existing(s) == {i \in Names[s] : pods[s][i] # NoPod}
\* mutant: every pod of the selector counts
AllPods(s) == PodsOf(s, Existing(s))
\* listPodsFiltered drops the terminating pods and those that have ended.
Alive(s) == PodsOf(s, {i \in Existing(s) : /\ ~pods[s][i].terminating
                                           /\ pods[s][i].phase # "Ended"})

\* mutant: the first pod is taken for all of them
FirstPodMatches(ps) == ps[Min(DOMAIN ps)].class = "expected"
SpecMatches(ps) == \A i \in DOMAIN ps : ps[i].class = "expected"

\* resolvePods and the comparison of the specs.
Resolve ==
    /\ pc = "resolve" /\ cur \in Step
    /\ \/ Fault /\ Verdict("error") /\ NextStep
          /\ UNCHANGED owed
       \/ LET ps == Alive(cur) IN
          /\ \/ DOMAIN ps = {} /\ Verdict("error") /\ NextStep /\ UNCHANGED owed
             \/ /\ DOMAIN ps # {} /\ ~SpecMatches(ps)
                /\ Verdict("mismatch") /\ NextStep /\ UNCHANGED owed
             \/ /\ DOMAIN ps # {} /\ SpecMatches(ps)
                /\ Verdict("ok")
                /\ snap' = ps /\ pc' = "runtimeClass" /\ UNCHANGED <<cur, todo>>
                /\ owed' = [owed EXCEPT
                              ![cur] = {i \in Names[cur] : wanted[cur][i] = "old"}]
          /\ UNCHANGED faults
    /\ UNCHANGED <<cluster, inPodProbe, rcMemo, nodeMemo, exit, churn, boxed>>

\* mutant: the empty node name of a pending pod is a node's
AllHostsOf(ps) == {ps[i].node : i \in DOMAIN ps}
\* distinctNodeNames: a pod that is not scheduled has no node.
HostsOf(ps) == {ps[i].node : i \in DOMAIN ps} \ {0}

\* The read, once per run, of the RuntimeClass.  With a class that is missing,
\* unreadable or without nodeSelector, or with no pod scheduled, the placement
\* is left unchecked.
ReadRuntimeClass ==
    /\ pc = "runtimeClass"
    /\ \/ rcMemo # "unread" /\ UNCHANGED <<rcMemo, faults>>
       \/ rcMemo = "unread" /\ Fault /\ rcMemo' = "problem"
       \/ /\ rcMemo = "unread"
          /\ rcMemo' = IF steered THEN "selector" ELSE "problem"
          /\ UNCHANGED faults
    /\ IF rcMemo' = "problem" \/ HostsOf(snap) = {}
       THEN pc' = "probe" /\ UNCHANGED <<result, todo>>
       ELSE /\ pc' = "nodes" /\ todo' = HostsOf(snap)
            /\ result' = [result EXCEPT ![cur].nodes = HostsOf(snap)]
    /\ UNCHANGED <<cluster, inPodProbe, cur, snap, nodeMemo, exit, churn, history>>

\* One node's labels against the selector.  A node that cannot be judged ends
\* the check; only a check that gets to its end can demote the step.
Judge(n, look) ==
    LET outside == result[cur].mismatched \cup (IF look = "out" THEN {n} ELSE {})
        last == todo = {n}
    IN  IF look \in {"gone", "problem"}
        THEN pc' = "probe" /\ todo' = {} /\ UNCHANGED result
        ELSE /\ todo' = todo \ {n}
             /\ pc' = IF last THEN "probe" ELSE "nodes"
             /\ result' = [result EXCEPT
                  ![cur].mismatched = outside,
                  ![cur].checked = last,
                  ![cur].status = IF last /\ outside # {} THEN "mismatch" ELSE @]

Forget(n, look) == UNCHANGED nodeMemo \* mutant: nothing is memoized
Remember(n, look) == nodeMemo' = [nodeMemo EXCEPT ![n] = look]

\* The next node in name order, read once per run.
ReadNode ==
    /\ pc = "nodes"
    /\ \E n \in todo :
         /\ \A m \in todo : n <= m
         /\ \/ /\ nodeMemo[n] # "unread" /\ Judge(n, nodeMemo[n])
               /\ UNCHANGED <<nodeMemo, faults>>
            \/ /\ nodeMemo[n] = "unread" /\ Fault
               /\ Judge(n, "problem") /\ Remember(n, "problem")
            \/ /\ nodeMemo[n] = "unread" /\ UNCHANGED faults
               /\ Judge(n, where[n]) /\ Remember(n, where[n])
    /\ UNCHANGED <<cluster, inPodProbe, cur, snap, rcMemo, exit, churn, history>>

Running(ps) == {i \in DOMAIN ps : ps[i].phase = "Running"}

\* mutant: output without the marker is no verdict
OutputIgnored(p) == "ok"
ProbeVerdict(p) == IF Sandboxed(p) THEN "ok" ELSE "mismatch"

\* applyProbeResult: exec in the first pod that was listed as Running, in
\* whatever has that name now.
ExecProbe ==
    /\ pc = "probe" /\ inPodProbe /\ result[cur].status = "ok"
    /\ \/ Running(snap) = {} /\ Verdict("error") /\ UNCHANGED faults
       \/ Running(snap) # {} /\ Fault /\ Verdict("error")
       \/ /\ Running(snap) # {} /\ UNCHANGED faults
          /\ LET p == pods[cur][Min(Running(snap))] IN
             IF p = NoPod THEN Verdict("error")
             ELSE IF p.phase # "Running" THEN Verdict("error")
             ELSE Verdict(ProbeVerdict(p))
    /\ NextStep
    /\ UNCHANGED <<cluster, inPodProbe, rcMemo, nodeMemo, exit, churn, history>>

\* No probe was asked for, or the step has its verdict.
SkipProbe ==
    /\ pc = "probe" /\ ~(inPodProbe /\ result[cur].status = "ok")
    /\ NextStep
    /\ UNCHANGED <<cluster, inPodProbe, rcMemo, nodeMemo, result, exit, faults, churn,
                   history>>

\* summariseResults, and the exit code: 4 as soon as one step is not ok.
Report ==
    /\ pc = "resolve" /\ cur \notin Step
    /\ pc' = "idle"
    /\ exit' = IF \A s \in Step : result[s].status = "ok" THEN "zero" ELSE "four"
    /\ UNCHANGED <<cluster, inPodProbe, cur, snap, todo, rcMemo, nodeMemo, result,
                   faults, churn, history>>

Verifier == \/ Begin \/ Resolve \/ ReadRuntimeClass \/ ReadNode \/ ExecProbe
            \/ SkipProbe \/ Report

-----------------------------------------------------------------------------
(* The controllers, the kubelets and the administrators. *)

VerifierUnchanged == UNCHANGED <<inPodProbe, pc, cur, snap, todo, rcMemo, nodeMemo,
                                 result, exit, faults>>
\* The pods that run, or are to run.
Live(s) == {i \in Existing(s) : /\ pods[s][i].phase \in {"Pending", "Running"}
                                /\ ~pods[s][i].terminating}
SetPod(s, i, p) == pods' = [pods EXCEPT ![s][i] = p]

\* The controller replaces the pods that are not of the class it wants, and
\* pods whose node is gone are garbage.
Replace(s, i) ==
    /\ i \in Live(s)
    /\ \/ pods[s][i].class # wanted[s][i]
       \/ pods[s][i].node # 0 /\ where[pods[s][i].node] = "gone"
    /\ SetPod(s, i, [pods[s][i] EXCEPT !.terminating = TRUE])
    /\ VerifierUnchanged /\ UNCHANGED <<wanted, where, steered, churn, history>>

Removed(s, i) ==
    /\ i \in Existing(s) /\ pods[s][i].terminating
    /\ SetPod(s, i, NoPod)
    /\ VerifierUnchanged /\ UNCHANGED <<wanted, where, steered, churn, history>>

\* A completed pod is cleaned up at some time, or never.
CleanUp(s, i) ==
    /\ i \in Existing(s) /\ pods[s][i].phase = "Ended"
    /\ SetPod(s, i, NoPod)
    /\ VerifierUnchanged /\ UNCHANGED <<wanted, where, steered, churn, history>>

\* The rollout gets to a pod: the old ReplicaSet is scaled down, the partition of
\* the StatefulSet lowered, the Job that was made before the apply is over.
MoveOn(s, i) ==
    /\ i \in Names[s] /\ wanted[s][i] = "old"
    /\ wanted' = [wanted EXCEPT ![s][i] = "expected"]
    /\ VerifierUnchanged /\ UNCHANGED <<pods, where, steered, churn, history>>

\* A pod of the patched template, or, where the rollout has not got to, once more
\* one of the old: by the old ReplicaSet, below the partition, by a Job's retry.
Create(s, i) ==
    /\ i \in Names[s] /\ pods[s][i] = NoPod
    /\ SetPod(s, i, Pod(wanted[s][i], "Pending", 0))
    /\ VerifierUnchanged /\ UNCHANGED <<wanted, where, steered, churn, history>>

\* The RuntimeClass nodeSelector, if there is one, steers a pod that has the class.
Schedule(s, i) ==
    /\ i \in Existing(s) /\ pods[s][i].phase = "Pending"
    /\ \E n \in Node :
         /\ \/ where[n] = "in"
            \/ where[n] = "out" /\ (~steered \/ pods[s][i].class = "old")
         /\ SetPod(s, i, [pods[s][i] EXCEPT !.phase = "Running", !.node = n])
    /\ boxed' = boxed \cup InSandbox'
    /\ VerifierUnchanged /\ UNCHANGED <<wanted, where, steered, churn, owed>>

Rollout(s, i) == \/ Replace(s, i) \/ Removed(s, i) \/ CleanUp(s, i) \/ MoveOn(s, i)
                 \/ Create(s, i) \/ Schedule(s, i)

Churn == faults + churn < MaxTrouble /\ churn' = churn + 1
NodeChanges ==
    /\ Churn
    /\ \E n \in Node, w \in {"in", "out", "gone"} :
         w # where[n] /\ where' = [where EXCEPT ![n] = w]
    /\ VerifierUnchanged /\ UNCHANGED <<pods, wanted, steered, history>>
RuntimeClassChanges ==
    /\ Churn
    /\ steered' = ~steered
    /\ VerifierUnchanged /\ UNCHANGED <<pods, wanted, where, history>>
Evict(s, i) ==
    /\ Churn
    /\ i \in Live(s)
    /\ SetPod(s, i, [pods[s][i] EXCEPT !.terminating = TRUE])
    /\ VerifierUnchanged /\ UNCHANGED <<wanted, where, steered, history>>

\* A pod of a Job is done, or any pod fails.
Complete(s, i) ==
    /\ Churn
    /\ i \in Existing(s) /\ pods[s][i].phase = "Running"
    /\ SetPod(s, i, [pods[s][i] EXCEPT !.phase = "Ended"])
    /\ VerifierUnchanged /\ UNCHANGED <<wanted, where, steered, history>>

\* Somebody rolls the template back for this pod.
Undo(s, i) ==
    /\ Churn
    /\ i \in Names[s] /\ wanted[s][i] = "expected"
    /\ wanted' = [wanted EXCEPT ![s][i] = "old"]
    /\ owed' = [owed EXCEPT ![s] = @ \cup {i}]
    /\ VerifierUnchanged /\ UNCHANGED <<pods, where, steered, boxed>>

Disturbed(s, i) == Evict(s, i) \/ Complete(s, i) \/ Undo(s, i)

Next ==
    \/ Verifier
    \/ \E s \in Step : \E i \in Names[s] : Rollout(s, i) \/ Disturbed(s, i)
    \/ NodeChanges \/ RuntimeClassChanges

\* API calls return and CI tries again, and the controllers get on with what they
\* want.  Nobody has to clean up what has ended or to let a rollout move on.
Fairness ==
    /\ WF_vars(Verifier)
    /\ \A s \in Step : \A i \in Names[s] :
         /\ WF_vars(Replace(s, i)) /\ WF_vars(Removed(s, i))
         /\ WF_vars(Create(s, i)) /\ WF_vars(Schedule(s, i))

Spec == Init /\ [][Next]_vars /\ Fairness

-----------------------------------------------------------------------------
(* Properties. *)

\* The verifier's variables and the cluster's have their types, the verifier is
\* at a step while it judges one, and what it still has to judge is in the
\* snapshot.
TypeOK ==
    /\ DOMAIN pods = Step /\ DOMAIN wanted = Step
    /\ \A s \in Step : /\ pods[s] \in [Names[s] -> Pods \cup {NoPod}]
                       /\ wanted[s] \in [Names[s] -> Class]
    /\ where \in [Node -> {"in", "out", "gone"}]
    /\ steered \in BOOLEAN /\ inPodProbe \in BOOLEAN
    /\ pc \in {"idle", "resolve", "runtimeClass", "nodes", "probe"}
    /\ cur \in 1 .. NSteps + 1
    /\ pc \in {"runtimeClass", "nodes", "probe"} =>
         cur \in Step /\ DOMAIN snap # {} /\ DOMAIN snap \subseteq Names[cur]
    /\ \A i \in DOMAIN snap : snap[i] \in Pods
    /\ todo \subseteq HostsOf(snap) /\ (pc = "nodes" <=> todo # {})
    /\ rcMemo \in {"unread", "selector", "problem"}
    /\ nodeMemo \in [Node -> {"unread", "in", "out", "gone", "problem"}]
    /\ result \in [Step -> [status : {"none", "ok", "mismatch", "error"},
                            nodes : SUBSET Node, checked : BOOLEAN,
                            mismatched : SUBSET Node]]
    /\ exit \in {"none", "zero", "four"}
    /\ faults \in Nat /\ churn \in Nat /\ faults + churn <= MaxTrouble
    /\ DOMAIN owed = Step /\ \A s \in Step : owed[s] \subseteq Names[s]
    /\ boxed \subseteq Step

\* Exit code 0, at the end of the run and from then on: a live pod on the old
\* class is one that the controller still had to make when the verifier listed
\* the step, or was told to make since.  Nothing that was live when its step was
\* listed is overlooked, although every step is listed at a time of its own and
\* the rollouts go on meanwhile; a step whose rollout was over is on the class
\* for good.
ExitZeroMigrated ==
    exit = "zero" =>
      \A s \in Step : \A i \in Live(s) : pods[s][i].class = "old" => i \in owed[s]

\* With --in-pod-probe, exit code 0 means that runsc did run a pod of every step
\* since the run began, whatever the selector lets through, and whatever came
\* under the name of the pod between the list and the exec.
ExitZeroSandboxed == exit = "zero" /\ inPodProbe => boxed = Step

\* One report does not contradict itself: steps on the same nodes get the same
\* placement, however the nodes are relabelled while the verifier walks.
SamePlacement ==
    \A s, t \in Step :
      /\ s < cur /\ t < cur
      /\ result[s].nodes = result[t].nodes
      => result[s].mismatched = result[t].mismatched

Healthy ==
    /\ \E n \in Node : where[n] = "in"
    /\ \A s \in Step :
         /\ Live(s) # {}
         /\ \A i \in Names[s] : wanted[s][i] = "expected"
         /\ \A i \in Live(s) : LET n == pods[s][i].node IN
              n # 0 => n \in Runsc /\ where[n] = "in"
\* When from some time on a node is there to run the pods on, the rollouts have
\* moved on to every pod, every step has a live pod and none is on a node without
\* gVisor, CI sees exit code 0: neither
\* the old pods that terminate nor completed ones that are never cleaned up
\* keep the verdict from turning, nor does a failed read of an earlier run.
EventuallyVerified == <>[]Healthy => <>(exit = "zero")

\* docs/preflight.md: "A node outside the selector demotes the step to
\* `mismatch`."
MismatchedNodeDemotes ==
    \A s \in Step : s < cur /\ result[s].mismatched # {} => result[s].status = "mismatch"
=============================================================================

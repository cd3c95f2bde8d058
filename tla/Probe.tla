--------------------------------- MODULE Probe ---------------------------------
(***************************************************************************)
(* pkg/probe: `agentmoat probe nvproxy`.  Every invocation uses the same    *)
(* pod name in the same namespace: it creates the pod, polls it, reads its  *)
(* log and deletes it, each time BY NAME, while other invocations do the    *)
(* same, people and controllers delete pods, and processes are killed.      *)
(***************************************************************************)
EXTENDS Naturals, FiniteSets

CONSTANTS
    Run,        \* invocations of the probe
    N,          \* nodes 1 .. N, in name order
    Selected,   \* the nodes the RuntimeClass nodeSelector matches
    Gpu,        \* the nodes with GPUs
    NoPod,
    MaxFaults,  \* API refusals, lost answers, cancellations, crashes
    MaxDeletes, \* deletions of the pod by anyone but the probe
    MaxChurn    \* changes of a node's readiness

Node == 1 .. N

ASSUME ProbeAssumption ==
    /\ N \in Nat /\ Selected \subseteq Node /\ Gpu \subseteq Node
    /\ MaxFaults \in Nat /\ MaxDeletes \in Nat /\ MaxChurn \in Nat

VARIABLES
    ready,      \* the nodes whose Ready condition is True
    pod,        \* the pod of that name: its creator, node, phase, terminating
    pc, node,   \* an invocation: where it stands, the node it picked
    late,       \* its --timeout is over
    phase,      \* the terminal phase it saw the pod in
    read,       \* whose pod it read the log of, and on which node
    outcome,
    faults, deletes, churn

vars == <<ready, pod, pc, node, late, phase, read, outcome, faults, deletes, churn>>
bounds == <<faults, deletes, churn>>

Live  == {"Pending", "Running"}
Ended == {"done", "undeleted", "error", "crashed"}
Pods == [creator : Run, node : Node, phase : Live \cup {"Succeeded", "Failed"},
         terminating : BOOLEAN]

ASSUME NoPodAssumption == NoPod \notin Pods

Init ==
    /\ ready \in SUBSET Node
    /\ pod = NoPod
    /\ pc = [r \in Run |-> "preflight"]
    /\ node = [r \in Run |-> 0]
    /\ late = [r \in Run |-> FALSE]
    /\ phase = [r \in Run |-> "none"]
    /\ read = [r \in Run |-> NoPod]
    /\ outcome = [r \in Run |-> "none"]
    /\ faults = 0 /\ deletes = 0 /\ churn = 0

Fault == faults < MaxFaults /\ faults' = faults + 1
Goto(r, l) == pc' = [pc EXCEPT ![r] = l]
Outcome(r, o) == outcome' = [outcome EXCEPT ![r] = o]

Candidates == ready \cap Selected
\* GPU nodes first, then name order.
Preferred(n, m) == \/ n \in Gpu /\ m \notin Gpu
                   \/ (n \in Gpu <=> m \in Gpu) /\ n <= m

\* preflight.Collect and Evaluate, here only what they say of Ready nodes.
CheckCluster(r) ==
    /\ pc[r] = "preflight"
    /\ IF Candidates = {} THEN Goto(r, "done") /\ Outcome(r, "skipped")
                          ELSE Goto(r, "pick") /\ UNCHANGED outcome
    /\ UNCHANGED <<ready, pod, node, late, phase, read, bounds>>

\* mutant: the Ready nodes are not held against the RuntimeClass nodeSelector
PickAnyReady(r) ==
    /\ pc[r] = "pick"
    /\ \E n \in ready :
         /\ \A m \in ready : Preferred(n, m)
         /\ node' = [node EXCEPT ![r] = n]
         /\ Goto(r, "create")
    /\ UNCHANGED <<ready, pod, late, phase, read, outcome, bounds>>
\* pickNode lists the nodes again; with --dry-run, the default, the choice is
\* all the run reports.
PickNode(r) ==
    /\ pc[r] = "pick"
    /\ \/ /\ Candidates = {}
          /\ Goto(r, "error")
          /\ UNCHANGED <<node, outcome>>
       \/ \E n \in Candidates :
            /\ \A m \in Candidates : Preferred(n, m)
            /\ node' = [node EXCEPT ![r] = n]
            /\ \/ Goto(r, "done") /\ Outcome(r, "dry-run")
               \/ Goto(r, "create") /\ UNCHANGED outcome
    /\ UNCHANGED <<ready, pod, late, phase, read, bounds>>

NewPod(r) == [creator |-> r, node |-> node[r], phase |-> "Pending",
              terminating |-> FALSE]

\* mutant: a pod of that name is taken for the one asked for
AdoptPod(r) ==
    /\ pc[r] = "create"
    /\ pod' = IF pod = NoPod THEN NewPod(r) ELSE pod
    /\ Goto(r, "wait")
    /\ UNCHANGED <<ready, node, late, phase, read, outcome, bounds>>
\* mutant: the deferred deletion is registered before Create is called
DeferFirst(r) ==
    /\ pc[r] = "create"
    /\ IF pod = NoPod THEN pod' = NewPod(r) /\ Goto(r, "wait")
                      ELSE Goto(r, "delete") /\ UNCHANGED pod
    /\ UNCHANGED <<ready, node, late, phase, read, outcome, bounds>>
\* Created; created but the answer is lost; refused; or the name is taken.  An
\* error here ends the run BEFORE the deletion is deferred.
CreatePod(r) ==
    /\ pc[r] = "create"
    /\ \/ pod = NoPod /\ pod' = NewPod(r) /\ Goto(r, "wait") /\ UNCHANGED faults
       \/ pod = NoPod /\ pod' = NewPod(r) /\ Goto(r, "error") /\ Fault
       \/ Goto(r, "error") /\ Fault /\ UNCHANGED pod
       \/ pod # NoPod /\ Goto(r, "error") /\ UNCHANGED <<pod, faults>>
    /\ UNCHANGED <<ready, node, late, phase, read, outcome, deletes, churn>>

Fails(r) == Goto(r, "delete") /\ Outcome(r, "failed")

\* mutant: the deadline is never looked at
PollForever(r) ==
    /\ pc[r] = "wait"
    /\ \/ /\ pod = NoPod
          /\ Fails(r) /\ UNCHANGED phase
       \/ /\ pod # NoPod /\ pod.phase \notin Live
          /\ phase' = [phase EXCEPT ![r] = pod.phase]
          /\ Goto(r, "log") /\ UNCHANGED outcome
    /\ UNCHANGED <<ready, pod, node, late, read, bounds>>
\* mutant: an early return of the wait skips the deletion
ReturnEarly(r) ==
    /\ pc[r] = "wait"
    /\ \/ /\ late[r]
          /\ Goto(r, "done") /\ Outcome(r, "failed") /\ UNCHANGED phase
       \/ /\ pod # NoPod /\ pod.phase \notin Live
          /\ phase' = [phase EXCEPT ![r] = pod.phase]
          /\ Goto(r, "log") /\ UNCHANGED outcome
    /\ UNCHANGED <<ready, pod, node, late, read, bounds>>
\* waitForCompletion: one GET.  It ends the wait when the pod is gone, the call
\* fails or the context is cancelled, the pod has ended, or time is up.
Poll(r) ==
    /\ pc[r] = "wait"
    /\ \/ /\ pod = NoPod
          /\ Fails(r) /\ UNCHANGED <<phase, faults>>
       \/ /\ Fault
          /\ Fails(r) /\ UNCHANGED phase
       \/ /\ pod # NoPod /\ pod.phase \notin Live
          /\ phase' = [phase EXCEPT ![r] = pod.phase]
          /\ Goto(r, "log") /\ UNCHANGED <<outcome, faults>>
       \/ /\ pod # NoPod /\ pod.phase \in Live /\ late[r]
          /\ Fails(r) /\ UNCHANGED <<phase, faults>>
    /\ UNCHANGED <<ready, pod, node, late, read, deletes, churn>>

From(p) == [creator |-> p.creator, node |-> p.node]
\* The log of the pod that has the name now; only a pod that succeeded printed
\* a version and a driver list, and even its output may fail to parse.
ReadLog(r) ==
    /\ pc[r] = "log"
    /\ Goto(r, "delete")
    /\ \/ pod = NoPod /\ Outcome(r, "failed") /\ UNCHANGED <<read, faults>>
       \/ Fault /\ Outcome(r, "failed") /\ UNCHANGED read
       \/ /\ pod # NoPod
          /\ read' = [read EXCEPT ![r] = From(pod)]
          /\ \/ Outcome(r, "failed")
             \/ /\ phase[r] = "Succeeded" /\ pod.phase = "Succeeded"
                /\ Outcome(r, "succeeded")
          /\ UNCHANGED faults
    /\ UNCHANGED <<ready, pod, node, late, phase, deletes, churn>>

Terminate == pod' = IF pod = NoPod THEN NoPod ELSE [pod EXCEPT !.terminating = TRUE]

\* The deferred DELETE, by name, its error ignored.
DeletePod(r) ==
    /\ pc[r] = "delete"
    /\ \/ Terminate /\ Goto(r, "done") /\ UNCHANGED faults
       \/ Fault /\ Goto(r, "undeleted") /\ UNCHANGED pod
    /\ UNCHANGED <<ready, node, late, phase, read, outcome, deletes, churn>>

\* The clock reaches the deadline of the wait.
Timeout(r) ==
    /\ pc[r] = "wait" /\ ~late[r]
    /\ late' = [late EXCEPT ![r] = TRUE]
    /\ UNCHANGED <<ready, pod, pc, node, phase, read, outcome, bounds>>

\* A signal ends the process: no deferred call runs.
Crash(r) ==
    /\ pc[r] \notin Ended
    /\ Fault
    /\ Goto(r, "crashed")
    /\ UNCHANGED <<ready, pod, node, late, phase, read, outcome, deletes, churn>>

-----------------------------------------------------------------------------
(* The kubelet, and everyone else. *)

PodsUnchanged == UNCHANGED <<ready, pc, node, late, phase, read, outcome>>
InPhase(ph) == pod # NoPod /\ pod.phase \in ph
KubeletUp == pod # NoPod /\ pod.node \in ready
SetPhase(ph) == pod' = [pod EXCEPT !.phase = ph]

\* The image is pulled, or is not: nothing makes the pod run or end.
PodProgress ==
    /\ KubeletUp
    /\ \/ InPhase({"Pending"}) /\ SetPhase("Running")
       \/ InPhase({"Running"}) /\ \E ph \in {"Succeeded", "Failed"} : SetPhase(ph)
    /\ PodsUnchanged /\ UNCHANGED bounds

NoDeadline == FALSE /\ UNCHANGED vars \* mutant: the field is not set
\* activeDeadlineSeconds, half a minute beyond the creator's own timeout: its
\* wait is over by then.
ActiveDeadline ==
    /\ KubeletUp /\ InPhase(Live)
    /\ pc[pod.creator] = "wait" => late[pod.creator]
    /\ SetPhase("Failed")
    /\ PodsUnchanged /\ UNCHANGED bounds

PodRemoved ==
    /\ KubeletUp /\ pod.terminating
    /\ pod' = NoPod
    /\ PodsUnchanged /\ UNCHANGED bounds

\* An operator who is told to "delete it and re-run", an eviction, pod GC.
OutsideDelete ==
    /\ pod # NoPod /\ ~pod.terminating
    /\ deletes < MaxDeletes /\ deletes' = deletes + 1
    /\ Terminate
    /\ PodsUnchanged /\ UNCHANGED <<faults, churn>>

NodeChanges(n) ==
    /\ churn < MaxChurn /\ churn' = churn + 1
    /\ ready' = IF n \in ready THEN ready \ {n} ELSE ready \cup {n}
    /\ UNCHANGED <<pod, pc, node, late, phase, read, outcome, faults, deletes>>

Proceed(r) == \/ CheckCluster(r) \/ PickNode(r) \/ CreatePod(r) \/ Poll(r)
              \/ ReadLog(r) \/ DeletePod(r)

Next ==
    \/ \E r \in Run : Proceed(r) \/ Timeout(r) \/ Crash(r)
    \/ PodProgress \/ ActiveDeadline \/ PodRemoved \/ OutsideDelete
    \/ \E n \in Node : NodeChanges(n)

\* Calls return, clocks advance, and the kubelet of a Ready node enforces
\* deadlines and removes terminating pods.  Nothing makes the pod itself run.
Fairness == /\ \A r \in Run : WF_vars(Proceed(r)) /\ WF_vars(Timeout(r))
            /\ WF_vars(ActiveDeadline) /\ WF_vars(PodRemoved)

Spec == Init /\ [][Next]_vars /\ Fairness

-----------------------------------------------------------------------------
(* Properties. *)

\* The variables have their types, and a run with a pod has picked a node.
TypeOK ==
    /\ ready \subseteq Node
    /\ pod \in Pods \cup {NoPod}
    /\ pc \in [Run -> Ended \cup {"preflight", "pick", "create", "wait", "log", "delete"}]
    /\ node \in [Run -> 0 .. N]
    /\ late \in [Run -> BOOLEAN]
    /\ phase \in [Run -> {"none", "Succeeded", "Failed"}]
    /\ read \in [Run -> [creator : Run, node : Node] \cup {NoPod}]
    /\ outcome \in [Run -> {"none", "skipped", "dry-run", "failed", "succeeded"}]
    /\ \A r \in Run : pc[r] \in {"create", "wait", "log", "delete"} => node[r] \in Selected

\* As long as nobody else deletes the pod, a probe that reports an answer read
\* it from the pod it created itself, on the node it names, however probes
\* overlap and whatever a killed one left behind: a driver list is never
\* attributed to a node it does not come from.
OwnAnswer ==
    deletes = 0 =>
      \A r \in Run : outcome[r] = "succeeded" =>
        read[r] = [creator |-> r, node |-> node[r]]

\* "Is deleted when the probe finishes, success or not": the pod of a run that
\* has come to its end is gone or on its way out, whichever of its calls failed
\* in between, unless the process was killed, the answer of the creation was
\* lost or the deletion itself failed.
NoLeftover ==
    pod # NoPod /\ pc[pod.creator] = "done" => pod.terminating

\* As long as nobody else deletes the pod, a probe never deletes the pod of
\* another one: deleting by name is as good as by UID.
DeletesOwn ==
    [][\A r \in Run :
          DeletePod(r) /\ pod # NoPod /\ pod' # pod /\ deletes = 0
          => pod.creator = r]_vars

\* A probe comes to an end, also when its pod never runs.
ProbeEnds == \A r \in Run : <>(pc[r] \in Ended)

\* The pod does not stay alive for ever, also when the probe that created it is
\* gone, unless its node is.
PodStops == InPhase(Live) ~> ~InPhase(Live) \/ ~KubeletUp
=============================================================================

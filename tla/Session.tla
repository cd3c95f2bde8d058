------------------------------- MODULE Session -------------------------------
(***************************************************************************)
(* One operator (or CI job) at a terminal: a script of apply and rollback   *)
(* commands on one plan, run one after the other, each to its end, and what *)
(* the exit codes of cmd/agentmoat tell her.  "Idempotent re-run is safe":  *)
(* a script that repeats a command is a re-run after a partial outcome.     *)
(***************************************************************************)
EXTENDS Applier

CONSTANT Script     \* Script[k]: the k-th command, "apply" or "rollback"

ASSUME ScriptAssumption == Script \in Seq({"apply", "rollback"})

\* The invocations are the commands of the script, all on one hashed plan.
\* (No assumption of this module: ApplierProofs extends it, and its other
\* theorems are about any invocations and any plans.)
ScriptFits ==
    /\ Run = 1 .. Len(Script)
    /\ \E p \in Plan : Plan = {p}
    /\ \A p \in Plan : Hash[p] # NoStamp

\* Scripts in which no apply follows a rollback, and plans with a step for each
\* workload, as the planner writes them.
AppliesFirst ==
    \A i, j \in Run : i < j /\ Script[j] = "apply" => Script[i] = "apply"
OneStepEach ==
    \A p \in Plan : \A i, j \in Index(p) :
        Steps[p][i].target = Steps[p][j].target => i = j

SessionInit ==
    /\ Init
    /\ op = [r \in Run |-> Script[r]]
    /\ dry = [r \in Run |-> FALSE]

\* The next command is typed once the previous one has come to an end.
InTurn(r) == \A q \in Run : q < r => pc[q] \in Ended

SessionNext ==
    \E r \in Run : InTurn(r) /\ (Start(r) \/ Proceed(r) \/ Crash(r))

\* A command is eventually typed, and a process not killed keeps running.
SessionFairness ==
    \A r \in Run : WF_vars(InTurn(r) /\ Start(r)) /\ WF_vars(Proceed(r))

SessionSpec == SessionInit /\ [][SessionNext]_vars /\ SessionFairness

-----------------------------------------------------------------------------
Reported(r, status) == \E k \in 1 .. Walked(r) : results[r][k] = status

\* The shell's view: 1 when the run aborted, or every step failed; 3 when some
\* failed; 0 otherwise, skipped steps included.
ExitCode(r) ==
    CASE pc[r] = "error"                           -> 1
      [] pc[r] = "done" /\ ~Reported(r, "failed")  -> 0
      [] pc[r] = "done" /\ Reported(r, "failed")   ->
           IF Reported(r, "applied") \/ Reported(r, "already-applied") THEN 3
                                                                       ELSE 1

\* r is the last command that was run, it came to an end and exited with 0.
Succeeded(r) == /\ pc[r] = "done"
                /\ ExitCode(r) = 0
                /\ \A q \in Run : q > r => pc[q] = "idle"

InForceEverywhere == \A p \in Plan, n \in Namespace : InForce(p, n)
Withdrawn == \A w \in Workload : class[w] = NoClass
Stamped   == \A p \in Plan : \A n \in AffectedNamespaces(p) : stamp[n] = Hash[p]
Unstamped == \A p \in Plan : \A n \in AffectedNamespaces(p) : stamp[n] = NoStamp

(* Properties. *)

\* An apply that exits with 0 leaves the cluster as the plan requests, even
\* when calls of this or of an earlier apply failed, or their answers were
\* lost, or an earlier apply was killed half-way.
ApplyExitZero ==
    \A r \in Run : op[r] = "apply" /\ Succeeded(r) => InForceEverywhere

\* Repeating apply converges: with one apply more than there are faults, the
\* whole plan gets in force and stamped before anything is rolled back.
ApplyConverges == <>(InForceEverywhere /\ Stamped)

\* Once the plan is in force and stamped, repeating rollback converges: with
\* one rollback more than there are faults every class is withdrawn and every
\* stamp cleared, whatever part of the work the failed ones had done.
RollbackConverges == (InForceEverywhere /\ Stamped) ~> [](Withdrawn /\ Unstamped)

=============================================================================

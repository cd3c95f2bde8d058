-------------------------------- MODULE Ledger --------------------------------
(***************************************************************************)
(* What the plan-hash annotation promises, without runs, calls or failures: *)
(* a ledger of performed steps, and a seal on each namespace.  A seal is set*)
(* only over completed work, replaces any other seal, and may be broken at  *)
(* any time.  Applier implements it (ApplierLedger).                        *)
(***************************************************************************)
EXTENDS Naturals

CONSTANTS Plan, Namespace, NoStamp,
          Hash,     \* Hash[p]: the seal of plan p, NoStamp if it has none
          Part      \* Part[p][n]: the numbers of p's steps in namespace n

VARIABLES landed,   \* <<p, i>>: step i of plan p was performed
          stamp     \* stamp[n]: the seal of n

LedgerInit == /\ landed = {}
              /\ stamp = [n \in Namespace |-> NoStamp]

\* One step of one plan is performed, for the first time or again.
Land(p, i) == /\ landed' = landed \cup {<<p, i>>}
              /\ UNCHANGED stamp

\* A namespace gets a plan's seal when all of the plan's steps in it landed.
Seal(p, n) == /\ \A i \in Part[p][n] : <<p, i>> \in landed
              /\ stamp' = [stamp EXCEPT ![n] = Hash[p]]
              /\ UNCHANGED landed

\* A namespace loses its seal: rolled back, deleted, or under a plan that has
\* no hash to seal it with.
Break(n) == /\ stamp' = [stamp EXCEPT ![n] = NoStamp]
            /\ UNCHANGED landed

LedgerNext ==
    \/ \E p \in Plan, n \in Namespace : \E i \in Part[p][n] : Land(p, i)
    \/ \E p \in Plan, n \in Namespace : Seal(p, n)
    \/ \E n \in Namespace : Break(n)

LedgerSpec == LedgerInit /\ [][LedgerNext]_<<landed, stamp>>
=============================================================================

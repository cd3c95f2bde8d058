-------------------------------- MODULE MCVerify -------------------------------
(* Two steps: a rollout of two pods, and one of a single pod. *)
EXTENDS Verify

MCNames == <<{1, 2}, {1}>>
\* For the run that only looks at the placement: one step of two pods.
MCOneStep == <<{1, 2}>>

\* A pod of the old template, or of the new one, on a labelled node or pinned to
\* another.
MCFirstPods == {Pod("old", "Running", 1),
                Pod("expected", "Running", 1), Pod("expected", "Running", 2)}
=============================================================================

----------------------------- MODULE MCRunPipeline -----------------------------
(* A small work tree for RunPipeline. *)
EXTENDS RunPipeline

CONSTANTS p, d, n, qn, here, there

\* The free file n has a space in its name: git status quotes it, git diff does not.
StatusName == [f \in {p, d, n} |-> IF f = n THEN qn ELSE f]
DiffName == [f \in {p, d, n} |-> f]

\* What a blank task and the proposal options change does not depend on the tree:
\* they are explored in runs nobody disturbs.
Few == ~quiet => task # "blank" /\ ~options.citizen_one /\ ~options.proposal_stub

=============================================================================

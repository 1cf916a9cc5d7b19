------------------------------ MODULE MCMediation ------------------------------
(* Files, attempts and an executor's claims for Mediation. *)
EXTENDS Mediation

CONSTANTS r1, r2, w, New, Old, Out, Other, Loud, Quiet

MCTarget == {New, Old, Out, Other, Omitted, RunJson, ManifestJson, EvidenceJson}

MCHome == [t \in MCTarget |-> CASE t = Out -> None [] t = Other -> r2 [] OTHER -> r1]

Asked(t, c) == [target |-> t, claims |-> c]

\* None, one of each kind, and two in either order.
MCAttempts ==
    {<<>>} \cup {<<Asked(t, c)>> : t \in {New, Old, Out, Other}, c \in BOOLEAN}
    \cup {<<Asked(t, TRUE), Asked(u, FALSE)>> : t \in {New, Out}, u \in {New, Out}}

\* Threads and the saver share files and the ledger, and what a thread can do to
\* those an outside program can do: they are explored one beside a few writes
\* from outside, the other alone.  What was written steers no thread: after a
\* thread's first write nothing more is looked for.
Apart ==
    \/ /\ pc = "collect" /\ events = <<>> /\ seen = None /\ outside = 0
       /\ ledger = <<>> /\ \A t \in Reach : content[t] \in {None, "old"}
    \/ made = {} /\ sink = [p \in Thread |-> None] /\ open = [p \in Thread |-> <<>>]

=============================================================================

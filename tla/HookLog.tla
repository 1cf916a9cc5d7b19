------------------------------ MODULE HookLog -------------------------------
(***************************************************************************)
(* What hook_ledger.py calls its ledger: append-only records.  Entries are *)
(* only ever added, one at a time, at the end, and never twice.            *)
(***************************************************************************)
EXTENDS Naturals, Sequences

CONSTANT Id    \* what identifies an entry

VARIABLES log,
          untouched    \* nobody else has changed the file

Init == log = <<>> /\ untouched = TRUE

Record(h) ==
  /\ \A i \in 1..Len(log) : log[i] # h
  /\ log' = Append(log, h)

(* Of a file that somebody else has changed nothing is promised. *)
Next ==
  \/ untouched /\ untouched' /\ \E h \in Id : Record(h)
  \/ ~ untouched'

Spec == Init /\ [][Next]_<<log, untouched>>
=============================================================================

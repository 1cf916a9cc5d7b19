----------------------------- MODULE MCInstall ------------------------------
(* Install for TLC: every settings file with one entry of at most two hooks, *)
(* or with two entries of one hook each and different matchers; a broken hook*)
(* is only made.                                                             *)
EXTENDS Install, TLC

UpTo(n, S) == UNION {[1..k -> S] : k \in 0..n}

EntryOf(hooks) == [matcher: {"aegis", "other"}, hooks: hooks]

One == EntryOf([1..1 -> {"user", "current", "stale", "exec"}])

AnyFile ==
  {Absent, Broken} \cup
    [entries: {<<>>} \cup {<<e>> : e \in EntryOf(UpTo(2, Hook \ {"broken"}))}
                \cup {ef \in One \X One : ef[1].matcher # ef[2].matcher},
     rest: {0}]

ProcSymmetry == Permutations(Proc) \cup Permutations(Name)

=============================================================================

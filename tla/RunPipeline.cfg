\* A protected file, a document, and a protected file not tracked yet that git status
\* writes in quotes, under a name that is not; two events, at most one of them a change
\* of the record.
SPECIFICATION Spec
CONSTANTS
    p = p
    d = d
    n = n
    here = here
    there = there
    None = None
    qn = qn
    File = {p, d, n}
    Path = {p, d, n, qn}
    status_name <- StatusName
    diff_name <- DiffName
    Protected = {p, n}
    Docs = {d}
    Tracked = {p, d}
    Root = {here, there}
    Home = here
    MaxEvents = 2
    MaxAlters = 1
CONSTRAINT Few
INVARIANTS
    PipelineInv
    HonestRunVerifies
    QuietRunKeepsItsVerdict
    AlteredIsSeen
    AcceptedIsConsistent
CHECK_DEADLOCK FALSE

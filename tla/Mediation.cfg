\* One thread beside the saver, two repositories, two writes from outside.
SPECIFICATION Spec
CONSTANTS
    None = None
    r1 = r1
    r2 = r2
    New = New
    Old = Old
    Out = Out
    Other = Other
    Omitted = Omitted
    RunJson = RunJson
    ManifestJson = ManifestJson
    EvidenceJson = EvidenceJson
    Loud = Loud
    Quiet = Quiet
    w = w
    Name = {New}
    Aeg = {New}
    Secret = {}
    Hinted = {}
    Claim = {Loud, Quiet}
    Granting = {Loud}
    Ignorable = {Loud, Quiet}
    Thread = {w}
    Repo = {r1, r2}
    Ours = r1
    Target <- MCTarget
    Home <- MCHome
    Present = {Old}
    Reach = {New}
    Attempts <- MCAttempts
    MaxOpen = 2
    MaxMade = 2
    MaxLines = 1
    MaxOutside = 2
CONSTRAINT Apart
INVARIANTS
    MediationInv
    QuietRunVerifies
    AcceptedFollowsFromEvents
    AcceptedRunWroteNothing
CHECK_DEADLOCK FALSE

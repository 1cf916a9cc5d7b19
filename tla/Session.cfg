SPECIFICATION Spec
CONSTANTS
    a1 = a1
    a2 = a2
    None = None
    Unruled = Unruled
    Agents <- McAgents
    Calls <- McCalls
    Worlds <- McWorlds
    Policies <- McPolicies
    Places <- McPlaces
    State <- McState
    Guard <- McGuard
    Secret <- McSecret
    Hinted <- McHinted
    Named <- McNamed
    Docs <- McDocs
    Holders <- McHolders
    Runtime <- McRuntime
    Outside <- McOutside
    Home = "elsewhere"
    Words <- McWords
SYMMETRY Symmetry
INVARIANTS
    AllowedCallsSpare
    GuardAlwaysDenied
    StricterPolicyStricterDecision
    AliasesJudgedAlike
    ApprovalLiftsDangerOnly

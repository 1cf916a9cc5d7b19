\* Every output of MCOutputs, every way its links may lead, one change of the evidence.
SPECIFICATION ExecutorSpec
CONSTANTS
    None = None
    File = File
    AegFile = AegFile
    SecretFile = SecretFile
    TokenFile = TokenFile
    Away = Away
    Loop = Loop
    Loud = Loud
    Quiet = Quiet
    Spaced = Spaced
    Name <- MCName
    Aeg = {AegFile}
    Secret = {SecretFile}
    Hinted = {TokenFile}
    Claim = {Loud, Quiet, Spaced}
    Granting = {Loud, Spaced}
    Ignorable = {Loud, Quiet}
    Outputs <- MCOutputs
    Links <- MCLinks
    MaxAlter = 1
CONSTRAINT Told
INVARIANTS
    ExecutorInv
    AcceptedIsEarned
    SelfReportNeverHelps
CHECK_DEADLOCK FALSE

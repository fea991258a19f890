\* Two workers, two jobs with any bodies, one fault at any moment.
SPECIFICATION Spec
CONSTANTS
    Worker = {w1, w2}
    Job <- MCJob
    Bodies <- MCBodies
    RetryLimit = 2
    MaxFaults = 1
    None = None
INVARIANTS
    TypeOK
    DependentsStopFirst
    ExitLeavesOnlyTheBlobClient
    SuccessIsStored
    MatchesResolve
    GivenUpOnlyIfCutOff
PROPERTY JobsSettle

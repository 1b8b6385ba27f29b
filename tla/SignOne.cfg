\* Every combination of options; one crash and re-run.
SPECIFICATION FairSpec
CONSTANTS
    MaxCrashes = 1
    None = None
INVARIANTS SuccessMeansSigned DestIsNeverTorn FailureKeepsOutput NoTempLeft
PROPERTIES InputUntouched Termination

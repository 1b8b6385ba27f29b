\* What the README says of a failed run, no crash.
SPECIFICATION Spec
CONSTANTS
    MaxCrashes = 0
    None = None
INVARIANT FailedRunLeavesOutput

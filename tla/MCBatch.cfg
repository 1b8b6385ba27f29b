\* Up to three inputs, one to three job threads, the key loaded inline or on
\* its own thread.
SPECIFICATION FairSpec
CONSTANTS
    MaxInputs = 3
    ArgLists <- MCArgLists
    JobsArg = {1, 2, 8}
    OutDir = "out"
    OutFile <- MCOutFile
    InPlace = InPlace
INVARIANTS ReportIsComplete ExitCodeIsTrue NoKeySignsNothing NoSharedFiles
PROPERTIES Termination

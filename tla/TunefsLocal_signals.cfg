\* A signal during or after the superblock write of either conversion.
SPECIFICATION Spec
CONSTANTS
    Stacks = {"o2cb", "pcmk"}
    MaxRuns = 3
CHECK_DEADLOCK FALSE
PROPERTY
    SignalsUnblockedOnReturn

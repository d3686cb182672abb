\* Three conversions in any order, each interruptible by a signal.
SPECIFICATION Spec
CONSTANTS
    Stacks = {"o2cb", "pcmk"}
    MaxRuns = 3
CHECK_DEADLOCK FALSE
PROPERTY
    TunefsLocalRefinesAbstract

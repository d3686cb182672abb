\* Every command line and volume kind: is run_hb_ctl() given an initialised path?
SPECIFICATION Spec
CONSTANTS
    CompleteMayFail = FALSE
CHECK_DEADLOCK FALSE
INVARIANT
    HbCtlPathInitialized

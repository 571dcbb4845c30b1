SPECIFICATION Spec
CONSTANTS
    N = 9
    SnapShotInterval = 3
    MaxCrashes = 2
    MaxInstalls = 2
INVARIANTS TypeOK NoApplyErr StateIsCommittedPrefix
PROPERTIES RfSrvRefinesAbs AppliedEventually
CHECK_DEADLOCK FALSE

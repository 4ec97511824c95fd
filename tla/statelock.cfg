SPECIFICATION LiveSpec
CONSTANT Caller = {c1, c2, c3}
INVARIANTS TypeOK LockHasHolder
PROPERTIES SoleHolderKeepsLock PatientRuns

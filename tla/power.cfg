SPECIFICATION Spec
CONSTANTS
  Task = {t1, t2}
  Container = {c1, c2}
  NoContainer = NoContainer
  Ops = {"start", "stop", "restart", "kill", "drain"}
  Patience = {TRUE}
  CrashDetection = TRUE
  DetectCleanExit = FALSE
  ExitKinds = {"crashed"}
  MaxSpawned = 1
SYMMETRY Symmetry
CONSTRAINT StillSerial
INVARIANTS TypeOK RunningIsWatched NoWedge SerialInv
PROPERTY IntendedExitNeverCrash
CHECK_DEADLOCK FALSE

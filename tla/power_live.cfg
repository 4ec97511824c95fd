SPECIFICATION DividedSpec
CONSTANTS
  Task = {t1, t2}
  Container = {c1}
  NoContainer = NoContainer
  Ops = {"restart", "drain"}
  Patience = {FALSE}
  CrashDetection = FALSE
  DetectCleanExit = FALSE
  ExitKinds = {"crashed"}
  MaxSpawned = 1

PROPERTIES ImplementsLock ExitSettles RunningAdopted CallsReturn RestartHonoured

SPECIFICATION LiveSpec
CONSTANTS
  Op = {o1, o2, o3}
  NoOp = NoOp
  Kinds = {"start", "reinstall", "restore", "transfer", "cancel"}
INVARIANTS Exclusive FlagsOwned
PROPERTY LocksReleased
CHECK_DEADLOCK FALSE

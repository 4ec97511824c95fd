SPECIFICATION LiveSpec
CONSTANTS
  Backup = {b1}
  Adapter = {"tar", "zip", "s3", "ddup", "btrfs", "zfs"}
  Size = 3
  PartSize = 2
  MaxUrls = 3
  MaxAttempts = 3
  MaxCrashes = 1
INVARIANTS ReportsHold ReadersGetAll
PROPERTY CreateEnds
CHECK_DEADLOCK FALSE

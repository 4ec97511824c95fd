SPECIFICATION LiveFiles
CONSTANTS
  Session = {s1}
  Route = {r1}
  Folder = {"d", "e"}
  File = {"f"}
  Home = "d"
  MaxSize = 1
  DiskLimit = 2
  HandleLimit = 1
  EntryLimit = 1
  SendAmount = 1
  ReadOnly = FALSE
  MaxRequests = 2
INVARIANT LockKeepsOut
PROPERTY UsageSettles
CHECK_DEADLOCK FALSE

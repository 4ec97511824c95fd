SPECIFICATION DividedSpec
CONSTANTS
  Token = {t1, t2}
  Connect = {t1, t2}
  Control = {t1}
  Install = {t1}
  Logger = {sftp, upload}
  SendCount = 2
  Request = {r1, r2, r3}
  None = None
  MaxMessages = 3
  MaxActivities = 4
  MaxRestarts = 1
INVARIANTS GrantHolds ActivityFaithful OneUse
PROPERTY TokenSettles
CHECK_DEADLOCK FALSE

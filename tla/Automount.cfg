SPECIFICATION FairSpec
CONSTANTS
  Devs = {"sda1", "sdb1"}
  Labels = {"DATA", "BACKUP"}
  None = None
  Media <- AllMedia
  Absent = Absent
  FstabDevs = {"sdb1"}
  MaxPlugs = 4
  Users = TRUE
INVARIANTS TypeOK IInv CleanMedia
PROPERTY GhostsGo
CHECK_DEADLOCK FALSE

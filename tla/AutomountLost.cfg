SPECIFICATION Spec
CONSTANTS
  Devs = {"sda1", "sdb1"}
  Labels = {"DATA", "BACKUP"}
  None = None
  Media <- PlainMedia
  Absent = Absent
  FstabDevs = {}
  MaxPlugs = 3
  Users = FALSE
INVARIANT MountedWhenAdded
CHECK_DEADLOCK FALSE

CONSTANTS
  Procs = {p1, p2}
  Nobody = Nobody
  Argvs <- MCArgvs
  Input <- MCInput
  Garbage <- MCGarbage
SPECIFICATION Spec
INVARIANTS IInv OwnReading ModeLinesHeld
PROPERTY RunsEnd

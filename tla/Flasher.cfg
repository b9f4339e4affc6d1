SPECIFICATION Spec
CONSTANTS
  Builds = {b1, b2}
  None = None
  Empty = Empty
  Torn = Torn
  Nameless = Nameless
INVARIANTS IInv BootsWhole HaltedMeansFlashed
SYMMETRY Symmetry

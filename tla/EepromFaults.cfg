CONSTANTS
  Layout <- SmallLayout
  Bytes <- MCBytes
  FF = "ff"
  Zero = "00"
  Text <- SmallText
  Chunk = 4
  Procs = {p1, p2}
  Invocations <- ClashingInvocations
  Contents <- SmallContents
  Efuse = TRUE
  Faults = {"open", "read", "write", "cut"}
SPECIFICATION Spec
INVARIANT Identified
PROPERTY StaysValid

CONSTANTS
  Layout <- MCLayout
  Bytes <- MCBytes
  FF = "ff"
  Zero = "00"
  Text <- MCText
  Chunk = 6
  Procs = {p1}
  Invocations <- AllInvocations
  Contents <- ProgrammedContents
  Efuse = TRUE
  Faults = {"read"}
SPECIFICATION Spec
PROPERTY OtherFieldsKept

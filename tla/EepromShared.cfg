CONSTANTS
  Layout <- MCLayout
  Bytes <- MCBytes
  FF = "ff"
  Zero = "00"
  Text <- MCText
  Chunk = 6
  Procs = {p1, p2}
  Invocations <- DisjointInvocations
  Contents <- ProgrammedContents
  Efuse = TRUE
  Faults = {"open", "cut"}
SPECIFICATION FairSpec
INVARIANT IInv
PROPERTIES OtherFieldsKept SettingsTakeEffect RunsEnd


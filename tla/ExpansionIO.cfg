CONSTANTS
  Procs = {p1, p2}
  Lines <- MCLines
  Words <- MCWords
  Files <- MCFiles
  UartArgs <- MCUartArgs
  DoArgs <- MCDoArgs
  DiArgs <- MCDiArgs
  MaxRuns = 2
  MaxCuts = 1
SYMMETRY Interchangeable
SPECIFICATION Spec
INVARIANTS TypeOK LegalFilesLoad Agree BootRestores IInv PinsAsTold
PROPERTY UpdateSurvives
CHECK_DEADLOCK FALSE

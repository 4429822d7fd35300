CONSTANTS
  Words <- MCWords
  Flags = {"v"}
  ArgFlags = {"n"}
  MaxArgs = 4
SPECIFICATION OptSpec
INVARIANTS OptionsRight KeepsArgs FilesRight
CHECK_DEADLOCK FALSE

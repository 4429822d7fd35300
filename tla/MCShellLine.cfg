CONSTANTS
  Cap = 7
  Chars = {"a", "b", " "}
  Garbage <- MCGarbage
  Rows = 2
  Cols = 3
  Old = "OLD"
SPECIFICATION Spec
INVARIANTS TypeOK LineEnds RunsLine
PROPERTIES KeysKeepScreen KeepsLine

CONSTANTS
  Cap = 5
  Chars = {"a", "b", " "}
  Garbage <- MCGarbage
  Rows = 1
  Cols = 2
  Old = "OLD"
SPECIFICATION Spec
INVARIANTS RunsTheLine

SPECIFICATION Spec
CONSTANTS
  source = source
  test = test
  Outside = Outside
  Absent = Absent
  Binary = Binary
  Files = {source, test}
  Names = {"a.py", "./a.py", "b.py", "../c.py"}
  Target <- MCTarget
  MinLines = 2
  MaxLines = 3
  MaxChanges = 2
  WritesFail = TRUE
INVARIANTS
  TypeOK
  NothingHalfApplied
  NoFileCollapses
  WrittenIsChanged
  LastChangeWins

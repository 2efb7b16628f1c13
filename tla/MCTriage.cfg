SPECIFICATION Spec
CONSTANTS
  source = source
  notes = notes
  build = build
  Files = {source, notes, build}
  Outside = Outside
  Ignored = {build}
  Texts = {"long", "ended", "edited", "grown", "stub"}
  Decoded <- MCDecoded
  Absent = Absent
  Oversized = {"grown"}
  Truncating <- MCTruncating
  Checkout <- MCCheckout
  Commented <- MCCommented
  Bad = Bad
  MaxFiles = 2
  GitFails = TRUE
INVARIANTS
  TypeOK
  AskedAboutHead
PROPERTIES
  CommitIsItsVerdict
  DismissedFixIsInHead
  OutcomeKept

SPECIFICATION Spec
CONSTANTS
  code = code
  docs = docs
  blob = blob
  HeadBranch = "feature"
  BaseBranch = "main"
  Paths = {code, docs, blob}
  Unreadable = {blob}
  Outside = {}
  MaxHumanPushes = 0
  Environment = {}
INVARIANTS
  BaseIsMerged

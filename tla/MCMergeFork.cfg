SPECIFICATION Spec
CONSTANTS
  code = code
  docs = docs
  blob = blob
  HeadBranch = "main"
  BaseBranch = "main"
  Paths = {code, docs, blob}
  Unreadable = {blob}
  Outside = {}
  MaxHumanPushes = 2
  Environment = {"git_error", "llm_error", "llm_timeout", "llm_abort", "llm_sloppy", "human_push", "human_rewrite", "same_changes"}
INVARIANTS
  TypeOK
  NeverHalfResolved
  AbortLeavesBranch
PROPERTIES
  ResolveIsPushed
  PromiseKept

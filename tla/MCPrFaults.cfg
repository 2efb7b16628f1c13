SPECIFICATION Spec
CONSTANTS
  review = review
  single = single
  process = process
  NoRun = NoRun
  Runs = {review, process}
  Manual = {process}
  Delivered <- MCDelivered
  NumComments = 2
  Thread <- MCThreads
  BotAuthored = {1, 2}
  MaxComments = 1
  DryRun = FALSE
  MergeFollowUp = TRUE
  BaseIsHead = TRUE
  MaxHumanPushes = 1
  Environment = {"github_error", "lookup_miss", "exception", "crash", "human_push", "long_reply"}
INVARIANTS
  TypeOK
  OnlyHumansBlockPush
  ClaimsArePushed
PROPERTIES
  BranchNeverRewritten
  ActsAsReviewBot

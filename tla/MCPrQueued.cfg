SPECIFICATION Spec
CONSTANTS
  review = review
  single = single
  process = process
  NoRun = NoRun
  Runs = {review, single}
  Manual = {}
  Delivered <- MCDelivered
  NumComments = 2
  Thread <- MCThreads
  BotAuthored = {1, 2}
  MaxComments = 2
  DryRun = FALSE
  MergeFollowUp = FALSE
  BaseIsHead = FALSE
  MaxHumanPushes = 0
  Environment = {}
INVARIANTS
  HandledIsFilteredOut

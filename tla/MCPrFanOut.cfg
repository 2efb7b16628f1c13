SPECIFICATION Spec
CONSTANTS
  review = review
  single = single
  process = process
  NoRun = NoRun
  Runs = {review, single, process}
  Manual = {process}
  Delivered <- MCDelivered
  NumComments = 4
  Thread <- MCMixedThreads
  BotAuthored = {1, 2, 3, 4}
  MaxComments = 1
  DryRun = FALSE
  MergeFollowUp = TRUE
  BaseIsHead = FALSE
  MaxHumanPushes = 0
  Environment = {"human_resolve", "blank_reply"}
INVARIANTS
  SettledOnce
  SweepIsExhaustive
  OkMeansSettled
  BlastRadius
PROPERTIES
  ResolvedThreadsSkipped

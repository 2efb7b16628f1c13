SPECIFICATION FairSpec
CONSTANTS
  review = review
  single = single
  process = process
  NoRun = NoRun
  Runs = {review, single, process}
  Manual = {process}
  Delivered <- MCDelivered
  NumComments = 1
  Thread <- MCThreads
  BotAuthored = {1}
  MaxComments = 1
  DryRun = FALSE
  MergeFollowUp = TRUE
  BaseIsHead = TRUE
  MaxHumanPushes = 1
  Environment = {"exception", "crash", "human_push"}
PROPERTIES
  StartedRunsEnd

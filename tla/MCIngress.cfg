SPECIFICATION FairSpec
CONSTANTS
  comment = comment
  ping = ping
  nameless = nameless
  NoDelivery = NoDelivery
  Deliveries = {comment, ping, nameless}
  Anonymous = {nameless}
  Unreadable = {ping}
  WithJobs = {comment, nameless}
  Retention = 1
  PoolSize = 2
  MaxTime = 3
  MaxRequests = 3
  Environment = {"crash", "probe", "hang"}
INVARIANTS
  TypeOK
  DispatchedApart
  LostOnlyWhenOverloaded
PROPERTIES
  AcceptedIsRun
  HungIsEnded

SPECIFICATION FairSpec
CONSTANTS
  Processes = {p1, p2}
  Listeners = {l1, l2}
  Events = {e1}
  Nowhere = Nowhere
  MaxFailures <- EachOnce
INVARIANTS
  TypeOK
  HeardOnce
  SubscribedHears
PROPERTIES
  SubscribedIsReached
  SubscriptionsFollowListeners
CHECK_DEADLOCK FALSE

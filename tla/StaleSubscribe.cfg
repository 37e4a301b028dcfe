SPECIFICATION Spec
CONSTANTS
  Processes = {p1, p2}
  Listeners = {l1, l2}
  Events = {e1}
  Nowhere = Nowhere
  MaxFailures <- StaleOnce
INVARIANTS
  StaleFailuresAreIgnored
CHECK_DEADLOCK FALSE

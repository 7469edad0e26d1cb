SPECIFICATION FairSpec
CONSTANTS
  Proxies = {p1, p2}
  Agents = {a1, a2, a3}
  MaxAge = 1
  W = 3
  MaxChanges = 1
  MaxFaults = 1
  None = None
INVARIANTS ClaimHeld NoLostWakeup LeasesCounted
PROPERTY ReachesAll

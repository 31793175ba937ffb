SPECIFICATION FairSpec
CONSTANTS
  Trades <- MCTrades
  Anonymous <- MCAnonymous
  Seeded <- MCSeeded
  Retention = 1
  Lookback = 0
  PollTime = 1
INVARIANT StoredOnce
PROPERTY NeverLost
PROPERTY EventuallyPurged

SPECIFICATION MCSpec
CONSTANTS
  Window <- AlertWindow
  Cooldown = 2
  MaxLag = 2
  MaxTime = 3
  MaxAlerts = 2
  MaxFaults = 1
  Rows <- UpDown
  Prices = {1, 2, 3}
  NoPrice = NoPrice
  Level <- LevelTwo
  Above <- Upward
  LevelCooldown = 2
  LevelLag = 1
  Sources = {"trades", "resolver"}
  Limit <- Limits
  Every <- Intervals
  MaxMisses = 1
  Warnings = {w1, w2}
  Alerts = {a1}
  Day = 6
  Grace = 1
  Longest = 2
  AlertLag = 1
  NotYet = NotYet
  Labels = {Yes, No}
  Winner = Yes
  NoLabel = NoLabel
  NoSnapshot = NoSnapshot
  Close = 2
  LastDay = 4
  Markets = {m1, m2, m3, m4}
  Fields <- MarketRows
  Absent = Absent
  ByHand = {byhand}
  Chunk = 1
  MaxChanges = 1
  Gains <- WinOrLoss
  Entry = 50
  Span = 2
  MinClosed = 2
  MinRoi = 15
  Cap = 60
  NoScore = NoScore
  Today = 2
  MaxPositions = 3
INVARIANT PagedInTime
INVARIANT InOneDigest
INVARIANT CountedOnce
PROPERTY OneMessagePerCrossing
INVARIANT SideTypes
INVARIANT OnlyLateRowsOpen
PROPERTY SettledRowsKept
INVARIANT EventsApart
PROPERTY ManualWins
INVARIANT Reproducible
INVARIANT SentMeansDelivered
PROPERTY EngineCooldown
CHECK_DEADLOCK FALSE

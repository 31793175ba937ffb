SPECIFICATION RebuildSpec
CONSTANTS
  Keys <- OneKey
  Labels = {"Yes", "No"}
  None = None
  Sizes = {1, 2}
  EntryPrice <- BuyPrice
  SellPrices = {2}
  Payout = 3
  Dust = 2
  MaxTrades = 2
  Jobs <- RunJobs
INVARIANT NothingUnbooked
PROPERTY RebuiltAsBooked
PROPERTY RebuiltReconciles
CHECK_DEADLOCK FALSE

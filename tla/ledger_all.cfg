SPECIFICATION FairSpec
CONSTANTS
  Keys <- OneKey
  Labels = {"Yes", "No"}
  None = None
  Sizes = {1, 2}
  EntryPrice <- BuyPrice
  SellPrices = {2}
  Payout = 3
  Dust = 2
  MaxTrades = 2
  Jobs <- AllJobs
INVARIANT StatusMatchesShares
INVARIANT NeverOversold
PROPERTY EventuallySettled

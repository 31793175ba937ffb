SPECIFICATION Spec
CONSTANTS
  Keys <- TwoKeys
  Labels = {"Yes"}
  None = None
  Sizes = {1, 2}
  EntryPrice <- BuyPrice
  SellPrices = {2}
  Payout = 3
  Dust = 2
  MaxTrades = 3
  Jobs <- BookJobs
INVARIANT PnlReconciles
INVARIANT NoDoubleClose
PROPERTY ImplementsAccounts
CHECK_DEADLOCK FALSE

CONSTANTS
  w1 = w1
  Wallets <- OneWallet
  MaxFills = 2
  TxOf <- LastTxShared
  AssetOf <- BothAssets
  TimeOf <- LastTxShared
  Cutoffs <- FromStart
  Limit = 2
  MaxPages = 2
  BatchSize = 2
  Live = FALSE
  MaxFaults = 0
SPECIFICATION FairSpec
PROPERTY EventuallyIngested

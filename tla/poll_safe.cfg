CONSTANTS
  w1 = w1
  Wallets <- OneWallet
  MaxFills = 6
  TxOf <- LastTxShared
  AssetOf <- BothAssets
  TimeOf <- LastTxShared
  Cutoffs <- TwoWindows
  Limit = 2
  MaxPages = 3
  BatchSize = 2
  Live = FALSE
  MaxFaults = 2
SPECIFICATION Spec
INVARIANTS NeverSkips OldestFirst

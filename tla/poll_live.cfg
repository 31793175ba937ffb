CONSTANTS
  w1 = w1
  Wallets <- OneWallet
  MaxFills = 3
  TxOf <- OwnTx
  AssetOf <- OneAsset
  TimeOf <- OneSecond
  Cutoffs <- FromStart
  Limit = 1
  MaxPages = 4
  BatchSize = 2
  Live = TRUE
  MaxFaults = 2
SPECIFICATION FairSpec
PROPERTIES EventuallyIngested RepeatsOnlyRaces

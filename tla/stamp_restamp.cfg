CONSTANTS
  t1 = t1
  t2 = t2
  Yes = Yes
  No = No
  None = None
  Trades <- TwoTrades
  Assets <- TwoAssets
  AssetOf <- Sides
  Labels <- YesNo
  MaxCorrections = 1
SPECIFICATION FairSpec
INVARIANTS NoFrozenInversion NeverFabricated
PROPERTY EventuallyStamped

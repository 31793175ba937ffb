SPECIFICATION FairSpec
CONSTANTS
  Assets <- TwoAssets
  Wallets <- OneWallet
  Ranked = TRUE
  TopN = 1
  Held <- Nothing
  MaxFaults = 2
INVARIANT KnownMarket
INVARIANT TrustedOnly
PROPERTY Resubscribed

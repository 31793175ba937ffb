SPECIFICATION FairSpec
CONSTANTS
  Markets <- TwoMarkets
  Jobs <- ListJobs
  Categorised <- First
  Sports <- First
  InHorizon <- TwoMarkets
  Reach = 2
  MaxFaults = 2
PROPERTY EventuallyCatalogued
PROPERTY ResolvedStays

CONSTANTS
  DepreciationRuns = {s1, s2}
  Assets <- MCAssets
  Asset <- MCAsset
  LastMonth = 4
  Closing = {3}
SPECIFICATION FairSpec
INVARIANTS
  BookedWithoutGaps
  RepeatsAreRaces
  FullyDepreciated
PROPERTY RunsEnd
CHECK_DEADLOCK FALSE

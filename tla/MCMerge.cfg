\* Both tools through growth, failures and release.
SPECIFICATION Spec
CONSTANTS
  Tags = {1, 2}
  FirstCap = 2
  MaxArrivals = 9
  NoBlock = NoBlock
  NoTag = NoTag
  Tools = {"merge", "split"}
INVARIANTS FreedOnce RegroupedUnlessGrownInRun

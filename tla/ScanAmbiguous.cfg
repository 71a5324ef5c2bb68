\* As ScanSafety.cfg: a second relaxed shape whose warning call lies beyond
\* the end of the block.
SPECIFICATION Spec
CONSTANTS
  NoSite = NoSite
  ContractSize = 5
  BlockSize = 8
  PrefixLength = 2
  SiteSpan = 7
  Calls = {2, 4}
  MaxSection = 14
  CountLimit = 2
  MaxText = 15
  MaxSites = 3
CHECK_DEADLOCK FALSE
INVARIANT AmbiguousFailsClosed

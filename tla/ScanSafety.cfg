\* Sections of up to 15 bytes in blocks of 8: one to four blocks, with up to
\* three shapes and one unreadable byte anywhere.
SPECIFICATION Spec
CONSTANTS
  NoSite = NoSite
  ContractSize = 5
  BlockSize = 8
  PrefixLength = 2
  SiteSpan = 7
  Calls = {2, 4}
  MaxSection = 14
  CountLimit = 2
  MaxText = 15
  MaxSites = 3
CHECK_DEADLOCK FALSE
INVARIANTS ScanTypeOK EveryStartOnce PartialFailsClosed AcceptedIsUnique

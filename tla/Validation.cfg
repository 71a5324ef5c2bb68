\* Sixteen addresses, pages of two.  Code is byte 4 of page 2, read-only data
\* bytes 6 to 8 of pages 3 and 4, so that both sections end inside a page; the
\* heap is the two pages behind them.  A form spans two pages or more.
SPECIFICATION FairSpec
CONSTANTS
  MaxWord = 15
  PageSize = 2
  TextAddress = 4
  TextSize = 1
  RdataAddress = 6
  RdataSize = 3
  FormIdOffset = 1
  FormIdSize = 1
  FormTypeOffset = 2
  EditorIdVtableOffset = 1
  WordSize = 1
  HeapPages = {5, 6}
  MaximumEditorIdLength = 3
INVARIANTS ValidationTypeOK CallableIsGameCode QuietVerdict QuietResult OnlyGuardPagesEscape
PROPERTIES VerdictReached

SPECIFICATION GallerySpec
CONSTANTS
  Existing = {e1, e2}
  New = {n1, n2}
  Blank = blank
  During = {"remove"}
INVARIANTS GalleryTypeOK SavedAsShown ListedIsKept OptionsFollow
\* A dialog whose PUT is sent closes.
CHECK_DEADLOCK FALSE

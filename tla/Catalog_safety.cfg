\* Two scans, one after the other, over files that change meanwhile.
CONSTANTS
  f1 = f1
  v1 = v1
  v2 = v2
  v3 = v3
  v4 = v4
  c1 = c1
  c2 = c2
  cut = cut
  None = None
  Paths = {1, 2}
  Folders = {f1}
  Folder <- MCFolder
  Bytes <- MCBytes
  Contents = {c1, c2, cut}
  Openable = {c1, c2}
  Versions = {v1, v2, v3}
  Books = {b1, b2}
  Scans = {s1, s2}
  Overlap = FALSE
  Full = {}
  Events = {"stop", "error", "edit", "match", "delete"}
SPECIFICATION Spec
SYMMETRY Symmetry
INVARIANTS SkippedIsCurrent CatalogMatchesDisk
PROPERTIES MovedFilesKeepTheirBook 
CHECK_DEADLOCK FALSE

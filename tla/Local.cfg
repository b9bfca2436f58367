SPECIFICATION LocalSpec
CONSTANTS
  Writers = {w1, w2}
  Directories = {d1, d2}
  Nothing = Nothing
  Files = {"file1", "file2"}
  Specials = {"device"}
  Maximum = 1
  MaxLength = 2
  Absent = "none"
  MaxRuns = 3
  MaxEdits = 1
  MaxFailures = 2
  RestoreFails = FALSE
  Executables = {"binary1", "binary2"}
  Binaries = {"binary1", "binary2"}
  NoBinary = "none"
  FileIds = {"old", "new"}
  NoFileId = "none"
  MaxSteps = 3
SYMMETRY LocalSymmetry
INVARIANTS
  ReadsWholeFiles
  ReadsTheNamedFile
  ReportedDone
  UninstallerRemains
  OutputNotLost
  BrowserWasBoundAndApproved
  DirectEffectsConsented
  SearchIsExact
PROPERTY ImplementsExclusiveCreate
CHECK_DEADLOCK FALSE

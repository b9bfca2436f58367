SPECIFICATION Spec
CONSTANTS
  binary1 = binary1
  binary2 = binary2
  old = old
  new = new
  pc = pc
  NoFile = NoFile
  NoHost = NoHost
  Binaries <- MCBinaries
  Files <- MCFiles
  Hosts <- MCHosts
  Builders <- MCDiscoveredOnly
  Vectors <- MCVectors
  MaxDiscoveries = 1
  MaxApprovals = 1
  MaxEdits = 2
SYMMETRY MCSymmetry
INVARIANTS
  StartedWasApproved
  StartedWasDiscovered
PROPERTY
  CheckedFileWasDiscovered

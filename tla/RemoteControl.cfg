SPECIFICATION FairSpec
CONSTANTS
  qt = qt
  embedded = embedded
  generic = generic
  launcher = launcher
  NoBinary = NoBinary
  Goos = "freebsd"
  Binaries <- MCBinaries
  Paths <- MCPathsBSD
  Requests <- MCControlsAndEnding
INVARIANTS
  AtMostOneRecovery
  ExitHonest
  ConsentGiven
PROPERTIES
  RecoverySwitchesExecutable
  CancelEnds
  ControlOperationEnds

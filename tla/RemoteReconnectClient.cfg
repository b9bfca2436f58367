SPECIFICATION Spec
CONSTANTS
  qt = qt
  embedded = embedded
  generic = generic
  launcher = launcher
  NoBinary = NoBinary
  Goos = "linux"
  Binaries <- MCBinaries
  Paths <- MCPathsFew
  Requests <- MCEnding
INVARIANT EveryAttemptSameExecutable

SPECIFICATION Spec
CONSTANTS
  qt = qt
  embedded = embedded
  generic = generic
  launcher = launcher
  NoBinary = NoBinary
  Goos = "linux"
  Binaries <- MCBinaries
  Paths <- MCPaths
  Requests <- MCStreams
INVARIANTS
  TypeOK
  StreamAuthorized
  RetryBudget
PROPERTY ImplementsGate

SPECIFICATION ScanSpec
CONSTANTS
  binary1 = binary1
  binary2 = binary2
  NoBinary = NoBinary
  Binaries <- MCBinaries
INVARIANT SearchOrderIsResolverOrder

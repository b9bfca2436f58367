SPECIFICATION SupplySpec
CONSTANTS
  Blobs = {a, b, c}
  Workers = {w1, w2}
  NoBlob = NoBlob
  NativeMaxClock = 3
  NativeMaxTampers = 1
  CiMaxRewrites = 2
  RuntimeMaxRewrites = 2
  InstallMaxRewrites = 2
  StagingMaxChanges = 3
  SetMaxChanges = 2
  ChainMaxClock = 5
  TemplateCommands = {"c1", "c2"}
INVARIANTS
  OkMeansVerified
  CauseReported
  FeederNotStranded
  AcceptedSetIsWitnessed
  AcceptedSetsAreAttested
  AcceptedWasInstalled
  PublishedPackagesAreChecked
  EvidenceIsWhole
PROPERTY Terminates
CHECK_DEADLOCK FALSE

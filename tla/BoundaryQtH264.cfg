SPECIFICATION Spec
CONSTANTS
  OptionSets <- MCRelated
  EditedSets <- MCNoSets
  Edits <- MCEdits
INVARIANT PlannedVectorsAccepted

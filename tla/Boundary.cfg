SPECIFICATION Spec
CONSTANTS
  OptionSets <- MCPairs
  EditedSets <- MCRelated
  Edits <- MCEdits
INVARIANTS
  PlannedVectorsAcceptedExceptQtH264
  ReadBackMatchesOptions
  AcceptedIsWithinGrammar

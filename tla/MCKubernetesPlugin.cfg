CONSTANTS
  Objects <- MCObjects
  Requests <- MCRequests
  Parts <- MCParts
  Index = {"0", "1"}
  Invalid = Invalid
  Unpaired = Unpaired
  Unreadable = Unreadable
  Null = Null
  MaxRequests = 3
  MaxStages = 2
SPECIFICATION Spec
CHECK_DEADLOCK FALSE
INVARIANTS TypeOK OptionsAreLatest PatchesApply AppliedIsPortable RunsOnlyByConsent ReferencesRenamedOnce SecondStageStable

SPECIFICATION Spec
CONSTANTS
  Undecodable = Undecodable
  Garbled = Garbled
  NoText = ""
  Texts <- MCTexts
  Transforms <- MCTransforms
  Decode <- MCDecode
  Select <- MCSelect
  FoldName <- MCFoldName
  Profiles <- MCProfiles
  Documents <- DocumentCases
CHECK_DEADLOCK FALSE
INVARIANT AncestryIsComplete

SPECIFICATION Spec
CONSTANTS
  Undecodable = Undecodable
  Garbled = Garbled
  NoText = ""
  Texts <- MCTexts
  Transforms <- MCTransforms
  Decode <- MCDecode
  Select <- MCSelect
  FoldName <- MCFoldName
  Profiles <- MCProfiles
  Documents <- MCDocuments
CHECK_DEADLOCK FALSE
INVARIANTS
  AcceptedIsComplete
  AccountingIsExact
  BlockedIsEarned
  DispositionsAreJust
  RoutesAreAncestral

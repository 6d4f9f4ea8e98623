CONSTANTS
  n1 = n1
  n2 = n2
  v1 = v1
  v2 = v2
  int = int
  vector = vector
  Names <- TwoNames
  Keys <- TwoKeys
  Values <- TwoValues
  Types <- TwoTypes
  Texts <- ThreeTexts
  Docs <- OneDoc
  FromStr <- Casts
  Bad = Bad
  NoType = NoType
  Nothing = Nothing
  MaxDepth = 2
SPECIFICATION Spec
INVARIANTS TypeOK EveryListenerIsTold ListenersKnowValue LoadApplies
CHECK_DEADLOCK FALSE

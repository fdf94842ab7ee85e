\* One item is enough.
SPECIFICATION Spec
CONSTANTS
  Keys = {"gold", "silver"}
  KeyOrder <- MCKeyOrder
  KeyAsWord <- MCKeyAsWord
  Split <- MCSplit
  Locales = {"de", "fr"}
  Words = {"x", "y", "z", "r", "tier", "gold", "silver"}
  Orders = {0, 1, 2}
  Blank = ""
  Dictionary <- MCTier
  Pool <- MCPool
  Definitions <- MCDefinitions
  TextTables <- MCTexts
  Place <- MCPlace
  MaxItems = 3
CHECK_DEADLOCK FALSE
INVARIANTS DisabledLabelResolves

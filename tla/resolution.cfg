\* Dictionaries of up to four items, and other definitions.
SPECIFICATION Spec
CONSTANTS
  Keys = {"gold", "silver"}
  KeyOrder <- MCKeyOrder
  KeyAsWord <- MCKeyAsWord
  Split <- MCSplit
  Locales = {"de", "fr"}
  Words = {"x", "y", "z", "r", "tier", "gold", "silver"}
  Orders = {0, 1, 2}
  Blank = ""
  Dictionary <- MCTier
  Pool <- MCPool
  Definitions <- MCDefinitions
  TextTables <- MCTexts
  Place <- MCPlace
  MaxItems = 4
CHECK_DEADLOCK FALSE
INVARIANTS ResolvesAsDescribed NoLocaleIsEmpty CoverageSpeaksOfItems FallbackIsNoTranslation NewKeyLowersCoverage

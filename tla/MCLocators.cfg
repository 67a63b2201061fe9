SPECIFICATION Spec
CONSTANTS
  Fragments = {"S01", "S02", "View", "all", "Limit", "5.00", ":",
               "0", "1", "2", "3", "4", "5", "6", "7", "8", "9"}
  Colon = ":"
  Width = 3
  Pages <- MCPages
  Values = {"S01", "S02", "1", "2"}
  Numeral <- MCNumeral
  Param = "{share}"
INVARIANTS
  TypeOK
  RowIsTheCallers
  SamePageSameElement
  SilentIsFaithful

SPECIFICATION Spec
CONSTANTS
  p1 = p1
  p2 = p2
  s1 = s1
  s2 = s2
  b1 = b1
  NoOne = NoOne
  Pages <- MCPages
  Sessions <- MCSessions
  Batches <- MCBatches
  MaxVersion = 5
  MaxOpened = 3
  MaxChanges = 2
SYMMETRY Symmetry
INVARIANTS
  EditTypeOK
  SavesKeepChanges
  UniqueHolder
  AppliesToPageShown
CHECK_DEADLOCK FALSE

SPECIFICATION Spec
CONSTANTS
  c1 = c1
  c2 = c2
  Slots <- MCSlots
  MaxElem = 3
  MaxClicks = 4
SYMMETRY Symmetry
INVARIANTS
  EditorTypeOK
  RefsApart
  NoGhost
  PageFollowsSession
  ReachesClicked
  LeavingAsksIfOpened
PROPERTIES
  SavedAsShown
CHECK_DEADLOCK FALSE

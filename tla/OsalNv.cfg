SPECIFICATION Spec
SYMMETRY Symmetry
CONSTANTS
  x = x
  y = y
  v1 = v1
  v2 = v2
  Blank = Blank
  Nothing = Nothing
  OSAL_NV_PAGES_USED = 3
  PageSize = 3
  Ids = {x, y}
  Size <- Uneven
  HotIds = {x}
  Values = {v1, v2}
  TornErases <- InUseFirst
  FlashFails = FALSE
INVARIANTS NoOverflow ReadsKept
PROPERTY ImplementsStore

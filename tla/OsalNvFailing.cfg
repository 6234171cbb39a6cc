SPECIFICATION Spec
SYMMETRY Symmetry
CONSTANTS
  x = x
  y = y
  v1 = v1
  v2 = v2
  Blank = Blank
  Nothing = Nothing
  OSAL_NV_PAGES_USED = 2
  PageSize = 3
  Ids = {x, y}
  Size <- OneEach
  HotIds = {}
  Values = {v1, v2}
  TornErases <- HeaderFirst
  FlashFails = TRUE
INVARIANTS TypeOK NoOverlay ReserveErased

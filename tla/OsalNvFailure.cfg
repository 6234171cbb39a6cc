SPECIFICATION Spec
SYMMETRY Symmetry
CONSTANTS
  x = x
  y = y
  v1 = v1
  v2 = v2
  Blank = Blank
  Nothing = Nothing
  OSAL_NV_PAGES_USED = 3
  PageSize = 2
  Ids = {x, y}
  Size <- OneEach
  HotIds = {}
  Values = {v1, v2}
  TornErases <- NotTorn
  FlashFails = TRUE
PROPERTY FailureKeepsValues

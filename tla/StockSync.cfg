SPECIFICATION MCSpec
CONSTANTS
  Products = {1, 2, 3}
  Stocked = {1, 3}
  InitialStocks = {1}
  MaxStock = 1
  ListPage = 2
  Unknown = unknown
  Tabs = {tab}
  CallSlots = {1, 2}
  Gestures = {"tap", "edit", "add", "delete", "reload", "scroll"}
  Overlap = "none"
  Failing = {"patch", "delete"}
  NoCall = noCall
  NoDialog = noDialog
INVARIANTS StockTypeOK SettledShowsServer ListsEachOnce OneStepInFlight

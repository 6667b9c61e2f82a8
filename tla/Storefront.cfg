SPECIFICATION Spec
CONSTANTS
  Larges = {toys}
  Subs = {cars, dolls}
  None = None
  Dangling = Dangling
  ForeignKeys = TRUE
  Requests = {r1}
  MaxWrites = 2
  Products = {p1}
  Tags <- MCTags
  All = All
  p1 = p1
  cars = cars
  MaxLoads = 2
CHECK_DEADLOCK FALSE
INVARIANTS LargeIsThere GridMatchesPills RefreshShowsServer
PROPERTIES FiledWhereAsked

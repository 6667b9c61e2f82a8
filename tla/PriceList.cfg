SPECIFICATION Spec
CONSTANTS
  Products = {1, 2}
  Prices = {100, 400}
  EventIds = {sale, flash}
  Offers <- MCOffers
  Pages = {0, 2}
  Sizes = {0, 1}
  Floors = {200}
  MaxSize = 3
  Default = 2
  NoEvent = NoEvent
  MaxTime = 2
  MaxEdits = 3
SYMMETRY Symmetry
INVARIANTS BestOfSomeMoment NoExpiredDiscount PagesAddUp PagesCoverOnce

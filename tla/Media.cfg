SPECIFICATION Spec
CONSTANTS
  Admins = {ann}
  Banners = {slide}
  Articles = {article}
  Store = Store
  Urls = {u1, u2, u3}
  External = External
  None = None
  First = External
  MaxSent = 4
SYMMETRY Symmetry
CHECK_DEADLOCK FALSE
INVARIANTS TypeOK ShownExists LeaksAccounted

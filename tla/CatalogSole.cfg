SPECIFICATION Spec
CONSTANTS
  Products = {p1, p2}
  Articles = {art}
  Events = {evt}
  Urls = {u1, u2}
  ProductEditors = {ad}
  Curators = {ad}
  Deleters = {ad}
  Faults = {"upload", "commit", "sqlite"}
INVARIANTS DeletedLeavesNoFile

SPECIFICATION Spec
CONSTANTS
  Products = {p1, p2}
  Articles = {art}
  Events = {evt}
  Urls = {u1, u2}
  ProductEditors = {ed}
  Curators = {cu}
  Deleters = {cu}
  Faults = {"commit"}
INVARIANTS ListedImagesExist

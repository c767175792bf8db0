SPECIFICATION Spec
CONSTANTS
  n1 = n1
  n2 = n2
  n3 = n3
  f1 = f1
  f2 = f2
  h1 = h1
  h2 = h2
  t1 = t1
  t2 = t2
  t3 = t3
  none = none
  Node = {n1, n2, n3}
  Site = {n1, n3}
  siteOf <- SharedSite
  copiesRequired = 1
  File = {f1}
  Handle = {h1, h2}
  Temp = {t1, t2, t3}
  Counts = {"", "1"}
  MaxQueue = 2
  MaxEvents = 4
SYMMETRY SiteSymmetry
PROPERTY
  SitesKept

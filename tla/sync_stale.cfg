SPECIFICATION FairSpec
CONSTANTS
  Callers = {loop}
  Categories <- TwoCategories
  Products <- OneProduct
  Home <- InnerHome
  NoHome = "none"
  MaxChanges = 1
  MaxFaults = 0
PROPERTIES CatalogCatchesUp

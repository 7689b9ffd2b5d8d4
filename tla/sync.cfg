SPECIFICATION FairSpec
CONSTANTS
  Callers = {loop}
  Categories <- TwoCategories
  Products <- OneProduct
  Home <- InnerHome
  NoHome = "none"
  MaxChanges = 2
  MaxFaults = 1
INVARIANTS TypeOK StaleOnlyByTheGaps ListsAsClaimed
PROPERTIES ListsCatchUp SalesAreDrained

SPECIFICATION MCSpec
CONSTANTS
  Cashier = t1
  Clerks = {t1, t2}
  MaxShifts = 2
  MaxReports = 2
  MaxEvents = 2
  East = TRUE
  Staff = {o1, o2}
  Nobody = nobody
  Rounds = {c1, c2}
  MaxEditions = 3
  Features = {f1, f2}
  Off = f2
  Screens = {s1, s2}
  Splash = splash
  Nowhere = nowhere
  MaxEdits = 2
  MaxJams = 1
  Hands = {h1, h2}
  Products = {p1, p2}
  Inclusive = {p2}
  MaxDrafts = 1
  Drafts = {d1, d2}
  Parks = {k1}
  MaxQuantity = 2
  MaxCalls = 5
  Tellers = {t1, t2}
  MaxSales = 2
  MaxReturns = 2
  MaxReceipts = 3
  Bought = 2
  Tendered = 1
  MaxPrints = 2
INVARIANTS ShiftsAreKnown  RosterIsTrue NavigationIsHonest
  CartIsCurrent CartsPutAside CounterAccounts PaperIsTrue
CHECK_DEADLOCK FALSE

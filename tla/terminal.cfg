SPECIFICATION MCSpec
CONSTANTS
  Jobs = {j1, j2}
  MaxAttempts = 2
  MaxMinted = 2
  MaxSubmits = 2
  MaxTroubles = 2
  Loops = {l1, l2}
  Recorders = {r1}
  MaxRecent = 2
  Degraded = 2
  MaxErrors = 3
  MaxBeats = 2
  Refreshers = {f1, f2}
  MaxVersions = 2
  MaxRefreshes = 3
  Launchers = {u1, u2}
  Files = {binary, data}
  Binary = binary
  Extra = data
  Keep = 1
  MaxBackups = 2
  MaxMishaps = 2
  MaxCrashes = 3
  Askers = {k1, k2}
  Companies = {c1, c2}
  NoCompany = none
  MaxChanges = 5
  Weights = {12, 25}
  MaxLines = 3
  Writers = {w1}
  RowKeys = {row1, row2}
  Screens = {s1}
  Null = null
  MaxCallsMade = 2
  Goods = {g1, g2}
  Words = {tea, soap}
  MaxWrites = 3
  Digits = {0, 1}
  PinLengths = {2, 3}
  Tries = 2
  MaxKeys = 3
  MaxEntries = 3
  MaxHitches = 1
INVARIANTS PinIsJudged SessionsAgree HeartbeatIsHonest PoliciesAreHeld UpdateIsWhole MigratedIsWhole  ScaleIsTrue StoreKeepsItsPromise SearchIsTrue PadIsHonest
PROPERTIES HonouredIsKept
CHECK_DEADLOCK FALSE

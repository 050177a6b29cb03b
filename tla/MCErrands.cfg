SPECIFICATION Spec
CONSTANTS
  Subjects = {"switch", "trail", "following", "loot", "rules", "arrow", "vault", "claims"}
  a1 = a1
  a2 = a2
  a3 = a3
  att = att
  hp = hp
  p1 = p1
  p2 = p2
  q1 = q1
  q2 = q2
  SwServer = {a1, a2, a3}
  SwHome = a1
  SwDown = {a2}
  SwNobody = SwNobody
  MaxReturnAttempts = 2
  SwMaxTurns = 4
  FtTiles <- MCTiles
  FtReach = 3
  FtMaxCrumbs = 4
  FtKeep = 1
  FtMoves = 6
  FwPlayers = {p1, p2}
  FwNobody = FwNobody
  FwInterval = 2
  FwConfirm = 1
  FwMaxFailures = 2
  FwMaxMaps = 1
  LtSlots = {1, 2}
  LtQuaff = {hp}
  LtPermanent = {att}
  LtGear = {}
  LtDrinks = TRUE
  LtSpares = FALSE
  LtFloor = 1
  LtRetry = 1
  LtPatience = 2
  LtExpiry = 1
  LtRefusal = 2
  LtHands = 1
  LtGuard = 2
  LtNothing = LtNothing
  LtUnsent = LtUnsent
  LrPotions = {"heal", "permanent"}
  LrGear = {"weapon"}
  LrTiers = {0, 1}
  LrStack = 2
  LrBelt = 3
  LrNone = LrNone
  QaBags = {1, 2}
  QaQuests = {q1, q2}
  QaNobody = QaNobody
  QaRestate = 1
  VsSlots = 3
  VsRanks = {1, 2}
  VsInterval = 1
  VsPatience = 1
  VsStrikes = 2
  VsExpiry = 1
  VsSilences = 2
  VsRuns = 2
  VsNone = VsNone
  VsUnsent = VsUnsent
  ClNumbers = {1, 2}
  ClLease = 2
  ClUnset = ClUnset
  ClMaxLinks = 2
  ClMaxMoves = 3
INVARIANTS ErrandTypes ErrandsAreTrue
PROPERTIES ErrandsStepFairly ErrandsEnd
CHECK_DEADLOCK FALSE

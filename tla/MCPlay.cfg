SPECIFICATION Spec
CONSTANTS
  Subjects = {"nexus", "ground", "sanctuary", "push", "ability", "drink", "portals", "answers", "callouts", "respects", "chat", "aim", "walls", "motion", "steering", "disguise", "streamer", "wardrobe", "antilag"}
  cave = cave
  d1 = d1
  d2 = d2
  den = den
  g1 = g1
  g2 = g2
  g3 = g3
  m1 = m1
  m2 = m2
  town = town
  x1 = x1
  x2 = x2
  NxShots = {x1, x2}
  NxHurts = {2}
  NxFull = 3
  NxLine = 2
  NxForecastLine = 1
  NxDrift = 1
  NxWarmup = 1
  NxMaxAoes = 1
  NxMaxMaps = 1
  NxUnknown = 1
  NxNone = NxNone
  HgHolds = {2, 4}
  HgRearm = 3
  HgTick = 2
  HgNever = HgNever
  SaMaps = {m1, m2}
  PtTypes = {g1, g2, g3}
  PtPushing = {g1}
  PtPlaces = {1, 2}
  PtUnknown = PtUnknown
  AaAbilities <- MCAbilities
  AaMinInterval = 1
  AaManualPause = 4
  AaMapSettle = 2
  AaAnswer = 1
  AaRetry = 2
  AaRetryMax = 8
  AdKinds = {"h", "m"}
  AdHealth = "h"
  AdCooldown = 2
  AdExpiry = 2
  PoPortals = {d1, d2}
  PoPlaces = {town, cave, den}
  PoNexus = town
  PoNowhere = PoNowhere
  PoRetry = 1
  PoKeep = 3
  PoEnterEvery = 1
  CaUnit = 1500
  CaMet = {1, 4, 9}
  CaPauses = {0, 1, 4}
  CaLines <- MCAnswerLines
  CaNever = CaNever
  CoPortals <- MCPortals
  CoDistance <- MCDistance
  CoReach = 3
  CoMaxPending = 1
  CoInterval = 2
  CoSettle = 2
  CoNever = CoNever
  CoMaxMaps = 1
  PrMinPause = 1
  PrMaxPause = 2
  PrLate = 2
  PrCooldown = 4
  PrNever = PrNever
  CbLines <- MCChatLines
  CbMe = "me"
  CbBare <- MCBare
  CbStandIn = 3
  CbOthers = {"bot", "friend"}
  CbSystem = "sys"
  CbNpc = "npc"
  CbAlias = "alias"
  CbRules <- MCRules
  CbMaxScanned = 7
  CbFloodRun = 3
  CbFloodMin = 4
  CbMost = 1
  CbSwitched = {"advertising"}
  MtSteps <- MCSteps
  MtTop = 2
  MtStale = 2
  MtMaxTicks = 1
  MtMaxNow = 4
  AmFields <- MCFields
  AmPriorities <- MCPriorities
  AmRange = 4
  AmSpeed = 2
  AmMaxFlight = 2
  AmParts = 12
  AmTrim = 1
  AmInterval = 2
  AmLease = 3
  AmNobody = AmNobody
  SdStats = {1, 2}
  SdValues = {0, 5}
  SdAbsent = 0
  SdNone = SdNone
  SdMaxSessions = 1
  SmStats = {"name", "guild"}
  SmName = "name"
  SmAliases = {"blank", "a1", "a2"}
  SmBlank = "blank"
  SmReal = "real"
  SmNone = "none"
  WdClasses = {"c1", "c2"}
  WdSkins <- MCSkins
  WdSizes = {0, 100}
  WdPlain = "plain"
  WdUsual = 100
  WdNone = WdNone
  AlIds = {1, 2}
  AlSelf = 1
  AlKinds = {"self", "player", "enemy"}
  AlSizes = {100, 60}
  AlDefault = 100
  AlNone = AlNone
  AlRemoved = AlRemoved
  AlMaxMaps = 1
  AlMaxChanges = 3
  DgLast = 2
  DgBeasts = {2}
  DgRange = 1
  DgReach = 1
  DgShare = 1
  DgFull = 2
  DgHold = 2
  DgGrounds <- MCGrounds
  DgAnswers <- MCAnswers
  DgDriving <- MCDriving
  DgNone = DgNone
  DgMaxTurns = 2
INVARIANTS PlayTypes ShownAsSwitched ActsOnWhatItSaw
PROPERTIES ActsInTime
CHECK_DEADLOCK FALSE

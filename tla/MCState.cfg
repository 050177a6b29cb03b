SPECIFICATION Spec
CONSTANTS
  Subjects = {"world", "self", "shots", "blasts", "view", "patterns", "codec", "framer", "pipe"}
  CdByte = 16
  CdDocs <- MCDocs
  CdTraffic <- MCTraffic
  CdEdits <- MCEdits
  CdWrong = CdWrong
  CdNone = CdNone
  FrHead = 4
  FrLeast = 5
  FrMost = 12
  FrRoom = 6
  FrCompact = 8
  FrStreams <- MCStreams
  IpHead = 2
  IpCap = 2
  IpMenu <- MCMenu
  IpMaxFrames = 3
  b1 = b1
  t1 = t1
  t2 = t2
  v1 = v1
  v2 = v2
  WoIds = {1, 2}
  WoTypes <- MCTypes
  WoPlaces = {1, 2}
  WoTileNews <- MCTileNews
  WoNone = WoNone
  SfIds = {1}
  SfClasses = {"c"}
  SfAmounts = {0, 1}
  SfItems = {"a", "b"}
  SfCarried = {4, 5}
  SfBackpack = {12}
  SfNone = SfNone
  ShOwners = {0}
  ShBullets = {3}
  ShWidth = 2
  ShSquares = 3
  ShKinds <- MCKinds
  ShNone = ShNone
  MaxLag = 1
  MaxWalls = 1
  MaxVolleys = 2
  MaxClock = 6
  BlTypes = {t1, t2}
  BlBombers = {b1}
  BlFlight <- MCFlight
  BlSaid <- MCSaid
  BlPlaces = {0, 4}
  BlHome = 0
  BlRadii = {1, 2}
  BlReach = 1
  BlDefault = 2
  BlWindow = 2
  BlMost = 3
  BlNone = BlNone
  BlMaxThrows = 2
  BlOldest = 4
  BlMaxLandings = 1
  CvSessions = {v1, v2}
  CvNobody = CvNobody
  CvDelays = {0, 1}
  CvNudges <- MCNudges
  CvWindow = 2
  CvFresh = 2
  CvEver = 8
  CvMaxNudges = 2
  ApMonsters = {"turret", "archer"}
  ApRows = 1
  ApHistory = 3
  ApCircle = 8
  ApSlack = 1
  ApCone = 2
  ApLongest = 1
  ApForget = 2
  ApSure = 2
  ApStyles <- MCStyles
  PkBelieved = 1
  PkFresh = 1
  PkDrift = 1
  PkWide = 2
  PkLead = 1
  PkSights <- MCSights
  PkBearings <- MCBearings
  ApNobody = ApNobody
INVARIANTS WorldIsAsSaid BytesAreWhole
PROPERTIES KnownStepByStep
CHECK_DEADLOCK FALSE

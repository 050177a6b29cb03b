SPECIFICATION Spec
CONSTANTS
  Subjects = {"loader", "preferences", "life", "plugins", "settings", "overlay", "reentry"}
  aim = aim
  c1 = c1
  c2 = c2
  f1 = f1
  f2 = f2
  f3 = f3
  i1 = i1
  i2 = i2
  noclip = noclip
  s1 = s1
  s2 = s2
  Absent = Absent
  File = {f1, f2, f3}
  Id = {i1, i2}
  Provides <- MCProvides
  MaxEdits = 3
  MaxReloads = 2
  Foreign = Foreign
  Nothing = Nothing
  Half = Half
  MaxChanges = 3
  MaxKills = 2
  Client = {c1, c2}
  None = None
  Plugin = {noclip, aim}
  DefaultOn = {aim}
  Handling = {aim}
  Curious = {}
  SlotsOf <- MCSlotsOf
  MaxHandlerErrors = 2
  Noclip = noclip
  Session = {s1, s2}
  Budget = 2
  MaxSeconds = 3
  MaxTurns = 3
  StNumbers <- MCNumbers
  StPresets <- MCPresets
  StLeast = 1
  StMost = 2
  StPicks = {"plain", "red"}
  StPlain = "plain"
  StPictured = TRUE
  StJunk = "junk"
  OmLists <- MCLists
  OmBudget = 6
  OmLeast = 1
  OmMost = 2
  OmEdits = {2, 9}
  OmNone = OmNone
  OmMaxEdits = 2
  OmMaxMoves = 1
  OmMaxLinks = 2
  OrAsks <- MCAsks
  OrMost = 2
  OrSpacing = 1
  OrWindow = 1
  OrBlame = 0
  OrHold = 1
  OrNone = OrNone
  OrMaxAsks = 3
  OrMaxTime = 2
INVARIANTS RuntimeTypes PluginsRunAsHosted SwitchesAreTrue StoredIsTrue ReentryLosesNothing
PROPERTIES NothingUndone EverythingSettles
CHECK_DEADLOCK FALSE

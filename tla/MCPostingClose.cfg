SPECIFICATION PCSpec
CONSTANTS
  Subs = {s1}
  Org = Org
  Subledgers = {ar}
  GL = gl
  Requests = {r1, r2}
  NoRequest = NoRequest
  Admins = {a1}
  MaxHours = 2
  Docs = {d1}
SYMMETRY RequestSymmetry
VIEW Distinguished
INVARIANTS
  HardCloseDominates
  EveryTimerHasAWindow
  WindowWithinPolicy
  LiveWindowsDisjoint
  ClosedMeansSettled
PROPERTIES
  HardCloseNeedsApproval
  NoPostingIntoClosed

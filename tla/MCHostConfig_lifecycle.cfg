SPECIFICATION McSpec
CONSTANTS
  Procs = {p1, p2}
  NoProc = NoProc
  Commands = {"install", "enable", "disable", "uninstall", "legacy_on", "legacy_off",
              "register", "unregister", "confirm", "clear"}
  Codes = {"c1", "c2"}
  MaxRev = 12
  Reserve = 5
  MaxFailures = 1
  Notes = {n1, n2}
  Elsewhere = 99
  MaxEdits = 1
INVARIANTS
  SettledIsTrue
  TrustWasReviewed
PROPERTIES
  EditsSurvive
  NoLostUpdate
  LifecycleRecovers
CHECK_DEADLOCK FALSE

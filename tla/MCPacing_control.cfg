SPECIFICATION McSpec
CONSTANTS
  None = None
  Tasks = {1, 2, 3}
  Deps <- McDeps
  Rank <- McRank
  Due <- McDue
  Principal <- McPrincipal
  Estimate <- McEstimate
  Estimates = {None, 2}
  Windows <- McWindows
  Second = 2
  Preferences <- McPreferences
  Deadline = 100
  Floor = 1
  Spends = {1, 4}
  MaxProbeSteps = 8
  MaxTime = 7
  Durations = {1, 4}
  EventTimes = {1, 3}
  Changes <- Lasting
  MaxEvents = 2
  RecordIds = {1, 2, 3}
  Amounts = {1, 2, 4}
  MaxStaleness = 1
  Readings <- McReadings
  Validity <- McValidity
  LastArrival = 4
  Horizon = 12
INVARIANTS
  InstantsAreRight
  AnswersAreTrue
  BeliefMatchesWorld
PROPERTIES
  StartsFit
  RealStartsFit
  EveryTaskCompletes
CHECK_DEADLOCK FALSE

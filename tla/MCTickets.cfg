SPECIFICATION AllSpec
CONSTANTS
  w1 = w1
  w2 = w2
  Writers = {w1, w2}
  Operations <- BoardOperations
  Targets <- BoardTargets
  Lists = {{}, {1}}
  Patches <- BoardPatches
  Hands = {"h1", "h2"}
  Stamped = {"h1"}
  Breaking = {"h2"}
  Damage = {"broken", "markdown_inside"}
  Rounds = 2
  MaxId = 3
  Old = {1}
  None = None
  Fixes = {1, 2}
  MaxEdits = 3
  MaxStarts = 1
  MaxRefusals = 1
  MaxBusy = 0
  MaxRetries = 1
  Kinds = {1, 2}
  MaxFailures = 1
  MaxEnds = 2
  MaxActs = 3
  MaxRuns = 4
  N = 2
  Gated = {1, 2}
  Contracted = {1}
  MaxTurns = 2
  MaxTotalTurns = 3
  MaxStateTurns = 2
  MaxAttempts = 1
  MaxMoves = 2
  MaxFaults = 3
  MaxCrashes = 1
  Orchs = {o1, o2}
  MaxHeartbeats = 2
  MaxCuts = 1
  MaxIncidents = 4
INVARIANTS
  GatesRun
  OneOpenFix
  WorktreeRemoved
PROPERTIES
  SavesUndoNothing
  HoldSurvives
CHECK_DEADLOCK FALSE

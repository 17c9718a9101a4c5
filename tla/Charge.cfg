SPECIFICATION MCSpec
CONSTANTS
    Rows = {1, 2}
    Idle = 1
    Margin = 1
    Skew = 1
    MinDuration = 1
    MinGap = 1
    SaveEvery = 1
    MaxTime = 5
    MaxCrashes = 2
    MaxDeletes = 1
    Scenes = {"failing", "ended", "deleted", "clock"}
INVARIANTS SessionHoldsItsRow EndsWhereHeard
PROPERTY OrphansClose

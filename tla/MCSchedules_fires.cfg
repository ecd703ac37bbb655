\* One row of any kind: two of everything, and one edit.
SPECIFICATION FairSpec
CONSTANTS
    MaxTime = 2
    MaxFires = 2
    MaxAsked = 2
    MaxEdits = 1
    MaxMishaps = 2
INVARIANTS SlotOnce ScheduleGapless RunsAreTracked
PROPERTY FiresProceed
CHECK_DEADLOCK FALSE

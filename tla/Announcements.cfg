CONSTANTS
    Parts = {"summon", "dispatch"}
    MaxVersion = 2
    Modes = {"auto", "version"}
    Outcomes = {"waiting", "Ready", "fault"}
    MaxTries = 2
    MaxEdits = 1
    MaxFailures = 1
SPECIFICATION FairSpec
INVARIANT TypeOK
INVARIANT NoRepeatOnceRecorded
PROPERTY HonestWithoutConflict
PROPERTY NewestAnnounced

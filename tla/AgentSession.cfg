\* Two prompts, three sessions of one transcript, one Stop, one failure.
SPECIFICATION FairSpec
CONSTANTS
    MaxPrompts = 2
    MaxConnections = 3
    MaxStops = 1
    MaxFaults = 1
    SkillsVanish = FALSE
INVARIANTS TypeOK OneQuery TabAgrees OwnTurnOnly
PROPERTY WaitingEnds
CHECK_DEADLOCK FALSE

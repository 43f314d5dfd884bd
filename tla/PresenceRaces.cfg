SPECIFICATION FairSpec
CONSTANTS
    bob = bob
    j1 = j1
    j2 = j2
    j3 = j3
    Partners = {bob}
    NoPartner = NoPartner
    Jobs = {j1, j2, j3}
    NoJob = NoJob
    MaxFaults = 1
    MaxMoves = 3
INVARIANTS TypeOK BeatIsOwned CleanupEndsBeats ChatIsHonest
PROPERTIES OfflineInTheEnd HeartbeatRepairs
CHECK_DEADLOCK FALSE

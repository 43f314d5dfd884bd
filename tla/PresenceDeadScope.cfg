SPECIFICATION Spec
CONSTANTS
    bob = bob
    j1 = j1
    j2 = j2
    j3 = j3
    Partners = {bob}
    NoPartner = NoPartner
    Jobs = {j1, j2, j3}
    NoJob = NoJob
    MaxFaults = 1
    MaxMoves = 3
INVARIANT ActiveIsBeating
CHECK_DEADLOCK FALSE

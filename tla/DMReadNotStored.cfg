SPECIFICATION Spec
CONSTANTS
    alice = alice
    bob = bob
    m1 = m1
    m2 = m2
    NoMsg = NoMsg
    Users = {alice, bob}
    Msgs = {m1}
    From <- OneFrom
    To <- OneTo
    Realtime = {bob}
    Purging = FALSE
    MaxFaults = 0
    MaxMoves <- Moves11
INVARIANT DeletedIsStored
CHECK_DEADLOCK FALSE

SPECIFICATION LiveSpec
CONSTANTS
    alice = alice
    bob = bob
    m1 = m1
    m2 = m2
    NoMsg = NoMsg
    Users = {alice, bob}
    Msgs = {m1, m2}
    From <- TwoFrom
    To <- TwoTo
    Realtime = {bob}
    Purging = FALSE
    MaxFaults = 0
    MaxMoves <- Moves12
PROPERTIES ListedIsConsumed FetchedIsConsumed
CHECK_DEADLOCK FALSE

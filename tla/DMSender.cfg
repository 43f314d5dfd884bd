SPECIFICATION Spec
CONSTANTS
    alice = alice
    bob = bob
    m1 = m1
    m2 = m2
    NoMsg = NoMsg
    Users = {alice, bob}
    Msgs = {m1}
    From <- OneFrom
    To <- OneTo
    Realtime = {alice}
    Purging = TRUE
    MaxFaults = 1
    MaxMoves <- Moves23
INVARIANTS OwnMessagesKept TicksHonest
PROPERTY ImplementsMailbox
VIEW View
CHECK_DEADLOCK FALSE

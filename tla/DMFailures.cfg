SPECIFICATION Spec
CONSTANTS
    alice = alice
    bob = bob
    m1 = m1
    m2 = m2
    NoMsg = NoMsg
    Users = {alice, bob}
    Msgs = {m1}
    From <- OneFrom
    To <- OneTo
    Realtime = {bob}
    Purging = FALSE
    MaxFaults = 1
    MaxMoves <- Moves13
INVARIANTS TypeOK NoUnseenLoss OwnMessagesKept ReadRowsGo
VIEW View
CHECK_DEADLOCK FALSE

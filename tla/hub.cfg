SPECIFICATION Spec
CONSTANTS
    alice = alice
    bob = bob
    a1 = a1
    a2 = a2
    b1 = b1
    Users = {alice, bob}
    Clients = {a1, a2, b1}
    Owner <- MCOwner
    Conv = Conv
    Loop = Loop
    None = None
    BufferSize = 1
    MaxQueue = 1
    MaxChanges = 1
    MaxSends = 1
SYMMETRY Symmetry
INVARIANTS TypeOK SubscriptionsMatch ChannelsHaveSessions OnlyMembersReceive
CHECK_DEADLOCK FALSE

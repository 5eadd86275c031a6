CONSTANTS
    left = left
    right = right
    home = home
    away = away
    alice = alice
    bob = bob
    Tabs = {left, right}
    Browsers = {home, away}
    Principals = {alice, bob}
    None = None
    PendingCap = 1
    SessionTtl = 1
    Worlds <- MCWorlds
SPECIFICATION Spec
INVARIANTS
    TypeOK
    ExchangedOnce
    PendingBounded
    OwnSessions
PROPERTIES
    ImplementsLedger
    FlowsEnd

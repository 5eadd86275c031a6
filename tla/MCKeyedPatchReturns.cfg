CONSTANTS
    a = a
    b = b
    c = c
    d = d
    Keys = {a, b}
    BodiesOf <- PairChanges
    Chromes = {list}
    Animated = {a}
    NoKey = NoKey
    QuickReturns = TRUE
SPECIFICATION Spec
INVARIANT
    RemovedNodesGo

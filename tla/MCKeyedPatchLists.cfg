CONSTANTS
    a = a
    b = b
    c = c
    d = d
    Keys = {a, b, c, d}
    BodiesOf <- OneChanges
    Chromes = {list, listAndTitle}
    Animated = {a, b}
    NoKey = NoKey
    QuickReturns = FALSE
SPECIFICATION Spec
INVARIANT
    ShowsLastBatch
PROPERTIES
    UnchangedNodesSurvive
    FewestMoves

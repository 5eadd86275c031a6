CONSTANTS
    Callers = {alice, bob}
    Routes = {contact, confirm}
    SpendRoutes = {confirm}
    Intents = {payA}
    NoIntent = NoIntent
    FormSchema = FormSchema
    Weights <- MCWeights
    TokenLife = 1
    StoreCap = 1
    SpendWindow = 2
    SpendLimit = 2
    MaxTime = 3
    MaxTokens = 4
SPECIFICATION Spec
INVARIANTS
    TypeOK
    Inductive
    SingleUse
    NoncesUnique
    NoFalseReplay
    StoreBounded
    SpendWindowBounded
    VelocityAgrees
PROPERTY
    ImplementsTickets

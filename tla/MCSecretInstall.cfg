CONSTANTS
    Calls = {first, second, third, fourth}
    NoSecret = NoSecret
SPECIFICATION Spec
INVARIANTS
    Inductive
    SettledCredentialsHold

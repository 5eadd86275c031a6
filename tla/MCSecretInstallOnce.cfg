CONSTANTS
    Calls = {first, second}
    NoSecret = NoSecret
SPECIFICATION Spec
PROPERTY
    InstalledOnce

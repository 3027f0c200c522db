SPECIFICATION FairSpec
CONSTANTS
    b1 = b1
    b2 = b2
    foreground = foreground
    Backgrounds = {b1, b2}
    Outside = {}
    Configs <- Pairs
    None = None
INVARIANTS CleanEnd
PROPERTIES ManagerReturns

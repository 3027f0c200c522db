SPECIFICATION Spec
CONSTANTS
    b1 = b1
    b2 = b2
    foreground = foreground
    Backgrounds = {b1}
    Outside = {foreground}
    Configs <- Singles
    None = None
INVARIANTS DatasetsAreHonest FailureIsSignalled
PROPERTIES FinishedIsFinal

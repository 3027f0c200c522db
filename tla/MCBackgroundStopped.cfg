SPECIFICATION Spec
CONSTANTS
    b1 = b1
    b2 = b2
    foreground = foreground
    Backgrounds = {b1}
    Outside = {foreground}
    Configs <- Stopped
    None = None
PROPERTIES StoppedIsIncomplete

SPECIFICATION Spec
CONSTANTS
    Steps <- MCSteps
    Variables = {"x", "y", "v"}
    Pages = {"P", "Q", "N", "R"}
    None = None
    Root <- MCRoot
    Kind <- MCKind
    Body <- MCBody
    Else <- MCElse
    Variable <- MCVariable
    Page <- MCPage
    Limit <- MCLimit
INVARIANT NoRootRowOnFailure

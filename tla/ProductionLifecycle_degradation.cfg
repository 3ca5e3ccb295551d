SPECIFICATION Spec
CONSTANTS
    Contents = {a, b}
    None = None
INVARIANTS
    PostCommitFailureIsDegradation

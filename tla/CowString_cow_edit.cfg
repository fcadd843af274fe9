SPECIFICATION Spec
CONSTANTS
    Strings = {h1, h2}
    Threads = {t1}
    Blocks = {b1, b2}
    Short = {empty}
    Long = {err, text}
    Empty = empty
    ErrText = err
    NoString = NoString
    NoBlock = NoBlock
    Counting = {TRUE}
    MoveAcrossOwnerized = FALSE
PROPERTIES ValueSemantics
CHECK_DEADLOCK FALSE

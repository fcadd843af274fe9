SPECIFICATION Spec
CONSTANTS
    Strings = {h1, h2, h3}
    Threads = {t1, t2}
    Blocks = {b1, b2}
    Short = {empty}
    Long = {err, text}
    Empty = empty
    ErrText = err
    NoString = NoString
    NoBlock = NoBlock
    Counting = {TRUE, FALSE}
    MoveAcrossOwnerized = FALSE
SYMMETRY Symmetry
INVARIANTS CountIsHolders NoDangling FreedByLastHolder NoLeak NoRace
PROPERTIES UncountedKept
CHECK_DEADLOCK FALSE

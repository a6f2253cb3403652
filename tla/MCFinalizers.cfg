\* Every order of creating, registering, dropping, collecting and closing.
SPECIFICATION Spec
CONSTANTS
    c1 = c1
    c2 = c2
    f1 = f1
    Cdata <- MCCdata
    Closures <- MCClosures
    Pointers <- MCPointers
    Plain = Plain
    None = None
    Versions <- MCVersions
INVARIANTS
    FinalizerKept
    ReachableCodeLive
    OldFinalizersSafe
PROPERTIES
    FinalizedInTheEnd
\* Nothing happens any more once lua_close has finalized everything.
CHECK_DEADLOCK FALSE

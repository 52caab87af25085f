SPECIFICATION Spec
CONSTANTS
    t1 = t1
    t2 = t2
    Tools = {t1, t2}
    MaxChunks = 3
    EmptyObject = EmptyObject
    None = None
INVARIANTS
    EndToldTruly
PROPERTIES
    ImplementsProtocol
SYMMETRY AnyTool
CHECK_DEADLOCK FALSE

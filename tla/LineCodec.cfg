SPECIFICATION Spec
CONSTANTS
    Messages = {m1, m2}
    MaxLength = 3
    MaxNoise = 3
    None = None
    Error = Error
    Newline = Newline
    CarriageReturn = CarriageReturn
    Brace = Brace
    Junk = Junk
INVARIANTS
    TypeOK
    PiecesDoNotMatter
    FramesWhole
CHECK_DEADLOCK FALSE

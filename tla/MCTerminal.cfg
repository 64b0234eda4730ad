SPECIFICATION Spec
CONSTANTS
    Keys <- MCKeys
    KeyBytes <- MCKeyBytes
    KeyEvent <- MCKeyEvent
    PasteKey = "paste"
    PastedKey = "pasted"
    PastedText <- MCPastedText
    Sizes <- MCSizes
    MaxKeys = 2
    MaxResizes = 2
    PasteCap = 4
    MaxModeCalls = 4
    Codes <- MCCodes
    TextLength = 2
    OddBytes <- MCOddBytes
    OddLength = 4
    WcWidth <- MCWcWidth
    Rows = 2
    Cols = 3
    Cells <- MCCells
    Fills <- MCFills
    Clips <- MCClips
    Dims <- MCDims
    Garbage <- MCGarbage
INVARIANTS
    TypeOK
    DecodesKeys
    PasteIsExact
    SizeIsCurrent
    TerminalRestored
    WalkAgrees
    ScreenShowsFrame
PROPERTIES
    ResizeReported
CHECK_DEADLOCK FALSE

SPECIFICATION FairSpec
CONSTANTS
    Width = 1
    Height = 3
    Colours = {0, 1}
    DrawRegions <- MCDrawRegions
    Copies <- MCNoCopies
    Frames <- MCFrames
    Requests <- MCWholeScreen
    EncodingLists <- MCPlainLists
    CursorRegion <- MCCursor
    BackgroundLoop = TRUE
    SliceHeight = 0
    LimitRects = FALSE
    MaxOps = 2
PROPERTY CursorShapeSent

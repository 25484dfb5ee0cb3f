SPECIFICATION Spec
CONSTANTS
    Width = 1
    Height = 3
    Colours = {0, 1}
    DrawRegions <- MCDrawRegions
    Copies <- MCNoCopies
    Frames <- MCFrames
    Requests <- MCWholeScreen
    EncodingLists <- MCCopyRectLists
    CursorRegion <- MCCursor
    BackgroundLoop = TRUE
    SliceHeight = 0
    LimitRects = FALSE
    MaxOps = 3
INVARIANT Represents

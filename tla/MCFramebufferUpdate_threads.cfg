SPECIFICATION FairSpec
CONSTANTS
    Width = 1
    Height = 3
    Colours = {0, 1}
    DrawRegions <- MCDrawRegions
    Copies <- MCNoCopies
    Frames <- MCFrames
    Requests <- MCFewRequests
    EncodingLists <- MCPlainLists
    CursorRegion <- MCCursor
    BackgroundLoop = TRUE
    SliceHeight = 1
    LimitRects = TRUE
    MaxOps = 2
INVARIANTS TypeOK Represents
PROPERTY Converges

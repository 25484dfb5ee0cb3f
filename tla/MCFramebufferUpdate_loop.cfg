SPECIFICATION FairSpec
CONSTANTS
    Width = 1
    Height = 3
    Colours = {0, 1}
    DrawRegions <- MCDrawRegions
    Copies <- MCCopies
    Frames <- MCFrames
    Requests <- MCFewRequests
    EncodingLists <- MCLists
    CursorRegion <- MCCursor
    BackgroundLoop = FALSE
    SliceHeight = 2
    LimitRects = TRUE
    MaxOps = 3
PROPERTIES ImplementsRemoteDisplay Converges CursorShapeSent

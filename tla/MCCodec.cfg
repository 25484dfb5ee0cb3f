SPECIFICATION MCSpec
CONSTANTS
    Width = 5
    Height = 3
    Deltas <- MCDeltas
    Sizes <- MCSizes
    Colours = {0, 1, 2}
    PixelSizes = {1, 4}
    Encodings = {"hextile", "rre", "corre"}
    ScreenWidth = 7
    ScreenHeight = 7
    Updates <- MCUpdates
    CorreMax = 3
    MaxStripSize = 15
    MaxSplitTileSize = 2
    MinSplitRectSize = 12
    MinSolidSubrectSize = 6
    MaxRectSize = 14
    MaxRectWidth = 4
INVARIANTS ClientCopiesAtOnce ServerCopiesRectAtOnce PixelsRestored TileFits InSync CountKept EachPixelOnce

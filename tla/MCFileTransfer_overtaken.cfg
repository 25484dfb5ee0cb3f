SPECIFICATION MCSpec
CONSTANTS
    Clients = {c1, c2}
    Files = {"f1", "f2", "f3"}
    Size <- MCSize
    Uploads = {u1, u2}
    OwnThreads = TRUE
    MaxDownloads = 2
    None = None
    SharedFiles = {"f1", "f2"}
    Blocks <- MCSize
    OfferBlocks = 2
    MaxTransfers = 3
    Closed = Closed
INVARIANT NoHalfUpload
CHECK_DEADLOCK FALSE

SPECIFICATION MCCancelSpec
CONSTANTS
    Clients = {c1}
    Files = {"f1"}
    Size <- MCSize
    Uploads = {}
    OwnThreads = TRUE
    MaxDownloads = 1
    None = None
    SharedFiles = {"f1"}
    Blocks <- MCSize
    OfferBlocks = 1
    MaxTransfers = 1
    Closed = Closed
PROPERTY CancelEnds
CHECK_DEADLOCK FALSE

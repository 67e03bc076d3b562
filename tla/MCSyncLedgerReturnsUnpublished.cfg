SPECIFICATION Spec
CONSTANTS
    Payloads = {p1, p2}
    NoPayload = NoPayload
    Chats = {self, group}
    Home = self
    MaxSeq = 3
    MaxIssued = 2
    MaxOwn = 2
    MaxMessages = 3
    MaxOrphans = 1
    ReturnsAllowed = TRUE
INVARIANT EmptyLedgerMeansUnpublished
CHECK_DEADLOCK FALSE

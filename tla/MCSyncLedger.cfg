SPECIFICATION Spec
CONSTANTS
    Payloads = {p1, p2}
    NoPayload = NoPayload
    Chats = {self, group}
    Home = self
    MaxSeq = 4
    MaxIssued = 2
    MaxOwn = 2
    MaxMessages = 4
    MaxOrphans = 1
    ReturnsAllowed = TRUE
INVARIANTS StateSerializes StageIsPending OneRecordPerSeq HeadPublished FreshChatUnpublished
PROPERTY DeletionKeepsHead
SYMMETRY PayloadSymmetry
CHECK_DEADLOCK FALSE

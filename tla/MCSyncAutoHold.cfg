SPECIFICATION Spec
CONSTANTS
    Texts = {t1, t2}
    NoText = NoText
    MaxGeneration = 3
    Payloads <- MCPayloads
    NoPayload = NoPayload
    Chats = {self}
    Home = self
    MaxSeq = 3
    MaxIssued = 3
    MaxOwn = 3
    RetryLimit = 1
    RetireLimit = 1
    ClientModes <- PostingOneFault
    MaxMessages = 3
    MaxSaves = 3
INVARIANT OwnershipHoldMeansChanged
SYMMETRY TextSymmetry
CHECK_DEADLOCK FALSE

SPECIFICATION Spec
CONSTANTS
    Texts = {t1, t2}
    NoText = NoText
    MaxGeneration = 3
    Payloads <- MCPayloads
    NoPayload = NoPayload
    Chats = {self}
    Home = self
    MaxSeq = 2
    MaxIssued = 3
    MaxOwn = 3
    RetryLimit = 1
    RetireLimit = 1
    ClientModes <- PostingOneFault
    MaxMessages = 3
    MaxSaves = 2
INVARIANT OnlySavedPublished
SYMMETRY TextSymmetry
CHECK_DEADLOCK FALSE

SPECIFICATION Spec
CONSTANTS
    m1 = m1
    m2 = m2
    c1 = c1
    c2 = c2
    i1 = i1
    i2 = i2
    b1 = b1
    Msgs = {m1, m2}
    Chats = {c1, c2}
    ChatOf <- ChatOfMessage
    Identities = {i1, i2}
    Blobs = {b1}
    BlobOf <- SameBytes
    Texts = {"first", "second", "copy"}
    Fills = {"", "filled", "other"}
    Empty = ""
    Events <- Captures
    Jobs = {j1, j2}
    Leases = {l1}
    Scopes <- AccountOrChat
    Account = Account
    Nothing = Nothing
    MaxPurges = 1
INVARIANTS TypeOK StateValid OwnedBytesOnDisk ErasedNeverReturns
PROPERTIES BodiesOnlyGain CopiesKept
SYMMETRY JobSymmetry
CHECK_DEADLOCK FALSE

SPECIFICATION SqlSpec
CONSTANTS
    m1 = m1
    m2 = m2
    c1 = c1
    c2 = c2
    i1 = i1
    b1 = b1
    Msgs = {m1, m2}
    Chats = {c1, c2}
    ChatOf <- ChatOfMessage
    Identities = {i1}
    Blobs = {b1}
    BlobOf <- OwnBytes
    Texts = {"first", "second", "copy"}
    Fills = {""}
    Empty = ""
    Events <- Captures
    Jobs = {j1, j2}
    Leases = {l1}
    Scopes <- OneOrBothChats
    Account = Account
    Nothing = Nothing
    MaxPurges = 1
PROPERTIES ActsAsOnePurge PurgeEnds
CHECK_DEADLOCK FALSE

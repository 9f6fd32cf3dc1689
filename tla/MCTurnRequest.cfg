CONSTANTS
    v1 = v1
    v2 = v2
    listed = listed
    bad = bad
    xid = xid
    XID = XID
    tid = tid
    misc = misc
    sessionId = sessionId
    threadId = threadId
    Spellings = {xid, XID, tid, misc}
    Fold <- MCFold
    Other = Other
    Values = {v1, v2, listed, bad}
    Valid = {v1, v2, listed}
    Listed = {listed}
    Several = Several
    LastField = 3
    Broken = Broken
    Absent = Absent
    NoKey = NoKey
    Requests <- MCRequests
    piece = piece
    fun1 = fun1
    fun2 = fun2
    callId = callId
    limit = limit
    Pieces = {piece}
    Nothing = Nothing
    FunctionNames = {fun1, fun2}
    Unnamed = Unnamed
    Unknown = Unknown
    CallIds = {callId}
    NoId = NoId
    Constraints = {limit}
    Unrestricted = Unrestricted
    Chats <- MCChats
    Turns <- MCTurns
SPECIFICATION Spec
INVARIANTS VerdictIsOrderFree RequestIsKept

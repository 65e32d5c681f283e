SPECIFICATION Spec
CONSTANTS
    MaxPosts = 2
    MessageParts = 2
    SyncEnds = {"client"}
    MayDie = {"client", "server"}
CHECK_DEADLOCK FALSE
INVARIANTS OwnResponse
PROPERTIES MessagesInOrder NobodyWaitsForever

CONSTANTS
    Entries <- MCEntries
    Replies <- MCReplies
    Parts <- MCParts
    MaxRounds = 2
SPECIFICATION Spec
INVARIANTS TypeOK TokensBilledOnce CacheWritesBilled LineIsTheRows LineAddsUp
\* A call ends.
CHECK_DEADLOCK FALSE

SPECIFICATION RepositoriesSpec
CONSTANTS
    Sessions = {s1}
    Ids = {i1}
    Values = {1, 2}
    Gone = Gone
    Kept = Kept
    MaxBlocks = 2
CHECK_DEADLOCK FALSE
PROPERTIES
    BlocksCommit

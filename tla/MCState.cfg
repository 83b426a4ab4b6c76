SPECIFICATION Spec
CONSTANTS
    KeyLen = 5
    ByteLen = 2
    Ident <- MCIdent
    Name <- MCName
    Member <- MCMember
    NewPrefixedKey <- MCKeys
    Batch <- MCBatch
    Admin = "admin"
    Node = {n1, n2}
    Leader = {n1}
    Disturbed = {n2}
    MaxBlocks = 3
INVARIANTS ContentsExact ReloadExact Reproducible PathsProve OnlyGranted
CHECK_DEADLOCK FALSE

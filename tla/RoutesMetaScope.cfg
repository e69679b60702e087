SPECIFICATION Spec
CONSTANTS
    Dir <- MCPlainDir
    Method = {"GET", "POST", "PUT"}
    Param = {":id", ":clientId"}
    NamePrefixes <- MCNamePrefixes
    Stem <- MCStem
    MountPath <- MCMountPath
    RequestName = {"user", "users", "me", "ws"}
    MaxPieces = 1
    MaxFiles = 2
    MaxMetas = 1
INVARIANTS
    MetaScope
CHECK_DEADLOCK FALSE

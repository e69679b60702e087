SPECIFICATION Spec
CONSTANTS
    Dir <- MCDir
    Method = {"GET", "POST", "PUT"}
    Param = {":id", ":clientId"}
    NamePrefixes <- MCNamePrefixes
    Stem <- MCStem
    MountPath <- MCMountPath
    RequestName = {"users", "me", "ws"}
    MaxPieces = 3
    MaxFiles = 2
    MaxMetas = 2
INVARIANTS
    TypeOK
    ChainInOrder
    MetaCovers
    EndpointsServed
    SocketServesHttp
CHECK_DEADLOCK FALSE

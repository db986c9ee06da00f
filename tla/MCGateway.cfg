SPECIFICATION Spec
CONSTANTS
    Documents <- MCDocuments
    Placeholders <- MCPlaceholders
    Env <- MCEnv
    FieldType <- MCFieldType
    NumberOf <- MCNumberOf
    Credentials <- MCCredentials
    Escapes <- MCEscapes
    Hosts <- MCHosts
    Invocations <- MCInvocations
    Peers <- MCPeers
    Kind <- MCKind
    Address <- MCAddress
    Subnets <- MCSubnets
    AclTable <- MCAclTable
    Urls <- MCUrls
    Commands <- MCCommands
    Auths = {"", "me"}
    Values = {"nil", "a", "list"}
    OutCap = 1
    MaxAsked = 3
    MaxWrites = 1
    MaxEdits = 1
    MaxServedEdits = 0
INVARIANTS
    TypeOK
    OneRedis
    DeniedNeverRuns
    NotModifiedIsCurrent
    RepliesInOrder
CHECK_DEADLOCK FALSE

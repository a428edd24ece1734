CONSTANTS
    Components = {"sockets"}
    MaxFault = 36
    MaxLost = 1
    ARRAY_DEFAULT = 2
    MaxEntries = 4
    MaxPush = 5
    MaxUnits = 3
    DYNRQ_TU = 48
    DYNRQ_BUF = 640
    BUFSIZE = 40
    LINE_MAX = 24
    JESPR_MAXBLK = 3
    MaxStreams = 2
    Opens <- MC_Opens
    Standard <- MC_Standard
    VsamOpens <- MC_VsamOpens
    Records = {1, 2}
    Lengths = {2}
    Listings <- MC_Listings
    Filters <- MC_Filters
    DsAllocated <- MC_DsAllocated
    Units <- MC_Units
    Comments <- MC_Comments
    Directories <- MC_Directories
    Cataloged <- MC_Cataloged
    Vtoc <- MC_Vtoc
    DsGeometry <- MC_DsGeometry
    Contents <- MC_Contents
    Checkpoints <- MC_Checkpoints
    Values <- MC_Values
    Names <- MC_Names
    Spaces <- MC_Spaces
    Volumes <- MC_Volumes
    Allocations <- MC_Allocations
    Dyns <- MC_Dyns
    IDCREC_MAX = 6
    MaxChanges = 2
    OnlineVolumes = {"V1", "V2"}
    Unexpired = {"G"}
    OtherDds = {"A"}
    OnVolumes <- MC_OnVolumes
    InCatalog1 <- MC_InCatalog1
    GivenNames <- MC_GivenNames
    Commands <- MC_Commands
    OsValues = {1, 2}
    OsLengths = {0, 2}
    OsDiskMax = 2
    OsTracks = {0, 3}
    OsExits <- MC_OsExits
    OsExtents <- MC_OsExtents
    SoTasks = {1, 2}
    SoNumbers = {1, 2}
    SoForeign = {2}
    FD_SETSIZE = 1
    SoNames = {"a"}
    SoPeers = {"p", "q"}
    SEND_SEG = 2
    SEND_STALL_MAX = 2
    RECV_CHUNK = 2
    SoReplies <- MC_SoReplies
    SoLengths = {0, 1, 2, 5}
    SoWaits <- MC_SoWaits
    HOSTN = 4
    OCTET = 128
    SoTexts <- MC_SoTexts
    Addresses <- MC_Addresses
    EnvNames <- MC_EnvNames
    EnvValues <- MC_EnvValues
    EnvDds <- MC_EnvDds
    MaxVariables = 1
    MaxFrames = 4
    MaxWork = 4
    MaxAbends = 2
    ESTAE_LEVELS = 2
    AbendCodes = {0}
SPECIFICATION Spec
INVARIANT AddressesAreOwn

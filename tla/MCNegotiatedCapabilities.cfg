CONSTANTS
    ByteBase = 256
    ShortLen = 2
    WordLen = 3
    LongLen = 3
    MaxWireStringBytes = 3
    MaxWireChatBytes = 2
    MaxWireMessagePayloadSize = 60
    MaxWirePayloadSize = 90
    MaxWireMessagesPerPacket = 2
    MaxValueDepth = 2
    DefaultMaxPacketSize = 60
    LargestPacketSize = 90
    EncodeValue <- EncodeObject
    DecodeValue <- DecodeObject
    ReadForm <- WireForm
    EndsEmpty <- ValueEndsEmpty
    Configs <- MCConfigs
    Hellos <- MCHellos
    ClientPackets <- MCClientPackets
    GameDefinitions <- MCGameDefinitions
    Offered <- MCOffered
    GameResponses <- MCGameResponses
    Snapshots <- MCSnapshots
SPECIFICATION SessionSpec
INVARIANT OnlyTheIntersection

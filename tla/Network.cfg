CONSTANTS
    Hosts = {h1, h2}
    Us = Us
    Bcast = Bcast
    None = None
    ARP_CACHE_SIZE = 2
    NET_MAX_SOCKETS = 1
    Ports = {1}
    EPHEMERAL <- EphemeralRange
    MaxTick = 1
    MaxCalls = 4
    MaxPings = 2
    MaxPingSem = 1
    MaxSem = 2
    Apps = {p, q}
    Topics = {x}
    NoApp = NoApp
    NoTopic = NoTopic
    MQTT_MAX_SUBSCRIPTIONS = 1
    ID_MOD = 3
    MaxApi = 4
    MaxInbox = 1
    Segments = {"a", "b"}
    MaxNow = 2
    MaxRequests = 2
    MaxRxSem = 2
    Lengths = {0, 1, 127, 128, 16383, 16384, 2097151, 2097152, 268435455}
    TopicLengths = {1, 5, 125, 127, 128}
    MessageLengths = {0, 1, 2, 120, 890}
    MQTT_MAX_TOPIC_LENGTH = 128
    MQTT_MAX_PACKET_SIZE = 1024
    OptionNumbers = {0, 11, 24, 25, 280, 281, 65535}
    OptionLengths = {0, 12, 13, 268, 269}
    PayloadLengths = {0, 2}
    TokenLengths = {0, 8}
    PduSizes = {280, 1152}
    Octets = {0, 7, 10, 105, 255}
    Words = {0, 1, 32768, 65535}
    ImageBytes = {0, 49, 255}
    MaxImage = 3
    CRC_CHUNK = 2
    RegionStarts = {0, 32, 48, 64, 4096, 536870912}
    RegionSizes = {1, 16, 17, 32, 33, 64, 65, 4095, 4096, 65536, 268435456}
    COAP_MAX_OPTION_COUNT = 16
SPECIFICATION LayersSpec
SYMMETRY Symmetry
INVARIANTS LayersTypeOK SentToOwner PingAnswered NoStrandedData 
      IdsInTurn AnswerIsOurs PathFound
     SumsAreStandard RegionCoversRequest

SPECIFICATION Spec
CONSTANTS
    Owner = "owner"
    Service = "ustack"
    Senders = {"a", "b", "c"}
    HostOf <- MCHostOf
    QSize = 2
    ARP_CACHE_SIZE = 2
    UUDP_RETRIES = 1
    MaxDatagrams = 4
    MaxSends = 1
CONSTRAINT OneWay
INVARIANTS
    InOrder
    EndpointSafe
    OutputSound
CHECK_DEADLOCK FALSE

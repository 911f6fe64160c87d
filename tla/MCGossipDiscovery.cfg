CONSTANTS
    Peers = {1, 2}
    Transports = {"addressed"}
    Faults = {}
    Movers = {1}
    MaxGeneration = 2
    MaxHeartbeat = 1
    MaxInFlight = 2
SPECIFICATION GossipFairSpec
PROPERTIES
    Discovery

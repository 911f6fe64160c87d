CONSTANTS
    Peers = {1, 2}
    Transports = {"sender"}
    Faults = {"removal"}
    Movers = {1}
    MaxGeneration = 2
    MaxHeartbeat = 1
    MaxInFlight = 2
SPECIFICATION GossipFairSpec
PROPERTIES
    Discovery

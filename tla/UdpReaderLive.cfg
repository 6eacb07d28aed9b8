SPECIFICATION UdpSpec
CONSTANTS
    owner1 = owner1
    thread1 = thread1
    Nobody = Nobody
    Clients <- MCClients
    Workers <- MCWorkers
    MaxCalls = 4
    First = 10
    Packet = 2
    Keep = 1
    Datagram = 1
    Cache = 2
    Demand = 3
    FromEnd = 5
    CheckEvery = 2
    MaxLen = 23
    MaxLoads = 2
    MaxLenAgain = 3
INVARIANTS ListSound StillThere
PROPERTIES FlowResumes ReaderGoesOn OwnerReturns
CHECK_DEADLOCK FALSE

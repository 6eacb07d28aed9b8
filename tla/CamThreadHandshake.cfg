SPECIFICATION FairSpec
CONSTANTS
    c1 = c1
    c2 = c2
    w1 = w1
    w2 = w2
    Nobody = Nobody
    Clients <- MCClients
    Workers <- MCWorkers
    MaxCalls = 4
INVARIANT OneWorker
PROPERTIES ServedOnce NoRequestWiped CallReturns IsRendezvous
CHECK_DEADLOCK FALSE

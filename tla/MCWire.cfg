SPECIFICATION Spec
CONSTANTS
    Host <- MCHost
    ArgNames <- MCArgNames
    WordLength = 2
    Protocols <- MCProtocols
    Result <- MCResult
    Change <- MCChange
    Freight <- MCFreight
    MaxHops = 2
    MaxAborts = 1
INVARIANTS Arrives QuorumStored ChainsVerify SameLinks FreightIntact
CHECK_DEADLOCK FALSE

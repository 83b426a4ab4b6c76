CONSTANTS
    n1 = n1
    n2 = n2
    c1 = c1
    Node <- TwoNodes
    Leader <- FirstNode
    Client <- OneClient
    Entry <- SecondNode
    Limit = 1
    Refused = {0}
    MaxTx = 2
    MaxLag = 1
SPECIFICATION FairSpec
INVARIANTS ExecutedInOrder
PROPERTIES Processed
CHECK_DEADLOCK FALSE

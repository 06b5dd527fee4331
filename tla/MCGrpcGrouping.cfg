\* Every call of addGrpcClients over two nodes, each with every form of
\* HostPort, bindGRPC and bindGRPCSSL, and plans of up to three pindexes.
CONSTANTS
    n1 = n1  n2 = n2
    Nodes <- MCNodes
    MaxEntries = 3
    OnlyChoices <- MCOnlyChoices
SPECIFICATION Spec
INVARIANT TypeOK ClientsServeSelectedOnce GroupsDistinctAndOrdered DocCountNeverPanics

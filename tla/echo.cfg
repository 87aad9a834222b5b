\* Both servers; two clients, buffers smaller than a message.
CONSTANTS
    numClients = 2
    UpSpace = 2
    DownSpace = 1
    Backlog = 1
    Length <- Lengths
    Repeats = 2
    Programs = {"iterative", "select"}
    Descriptors = {1, 2}
    TransferBuffer = 2
    Nobody = Nobody

SPECIFICATION Spec

INVARIANTS
    TypeOK
    DescriptorsHeld
    NobodyCutOff
    ReadyWhenServed
    EchoedInOrder

PROPERTIES
    ImplementsService
    ClientsFinish
    ConnectionsForgotten

CHECK_DEADLOCK FALSE

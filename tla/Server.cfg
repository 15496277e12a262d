SPECIFICATION FairSpec
CONSTANTS
    web = web
    rpc = rpc
    wire = wire
    Connection = {web, rpc, wire}
    TransportOf <- OneEach
    ThriftAnswer = {"understood", "starved"}
INVARIANTS
    ServerTypeOK
    OrderlyExit
    ExitTellsTheCause
PROPERTIES
    ShutdownEnds

SPECIFICATION FairSpec
CONSTANTS
    Tag = {"breaker", "setpoint"}
    Value = {0, 1, 2}
    None = None
    Pub = {"feeder.closed", "feeder.setpoint"}
    Sub = {"bus.live"}
    TagOf <- Tags
    Boolean = {"feeder.closed", "bus.live"}
    Endpoint = {"ems", "market"}
    Route <- Routes
    Kinds = {{"publications"}, {"endpoints"}, {"publications", "endpoints"}}
INVARIANT PublicationNotLost
INVARIANT EndpointNotLost
PROPERTY SimulationFollows
INVARIANT IOInv

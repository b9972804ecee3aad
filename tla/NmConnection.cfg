SPECIFICATION FairSpec
CONSTANTS
    Messages = {m1}
    NoMessage = NoMessage
    DeferredCapacity = 2
    QueueDepth = 2
    MaxSessions = 2
    MaxRequests = 1
    MaxOverlaps = 1
    Preferences = {"MQTT", "ESP_NOW"}
INVARIANT FollowersAgree
INVARIANT HeldOrSent
PROPERTY RouteSettles

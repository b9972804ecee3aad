CONSTANTS
    None = None
    Managed = {"sensor", "copy", "tuned", "mirror"}
    Remote = {"remote", "state"}
    Mirrors <- MCMirrors
    Tuned = {"tuned"}
    Data = {1, 2}
    Faults = {"settings", "sources"}
    Addresses <- MCAddresses
    Declared <- MCDeclared
    States = {"state"}
    Depth = 1
    Versions = {1}
    Requests = {"manifest", "states"}
    Firmwares <- MCFirmwares
    Toggled = {"sensor"}
    Dropped = {"sensor", "tuned", "state"}
    Restarts = TRUE
    Nowhere = Nowhere
    Unset = Nowhere
    MaxMessage = 20
    MaxArguments = 5
    MaxExpression = 19
    MaxNumber = 40
    Base = 4
    Catalogue <- MCCatalogue
    DeclaredOrder <- MCOrder
    DeviceNames = {"ac", "hub"}
    Slashed <- MCSlashed
    TopicWords <- MCTopics
    Objects <- MCObjects
    Expressions <- MCExpressions
    MaxResources = 4
    LaterParts <- MCLater
    Sockets = {51, 52, 53}
    MaxSockets = 2
    MaxStarts = 2
    MaxBroadcasts = 2
    Senders = {"s", "t"}
    Gateway = "gateway"
    PartialSlots = 2
    ReceiveDepth = 2
    LastId = 2
    MaxPublications = 3
    MaxCids = 2
    Crews <- MCCrews
SPECIFICATION AboutSpec
INVARIANT SubscriptionsMatch
INVARIANT MirrorAgrees
INVARIANT Converged
INVARIANT RegistryIsFaithful
INVARIANT ManifestsReadAlike
INVARIANT ParsesTheGrammar
INVARIANT LinesAreFaithful
INVARIANT ListFollowsSessions
INVARIANT MessagesArriveWhole
PROPERTY SourcesSurvive
CHECK_DEADLOCK FALSE

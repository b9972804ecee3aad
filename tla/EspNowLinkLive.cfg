\* One station and the gateway, in one boot of it: both ends are switched off and on,
\* frames are lost, and after any trouble the station reconnects.
CONSTANTS
    m1 = m1
    Me = m1
    Mac = {m1}
    Nonce = {0, 1, 2, 3, 4, 5, 6, 7, 8, 9, 10, 11, 12, 13, 14, 15, 16, 17, 18, 19, 20}
    Filter = {}
    Will = {}
    MaxDevices = 1  MaxPending = 1  MaxCid = 2  MaxSubscriptions = 1
    HandshakeTimeout = 0  SecuringTimeout = 0  SessionTimeout = 0
    NoKey = NoKey  NoWill = NoWill  NoPeer = NoPeer  Plain = Plain  Free = Free
    MsgId = {1, 2, 3, 4, 5, 6, 7, 8, 9}
    Faults = {}
    NoFrame = NoFrame  NoData = NoData
    HandshakeAttempts = 1  SecuringPings = 1  MissedBeforeLost = 1  MaxGeneration = 1
    UplinkDepth = 2  ControlDepth = 3
    Trouble = {"loss", "power"}
    Settles = TRUE
    Application = {}
SPECIFICATION FairLinkSpec
VIEW LinkState
PROPERTY Reconnects

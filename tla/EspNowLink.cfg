\* One station and the gateway; frames are lost, both ends restart, an application
\* publishes, sets its will and suspends the client.
CONSTANTS
    m1 = m1
    Me = m1
    Mac = {m1}
    Nonce = {0, 1, 2, 3, 4, 5, 6, 7, 8, 9, 10, 11, 12, 13, 14, 15, 16, 17, 18, 19, 20}
    Filter = {}
    Will = {w1}
    w1 = w1
    MaxDevices = 1  MaxPending = 1  MaxCid = 2  MaxSubscriptions = 1
    HandshakeTimeout = 0  SecuringTimeout = 0  SessionTimeout = 0
    NoKey = NoKey  NoWill = NoWill  NoPeer = NoPeer  Plain = Plain  Free = Free
    MsgId = {1, 2, 3, 4, 5, 6, 7, 8, 9}
    Faults = {"secure"}
    NoFrame = NoFrame  NoData = NoData
    HandshakeAttempts = 1  SecuringPings = 1  MissedBeforeLost = 1  MaxGeneration = 2
    UplinkDepth = 1  ControlDepth = 1
    Trouble = {"loss", "reboot", "power"}
    Settles = FALSE
    Application = {"publish", "suspend", "will"}
SPECIFICATION LinkSpec
VIEW LinkState
INVARIANT KeysAgree

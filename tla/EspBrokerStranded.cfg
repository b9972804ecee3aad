\* The radio may also refuse to turn a peer to plaintext.
CONSTANTS
    m1 = m1
    Mac = {m1}
    Nonce = {0, 1, 2, 3}
    Filter = {}
    Will = {}
    MaxDevices = 1  MaxPending = 1  MaxCid = 2  MaxSubscriptions = 1
    HandshakeTimeout = 0  SecuringTimeout = 0  SessionTimeout = 0
    NoKey = NoKey  NoWill = NoWill  NoPeer = NoPeer  Plain = Plain  Free = Free
    MsgId = {1}
    Faults = {"add"}
    NoFrame = NoFrame  NoData = NoData
SPECIFICATION Spec
INVARIANTS
    SuspendedAwaitsHandshake

\* Two stations, two handshakes at a time; a key may be refused.
CONSTANTS
    m1 = m1  m2 = m2
    Mac = {m1, m2}
    Nonce = {0, 1, 2, 3}
    Filter = {}
    Will = {}
    MaxDevices = 2  MaxPending = 2  MaxCid = 2  MaxSubscriptions = 1
    HandshakeTimeout = 0  SecuringTimeout = 0  SessionTimeout = 1
    NoKey = NoKey  NoWill = NoWill  NoPeer = NoPeer  Plain = Plain  Free = Free
    MsgId = {1}
    Faults = {"secure"}
    NoFrame = NoFrame  NoData = NoData
SPECIFICATION Spec
SYMMETRY Stations
VIEW State
INVARIANT SessionTables
PROPERTY OnlyProofCreates
PROPERTY SilentWhilePaused

\* Two stations compete for one session and one handshake; they subscribe and leave last
\* wills, and the gateway task is fair.  A handshake times out before a session in use
\* is taken for silent.
CONSTANTS
    m1 = m1  m2 = m2
    Mac = {m1, m2}
    Nonce = {0, 1, 2, 3}
    Filter = {f1}
    f1 = f1
    Will = {w1}
    w1 = w1
    MaxDevices = 1  MaxPending = 1  MaxCid = 1  MaxSubscriptions = 1
    HandshakeTimeout = 0  SecuringTimeout = 0  SessionTimeout = 1
    NoKey = NoKey  NoWill = NoWill  NoPeer = NoPeer  Plain = Plain  Free = Free
    MsgId = {1}
    Faults = {}
    NoFrame = NoFrame  NoData = NoData
SPECIFICATION FairSpec
PROPERTY UnprovenKeepsSession
PROPERTY WillMeansGone
PROPERTY StationsSettle

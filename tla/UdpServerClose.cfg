\* Small enough for the channel of a session to fill while the session ends.
SPECIFICATION UdpSpec
CONSTANTS
  Addrs = {a1}
  ChanSize = 1
  MaxClientCount = 2
  MaxSessions = 1
  MaxDatagrams = 3
PROPERTY UdpCloseReturns
CHECK_DEADLOCK FALSE

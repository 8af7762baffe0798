SPECIFICATION FairSpec
CONSTANTS
  Conns = {1, 2}
  Workers = {w1}
  Acceptor = acceptor
  Binds = {"bind_transmitter", "bind_receiver"}
  BindVerdicts = {"ok", "InvalidPassword"}
  MaxConnections = 2
  ChannelSize = 1
  MaxOwed = 1
INVARIANTS TypeOK OneMoreAtMost PermitsHeld
PROPERTIES ProtocolOrder SessionsEnd TermEnds
CHECK_DEADLOCK FALSE

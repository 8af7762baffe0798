SPECIFICATION Spec
CONSTANTS
  Conns = {1, 2}
  Workers = {w1}
  Acceptor = acceptor
  Binds = {"bind_transmitter", "bind_receiver"}
  BindVerdicts = {"ok", "InvalidPassword"}
  MaxConnections = 1
  ChannelSize = 2
  MaxOwed = 1
CHECK_DEADLOCK FALSE
INVARIANT LimitIsConcurrent

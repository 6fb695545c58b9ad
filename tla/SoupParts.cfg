SPECIFICATION PartsSpec
CONSTANTS
  p1 = p1
  p2 = p2
  p3 = p3
  Peers <- MCPeers
  Transports <- MCTransports
  Receivers <- MCReceivers
  UdpTuples = {"u1", "u2"}
  TcpTuples = {"c1"}
  MaxPasswords = 1
  Owners = {"a", "b"}
  Socks = {"s1", "s2"}
  Conns = {"c1", "c2"}
  MinPort = 1
  MaxPort = 2
  MaxBindAttempts = 0
  MaxConnections = 1
  Listened = {"a", "b"}
  Lanes = {"t", "u"}
  Offers <- MCOffers
  Strangers = {9}
  MaxReceives = 2
INVARIANTS
  PartsTypeOK MapsInverse FullMesh NoStalePointers MediaFindsItsWay
  SelectedAgrees KeysAreVerified DtlsFollowsIce ClosesOnce PortsExclusive FramesIntact
  ListenerExact NacksExact ResendsExact CodecsAgree
CHECK_DEADLOCK FALSE

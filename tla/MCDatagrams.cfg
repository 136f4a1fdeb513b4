SPECIFICATION UdpSpec
CONSTANTS
  Servers = {"s1", "s2"}
  Addr = {"http", "tcp", "udp"}
  AddrOf <- SameAddresses
  Clients = {"c1", "c2"}
  Refused = {"c2"}
  Target = "udp"
  MaxCopies = 2
CHECK_DEADLOCK FALSE
INVARIANTS
  StartIsAllOrNothing
  OnlyCancelledWaitsOrphan
  AcksAreTrue
  StoredOncePerDatagram
PROPERTIES
  DroppedServersCloseTheirSockets

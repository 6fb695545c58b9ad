SPECIFICATION Spec
CONSTANTS
  UdpTuples = {u1, u2}
  TcpTuples = {c1}
  MaxPasswords = 1
INVARIANT StatusStopsBad
CHECK_DEADLOCK FALSE

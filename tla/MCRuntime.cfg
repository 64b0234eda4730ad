SPECIFICATION Spec
CONSTANTS
  v1 = v1
  v2 = v2
  Parts = {"strings", "bytes", "lines", "child", "family", "net"}
  Addr <- MCAddr
  Texts <- MCTexts
  Var = {v1, v2}
  MaxZones = 2
  Bytes = {1, 2}
  BytesMin = 1
  LinesMin = 1
  MaxLen = 3
  Kid = {"k1", "k2"}
  Pid = {1, 2}
  Fd <- MCFd
  Started = {0, 2, 5, 8}
  PipeCap = 2
  Lengths = {0, 2}
  Limits = {1, 3}
  MaxCalls = 2
  Sock = {"s1", "s2"}
  Ports = {0, 65536}
INVARIANTS
  TypeOK
  EveryBlockHasAnOwner
  OwnedStringsLive
  BuffersAgree
  RepliesMatch
  HandlesAccounted
PROPERTIES
  CallsReturn
CHECK_DEADLOCK FALSE

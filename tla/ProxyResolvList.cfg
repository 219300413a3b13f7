SPECIFICATION Spec
CONSTANTS
  Reqs = {u1, t1}
  TcpReqs = {t1}
  u1 = u1
  t1 = t1
  Answers <- MCAnswers
  AddrChars <- MCChars
  HostnameLen = 254
  POLLER_ADDR_LIST_SIZE = 8
  MaxLists = 2
PROPERTIES
  TransfersFindTheirList

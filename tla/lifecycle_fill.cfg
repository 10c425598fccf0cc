SPECIFICATION Spec
CONSTANTS
  Netdevs = {eth0, eth1}
  RxNum = 2
  Failures = {"fill"}
  Netpoll = {}
  Maskers = {}
  NULL = NULL
INVARIANT MissingBuffersFit

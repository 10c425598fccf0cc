CHECK_DEADLOCK FALSE
SPECIFICATION Spec
CONSTANTS
  Netdevs = {eth0, eth1}
  RxNum = 2
  Failures = {"rxqs", "resume"}
  Netpoll = {}
  Maskers = {}
  NULL = NULL
INVARIANT UsageCountsUsers

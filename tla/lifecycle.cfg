SPECIFICATION FairSpec
CONSTANTS
  Netdevs = {eth0, eth1}
  RxNum = 2
  Failures = {"rxqs", "fill"}
  Netpoll = {FALSE}
  Maskers = {eth0}
  NULL = NULL
INVARIANT TypeOK
INVARIANT UsageCountsUsers
INVARIANT HardwareFollowsUsers
INVARIANT InterruptsOn
PROPERTY OperationsEnd
PROPERTY WorkIsHandled

SPECIFICATION TrafficSpec
CONSTANTS
  tx1 = tx1
  rx1 = rx1
  poll = poll
  Quota = 2
  TxChans = {tx1}
  RxChans = {rx1}
  Desc = {d1, d2, d3}
  Token = {t1, t2, t3}
  DescNum <- MCDescNum
  Pollers = {poll}
  PollerOf <- MCPollerOf
  Watchdogs = {}
  Rtnl = rtnl
  TdTimeouts = FALSE
  NULL = NULL
  Unread = Unread
SYMMETRY MCSymmetry
INVARIANT WithinQuota
INVARIANT HwFollowsList
INVARIANT NotStalled
INVARIANT CreditMatches

SPECIFICATION Spec
CONSTANTS
  tx1 = tx1
  rx1 = rx1
  poll = poll
  Quota = 2
  TxChans = {tx1}
  RxChans = {}
  Desc = {d1, d2}
  Token = {t1, t2}
  DescNum <- MCDescNum
  Pollers = {poll}
  PollerOf <- MCPollerOf
  Watchdogs = {w1}
  Rtnl = rtnl
  TdTimeouts = FALSE
  NULL = NULL
  Unread = Unread
SYMMETRY MCSymmetry
PROPERTY CleansUpOnlyUnsent

SPECIFICATION MCSpec
CONSTANTS
  MaxChannels = 8
  MaxRlimCnt = 31
  BusFreqMhz = 4
  MaxQueues = 3
  RacingQueues = 2
  NumDesc = 12
  RxDescChoices = {10}
  Rates = {0, 10, 60}
  Speeds = {0, 1, 100}
  Slopes = {2000, 4000, 40000}
  LinkSpeeds = {10, 100}
  n1 = n1  n2 = n2
  Netdevs = {n1, n2}
  v1 = v1  v2 = v2  v3 = v3
  Vids = {v1, v2, v3}
  Macs = {m1, m2, m3}
  Groups = {g}
  Broadcast = broadcast
  Host = host
  Readers = {r1, r2, r3}
  Writers = {w1, w2}
  BufSize = 3
  MaxWrites = 4
  Callers = {c1, c2}
  Inputs = {1, 2}
  None = None
  RingSize = 3
  BatchSize = 2
  Packets = 6
INVARIANTS
  TypesOK
  SharesAddUp LimitsInOrder BudgetsCurrent
  ShapersAgree
  VlansServed MulticastExact
  ChangeSeen KeysInOrder NobodyOversleeps
  QuietWhenGone ResultIsOwn
  PacketsInOrder
PROPERTY RestoredOnOpen
CHECK_DEADLOCK FALSE

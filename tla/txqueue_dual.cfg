SPECIFICATION Spec
CONSTANTS
  ch0 = ch0
  Netdevs = {eth0, eth1}
  Chans = {ch0}
  XdpChan = ch0
  Quota = 2
  DescNum <- MCDescNum
  PoolSize = 2
  Napi = napi
  NULL = NULL
INVARIANT StoppedHasWaker

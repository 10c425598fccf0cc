SPECIFICATION FairSpec
CONSTANTS
  ch0 = ch0
  Netdevs = {eth0}
  Chans = {ch0, ch1}
  XdpChan = ch0
  Quota = 2
  DescNum <- MCDescNum
  PoolSize = 4
  Napi = napi
  NULL = NULL
INVARIANT TypeOK
INVARIANT StoppedHasWaker
PROPERTY QueuesWoken

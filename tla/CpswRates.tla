----------------------------- MODULE CpswRates -----------------------------
(***************************************************************************)
(* The queue rates of the CPSW driver: cpsw_ndo_set_tx_maxrate, the split  *)
(* of weights and NAPI budgets (cpsw_split_res), and the link speed they   *)
(* depend on, over the channels of CpdmaResources.                         *)
(*                                                                         *)
(* Two threads call cpsw_split_res: operations under the rtnl lock, and    *)
(* the PHY's state machine, which runs cpsw_adjust_link without it.        *)
(***************************************************************************)
EXTENDS CpdmaResources

CONSTANTS MaxQueues,      \* the largest number of TX queues
          RacingQueues,   \* and the largest while the two threads race
          NumDesc,        \* descriptors in the pool
          RxDescChoices,  \* the sizes the ring can be given
          Rates,          \* rates in Mb/s that are asked for
          Speeds          \* sums of link speeds, in Mb/s

PollWeight == 64

ASSUME QueueAssumption == MaxQueues \in 1 .. MaxChannels /\ RacingQueues \in 1 .. MaxQueues
ASSUME PoolAssumption == NumDesc \in Nat \ {0} /\ RxDescChoices \subseteq 0 .. NumDesc

\* cpdma_chan_set_factors finds a rate for every one that the hardware can limit to.
ASSUME FactorAssumption ==
  \A rate \in Rates : rate > 0 /\ rate * 1000 >= MinRate => SetFactors(rate * 1000) \in Nat \ {0}

VARIABLES
  racing,     \* may the PHY's thread come between the steps of the other?
  active,     \* ctlr->state is ACTIVE
  chan,       \* the channels of the controller
  num_rx,     \* ctlr->num_rx_desc
  rlim,       \* CPDMA_TX_RLIM: the channels the hardware limits
  tx_ch_num,  \* number of TX queues
  maxrate,    \* netdev_queue->tx_maxrate of the queues
  speed,      \* cpsw->speed
  budget,     \* txv[i].budget
  thread      \* the two callers of cpsw_split_res

vars == <<racing, active, chan, num_rx, rlim, tx_ch_num, maxrate, speed,
          budget, thread>>

Threads == {"rtnl", "phy"}
Queues == 0 .. tx_ch_num - 1

\* Queues use the TX channels from the last one down, for the rate limited
\* channels have to be the upper ones.
ChanOf(q) == MaxChannels - 1 - q

num_tx == NumDesc - num_rx
RateOf(q) == chan[ChanOf(q)].rate

-----------------------------------------------------------------------------
\* cpsw_split_res, its first loop: a function of the rates and of the speed.

RatedQueues == {q \in Queues : RateOf(q) > 0}
Consumed == SumFunction([q \in RatedQueues |-> RateOf(q)])

\* If the rates exceed the speed, the next higher ones are taken.
MaxRate ==
  LET s0 == speed * 1000
      s1 == IF s0 < Consumed THEN s0 * 10 ELSE s0
      s2 == IF s1 < Consumed THEN s1 * 10 ELSE s1
  IN IF RatedQueues = Queues \/ RatedQueues = {} THEN Consumed ELSE s2

\* A quotient of signed numbers is rounded towards 0.
Quotient(a, b) == IF a < 0 THEN -((-a) \div b) ELSE a \div b

ChBudget ==
  LET others == tx_ch_num - Cardinality(RatedQueues)
  IN CASE others = 0 -> 0
       [] RatedQueues = {} -> PollWeight \div tx_ch_num
       [] OTHER -> Quotient(PollWeight - (Consumed * PollWeight) \div MaxRate, others)

\* The difference is unsigned: one below 0 becomes more than any rate.
BiggestRate ==
  IF RatedQueues = Queues \/ RatedQueues = {} THEN 0
  ELSE IF MaxRate < Consumed THEN Consumed
  ELSE (MaxRate - Consumed) \div (tx_ch_num - Cardinality(RatedQueues))

AtLeastOne(n) == IF n = 0 THEN 1 ELSE n
BudgetOf(q, max, ch_budget) ==
  IF RateOf(q) > 0 THEN AtLeastOne((RateOf(q) * PollWeight) \div max) ELSE ch_budget
WeightOf(q, max) ==
  IF RateOf(q) > 0 THEN AtLeastOne((RateOf(q) * 100) \div max) ELSE 0

Idle == [pc |-> "idle", max |-> 0, ch_budget |-> 0, bigest |-> 0, bigest_ch |-> 0,
         i |-> 0, left |-> 0]

-----------------------------------------------------------------------------
\* cpsw_probe: one queue of each direction, and a first cpsw_split_res.
Init ==
  /\ racing \in BOOLEAN
  /\ active = FALSE /\ num_rx = NumDesc - NumDesc \div 2
  /\ chan = ChanCreate(ChanCreate(<<>>, ChanOf(0), NumDesc \div 2, num_rx),
                       rx_chan_num(0), NumDesc \div 2, num_rx)
  /\ rlim = {} /\ tx_ch_num = 1
  /\ maxrate = [q \in 0 .. MaxQueues - 1 |-> 0]
  /\ speed = 0
  /\ budget = [q \in 0 .. MaxQueues - 1 |-> IF q = 0 THEN PollWeight ELSE 0]
  /\ thread = [t \in Threads |-> Idle]

MayBegin(t) ==
  /\ thread[t].pc = "idle"
  /\ racing \/ \A u \in Threads : thread[u].pc = "idle"

Begin(t) == thread' = [thread EXCEPT ![t].pc = "read"]

\* cpdma_ctlr_start puts the limits of the channels into the reset registers.
CtlrStart ==
  /\ ~active /\ thread["rtnl"].pc = "idle"
  /\ active' = TRUE /\ rlim' = Limited(chan)
  /\ UNCHANGED <<racing, chan, num_rx, tx_ch_num, maxrate, speed, budget, thread>>

\* cpsw_ndo_stop takes the controller down and disconnects the PHY, which waits
\* for its state machine.
CtlrStop ==
  /\ active /\ \A t \in Threads : thread[t].pc = "idle"
  /\ active' = FALSE
  /\ UNCHANGED <<racing, chan, num_rx, rlim, tx_ch_num, maxrate, speed,
                 budget, thread>>

\* cpsw_ndo_set_tx_maxrate for queue q, as far as cpsw_split_res.  A request
\* that is refused changes nothing.  The registers are written only while the
\* controller is active.
SetTxMaxrate(q, rate) ==
  /\ MayBegin("rtnl")
  /\ q \in Queues /\ maxrate[q] # rate
  /\ rate = 0 \/ rate * 1000 >= MinRate
  /\ rate <= speed
  /\ rate = 0 \/ RateOf(q) # rate * 1000
  /\ FitsRate(chan, ChanOf(q), rate * 1000) \/ RateOf(q) = rate * 1000
  /\ chan' = ChanSetRate(chan, ChanOf(q), rate * 1000)
  /\ rlim' = IF active /\ RateOf(q) # rate * 1000 THEN Limited(chan') ELSE rlim
  /\ maxrate' = [maxrate EXCEPT ![q] = rate]
  /\ Begin("rtnl")
  /\ UNCHANGED <<racing, active, num_rx, tx_ch_num, speed, budget>>

\* ethtool sets the number of TX queues, on stopped channels: the last channel
\* is destroyed or another created, and the resources are split again.
SetChannels(n) ==
  /\ MayBegin("rtnl") /\ ~active
  /\ racing => n <= RacingQueues
  /\ \/ /\ n = tx_ch_num + 1
        /\ chan' = ChanCreate(chan, ChanOf(tx_ch_num), num_tx, num_rx)
     \/ /\ n = tx_ch_num - 1
        /\ chan' = ChanDestroy(chan, ChanOf(n), num_tx, num_rx)
  /\ tx_ch_num' = n
  /\ Begin("rtnl")
  /\ UNCHANGED <<racing, active, num_rx, rlim, maxrate, speed, budget>>

\* cpdma_set_num_rx_descs: both numbers are stored, and restored if the split
\* is refused.
SetNumRxDescs(n) ==
  /\ thread["rtnl"].pc = "idle" /\ ~active
  /\ IF Splits(chan)
     THEN num_rx' = n /\ chan' = SplitPool(chan, NumDesc - n, n)
     ELSE UNCHANGED <<num_rx, chan>>
  /\ UNCHANGED <<racing, active, rlim, tx_ch_num, maxrate, speed, budget, thread>>

\* Mutant: the new speed is noted, and nothing is split again.
AdjustLinkUnsplit(s) ==
  /\ MayBegin("phy") /\ active
  /\ speed' = IF s # 0 THEN s ELSE speed
  /\ UNCHANGED <<racing, active, chan, num_rx, rlim, tx_ch_num, maxrate, budget, thread>>

\* A PHY of an open netdev reports its link; s is the sum of the speeds of the links that are up.
\* cpsw_adjust_link notes a new speed other than 0, and splits
\* again if some of the queues are limited, but not all (cpsw_need_resplit).
AdjustLink(s) ==
  /\ MayBegin("phy") /\ active
  /\ IF s # 0 /\ s # speed
     THEN /\ speed' = s
          /\ IF RatedQueues # {} /\ RatedQueues # Queues
             THEN Begin("phy") ELSE UNCHANGED thread
     ELSE UNCHANGED <<speed, thread>>
  /\ UNCHANGED <<racing, active, chan, num_rx, rlim, tx_ch_num, maxrate, budget>>

\* The first loop of cpsw_split_res.
SplitRead(t) ==
  /\ thread[t].pc = "read"
  /\ thread' = [thread EXCEPT ![t] =
                  [pc |-> "write", max |-> MaxRate, ch_budget |-> ChBudget,
                   bigest |-> BiggestRate, bigest_ch |-> 0, i |-> 0,
                   left |-> PollWeight]]
  /\ UNCHANGED <<racing, active, chan, num_rx, rlim, tx_ch_num, maxrate,
                 speed, budget>>

\* The second loop, one queue at a time: budget and weight, and which queue will
\* take the remainder of the budget.  (A division by zero is no step; on one
\* thread max_rate is not zero while a queue is limited.)
SplitQueue(t) ==
  LET th == thread[t]
      q == th.i
      b == BudgetOf(q, th.max, th.ch_budget)
      isBigger == RateOf(q) > th.bigest
      isFirst == RateOf(q) = 0 /\ th.bigest_ch = 0
  IN /\ th.pc = "write" /\ q < tx_ch_num
     /\ RateOf(q) > 0 => th.max > 0
     /\ budget' = [budget EXCEPT ![q] = b]
     /\ chan' = ChanSetWeight(chan, ChanOf(q), WeightOf(q, th.max), num_tx, num_rx)
     /\ thread' = [thread EXCEPT
          ![t].i = q + 1,
          ![t].left = th.left - b,
          ![t].bigest = IF isBigger THEN RateOf(q) ELSE @,
          ![t].bigest_ch = IF isBigger \/ isFirst THEN q ELSE @]
     /\ UNCHANGED <<racing, active, num_rx, rlim, tx_ch_num, maxrate, speed>>

SplitEnd(t) ==
  LET th == thread[t]
  IN /\ th.pc = "write" /\ th.i >= tx_ch_num
     /\ budget' = [budget EXCEPT ![th.bigest_ch] = @ + th.left]
     /\ thread' = [thread EXCEPT ![t] = Idle]
     /\ UNCHANGED <<racing, active, chan, num_rx, rlim, tx_ch_num, maxrate, speed>>

Next ==
  \/ CtlrStart \/ CtlrStop
  \/ \E q \in Queues, rate \in Rates : SetTxMaxrate(q, rate)
  \/ \E n \in 1 .. MaxQueues : SetChannels(n)
  \/ \E n \in RxDescChoices : SetNumRxDescs(n)
  \/ \E s \in Speeds : AdjustLink(s)
  \/ \E t \in Threads : SplitRead(t) \/ SplitQueue(t) \/ SplitEnd(t)

Spec == Init /\ [][Next]_vars

-----------------------------------------------------------------------------
Quiet == \A t \in Threads : thread[t].pc = "idle"
Shares(nums) == SumFunction([c \in Existing(chan, nums) |-> chan[c].desc_num])

\* The state is well typed.
TypeOK ==
  /\ racing \in BOOLEAN /\ active \in BOOLEAN
  /\ DOMAIN chan = {ChanOf(q) : q \in Queues} \cup {rx_chan_num(0)}
  /\ \A c \in DOMAIN chan : chan[c] \in [weight : Nat, rate : Nat, desc_num : Nat]
  /\ num_rx \in 0 .. NumDesc /\ rlim \subseteq TxNums /\ tx_ch_num \in 1 .. MaxQueues
  /\ maxrate \in [0 .. MaxQueues - 1 -> Rates]
  /\ speed \in Speeds \cup {0}
  /\ budget \in [0 .. MaxQueues - 1 -> Int]

\* The channels of a direction hold all that it has, the remainder included, or
\* nothing if no channel's part reaches one descriptor.
UsedUp(nums, num) ==
  Shares(nums) = IF \E c \in Existing(chan, nums) : Share(chan, nums, num, c) > 0
                 THEN num ELSE 0

\* The rates fit into what the weights are percentages of, each with a percent or more.
Proportional ==
  Consumed <= MaxRate /\ \A q \in RatedQueues : MaxRate <= 100 * RateOf(q)

\* Whatever is refused, and however the two threads interleave, the quotas of the
\* channels never promise more descriptors than the pool has: CpswRx and Cpdma rely
\* on it when they put a buffer back.  Unless the weights that were stored ask for
\* too much, nothing is left over: the last split was done with these weights,
\* although weights stay when their split is refused, and are not split again when
\* they are set again.  With one thread at a time and proportional rates the weights
\* never ask for too much.
SharesAddUp ==
  /\ Shares(TxNums) + Shares(RxNums) <= NumDesc
  /\ Splits(chan) => UsedUp(TxNums, num_tx) /\ UsedUp(RxNums, num_rx)
  /\ Quiet /\ ~racing /\ Proportional => Splits(chan)

\* The rate limited channels are the upper ones, and a running controller
\* limits exactly the channels that have a rate, across channels that come and
\* go, refused rates, stops and starts.
LimitsInOrder == InOrder(chan) /\ (active => rlim = Limited(chan))

\* With one thread at a time the budgets add up to the NAPI weight, and are the
\* ones that the present rates and speed call for: no change of the link or of
\* a rate leaves them stale.
BudgetsCurrent ==
  Quiet /\ ~racing =>
    /\ SumFunction([q \in Queues |-> budget[q]]) = PollWeight
    /\ LET wanted(q) == BudgetOf(q, MaxRate, ChBudget)
       IN Cardinality({q \in Queues : budget[q] # wanted(q)}) <= 1
=============================================================================

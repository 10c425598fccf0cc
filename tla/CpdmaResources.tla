--------------------------- MODULE CpdmaResources ---------------------------
(***************************************************************************)
(* How own_davinci_cpdma.c divides the descriptors of a controller among   *)
(* its channels, and how it limits their rates: functions of the channels, *)
(* a function from the numbers of those that exist to their records.       *)
(* CpswRates calls them the way the driver does.                           *)
(***************************************************************************)
EXTENDS Integers, FiniteSets, Functions

CONSTANTS MaxChannels,     \* CPDMA_MAX_CHANNELS
          MaxRlimCnt,      \* CPDMA_MAX_RLIM_CNT
          BusFreqMhz       \* params.bus_freq_mhz

ASSUME ResourceAssumption ==
  MaxChannels \in Nat \ {0} /\ MaxRlimCnt \in Nat \ {0} /\ BusFreqMhz \in Nat \ {0}

\* Channel numbers: TX channels come before RX channels.
rx_chan_num(n) == n + MaxChannels
TxNums == 0 .. MaxChannels - 1
RxNums == MaxChannels .. 2 * MaxChannels - 1

DivRoundUp(a, b) == (a + b - 1) \div b
DivRoundClosest(a, b) == (a + b \div 2) \div b

Existing(chan, nums) == DOMAIN chan \cap nums

NewChannel == [weight |-> 0, rate |-> 0, desc_num |-> 0]

-----------------------------------------------------------------------------
\* The split of the pool.

WeightSum(chan, nums) ==
  SumFunction([c \in Existing(chan, nums) |-> chan[c].weight])

Unweighted(chan, nums) == {c \in Existing(chan, nums) : chan[c].weight = 0}

\* What an unweighted channel gets: an equal part of what the weights leave.
PerChannel(chan, nums, num) ==
  IF Unweighted(chan, nums) = {} THEN 0
  ELSE (num - (WeightSum(chan, nums) * num) \div 100)
         \div Cardinality(Unweighted(chan, nums))

Share(chan, nums, num, c) ==
  IF chan[c].weight > 0 THEN (chan[c].weight * num) \div 100
                        ELSE PerChannel(chan, nums, num)

\* The first of the channels with the largest share, which takes the remainder.
IsMost(chan, nums, num, c) ==
  /\ Share(chan, nums, num, c) > 0
  /\ \A d \in Existing(chan, nums) :
       \/ Share(chan, nums, num, d) < Share(chan, nums, num, c)
       \/ d >= c /\ Share(chan, nums, num, d) = Share(chan, nums, num, c)

SetDescs(chan, nums, num) ==
  LET left == num - SumFunction([c \in Existing(chan, nums) |-> Share(chan, nums, num, c)])
  IN [c \in DOMAIN chan |->
        IF c \notin nums \/ num = 0 THEN chan[c]
        ELSE [chan[c] EXCEPT !.desc_num =
                Share(chan, nums, num, c)
                  + (IF IsMost(chan, nums, num, c) THEN left ELSE 0)]]

\* The split is refused when the weights of a direction exceed 100 percent.
Splits(chan) == WeightSum(chan, TxNums) <= 100 /\ WeightSum(chan, RxNums) <= 100

SplitPool(chan, numTx, numRx) ==
  IF Splits(chan) THEN SetDescs(SetDescs(chan, TxNums, numTx), RxNums, numRx)
                  ELSE chan

\* The callers below ignore what the split returns, all but one.
ChanCreate(chan, c, numTx, numRx) ==
  SplitPool([d \in DOMAIN chan \cup {c} |-> IF d = c THEN NewChannel ELSE chan[d]],
            numTx, numRx)

\* Mutant: a destroyed channel's descriptors are not divided again.
ChanDestroyUnsplit(chan, c, numTx, numRx) == [d \in DOMAIN chan \ {c} |-> chan[d]]

ChanDestroy(chan, c, numTx, numRx) ==
  SplitPool([d \in DOMAIN chan \ {c} |-> chan[d]], numTx, numRx)

\* The weight is stored before the split, and stays if the split is refused.
ChanSetWeight(chan, c, weight, numTx, numRx) ==
  IF chan[c].weight = weight THEN chan
  ELSE SplitPool([chan EXCEPT ![c].weight = weight], numTx, numRx)

-----------------------------------------------------------------------------
\* Rates, in Kb/s.

Freq == BusFreqMhz * 1000 * 32
MinRate == DivRoundUp(BusFreqMhz * 32 * 1000, 1 + MaxRlimCnt)

\* The rate nearest above the wanted one that a pair of a send and an idle
\* count gives (cpdma_chan_set_factors).  Unset, larger than any difference,
\* stands for UINT_MAX.
SetFactors(wanted) ==
  LET minSend == Freq - wanted
      Unset == Freq + 1
      Search == [send : Nat, delta : Nat, prev : Nat, best : Nat, rate : Nat]
      found[s \in Search] ==
        IF s.send > MaxRlimCnt THEN s.rate
        ELSE
          LET idle == DivRoundClosest(wanted * s.send, minSend)
              new == DivRoundClosest(Freq * idle, idle + s.send)
              delta == IF new >= wanted THEN new - wanted ELSE s.delta
              better == delta < s.best
              kept == [s EXCEPT !.delta = delta,
                                !.best = IF better THEN delta ELSE s.best,
                                !.rate = IF better THEN new ELSE s.rate]
          IN IF better /\ delta = 0 THEN new
             ELSE IF s.prev >= delta
             THEN found[[kept EXCEPT !.prev = delta, !.send = s.send + 1]]
             ELSE found[[kept EXCEPT !.prev = Unset,
                           !.send = DivRoundClosest(Freq * (idle + 1), wanted) - (idle + 1)]]
  IN IF wanted = 0 THEN 0
     ELSE found[[send |-> DivRoundUp(minSend, wanted), delta |-> Unset,
                 prev |-> Unset, best |-> Unset, rate |-> 0]]

Limited(chan) == {c \in Existing(chan, TxNums) : chan[c].rate > 0}

\* Above a limited channel every channel is limited (cpdma_chan_fit_rate).
InOrder(chan) ==
  \A c \in Limited(chan), d \in Existing(chan, TxNums) : d > c => d \in Limited(chan)

\* Mutant: the order of the limited channels is not checked.
FitsAnyRate(chan, c, rate) == TRUE

FitsRate(chan, c, rate) == InOrder([chan EXCEPT ![c].rate = rate])

ChanSetRate(chan, c, rate) == [chan EXCEPT ![c].rate = SetFactors(rate)]
=============================================================================

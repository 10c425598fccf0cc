# Verification of the CPSW/CPDMA driver and its companions

The repository is a collection of Linux kernel code: an Ethernet driver for the
TI CPSW switch (`own_cpsw.c`, `priv.c`) with its DMA engine
(`own_davinci_cpdma.c`), about half of the C code, and some fifty small modules,
each of which exercises one kernel mechanism.  This directory holds TLA+ models
of the parts with a protocol worth checking, the TLC configurations that check
them, and proofs for TLAPS.

    tlc -workers 2 -config cpdma_stop.cfg MCCpdma     # model-check one run
    tlc -workers 2 -config separate.cfg MCSeparate    # six components at once
    tlapm CpdmaProofs.tla                             # check proofs, likewise *Proofs.tla

## 1. Inventory

### CPDMA engine (`own_davinci_cpdma.c`)

*State.* The controller's state (idle, active, teardown); per channel its state,
`head`, `tail`, `count`, the interrupt mask bit and the HDP, CP and RXFREE
registers; one pool of descriptors shared by all channels; per descriptor
`hw_next`, the flags OWNER, EOQ and TD_COMPLETE of `hw_mode`, and `sw_token`.
*Operations.* `cpdma_chan_submit` and its idle and mapped variants,
`cpdma_chan_process`, `cpdma_chan_start/stop`, `cpdma_ctlr_start/stop`,
`cpdma_chan_int_ctrl`, `cpdma_ctlr_int_ctrl`.
*Interactions.* Called by the transmit path on any CPU, by two NAPI contexts, by
the transmit watchdog of each netdev and by open and stop; calls the RX and TX
handlers without locks; shares the lists with the DMA hardware, which takes no
lock at all.
*Hard.* The driver extends a list that the hardware is walking; EOQ may be
noticed by the submitter, by the reclaimer, or by both; `cpdma_chan_stop` drops
the channel lock for every callback; a descriptor is freed before its token is
returned; one teardown may time out, and another netdev's watchdog may run into it.
*Correct when* descriptors and tokens are conserved, the lists stay well formed,
the DMA is never restarted while it runs and never left stopped with work
queued, quota and RX credit are kept, and a recovery ends with running channels.

### CPDMA resources (`own_davinci_cpdma.c`)

Channel creation and removal, weights, rates, and the split of the pool among
channels (`cpdma_chan_split_pool`, `set_weight`, `set_rate`, `set_num_rx_descs`).
*Hard.* Integer percentages with a remainder; a failed call that has already
stored its argument; `desc_num` lowered under a filled channel.  *Correct when*
the shares add up to the pool, a rejected request changes nothing, and rate
limited channels stay in the order the hardware demands.

### CPSW driver (`own_cpsw.c`, `priv.c`)

| Part | State | Operations | Hard behaviour and what makes it correct |
|---|---|---|---|
| Transmit queues | stopped flag per netdev queue, free descriptors | `cpsw_ndo_start_xmit`, `cpsw_tx_handler`, `cpsw_ndo_tx_timeout` | Stop-and-recheck against a concurrent completion, two netdevs on one channel; a stopped queue must be woken |
| Lifecycle, interrupts, NAPI | `usage_count`, `tx/rx_irq_disabled`, IRQ disable depth, NAPI state | `ndo_open`, `ndo_stop`, suspend/resume, IRQ handlers, polls | Failed opens, ignored results, `quirk_irq` flags shared by handler, poll and open; depth returns to 0, NAPI enabled once, count equals open netdevs |
| RX path, XDP | pages, page pools, verdicts | `cpsw_rx_handler`, `cpsw_fill_rx_channels`, `cpsw_run_xdp` | Descriptors freed before the handler runs, programs exchanged while packets are handled; every page is in one place, pools drain, the ring stays full |
| Shaping | FIFO bandwidths, `shp_cfg_speed`, NAPI budgets | `cpsw_set_cbs`, `cpsw_set_mqprio`, `cpsw_split_res`, `set_tx_maxrate` | Partial failure, division with remainder; budgets add up, shapers are on in priority order |
| Address tables | ALE entries, multicast lists, VLANs | `add/kill_vid`, `set_rx_mode`, promiscuous mode | Two netdevs share the table: one must not remove what the other uses |
| Link, probe, remove | PHY, DT, PM resources | `cpsw_adjust_link`, `probe`, `remove` | The PHY's thread splits resources without the rtnl lock; unwinding of a failed probe |

### Small modules

Blocking character devices (`chardriver_projects/virtualled/*`, `expermient/*`):
a flag, a buffer and a wait queue shared by readers and writers.  Bottom halves
(`intrupt/*`, `bottom_half/*`, `top_bottom.c`): tasklets and work items with
shared data, and the order of their teardown.  Ring simulations
(`ethernet_driver/simulated_program/*`): a NIC thread and a polling thread.
Pseudo network drivers: a receive timer beside open, close and unload.  ioctl and
multi-minor devices and single-API examples: no protocol.  The hazards of each, with their lines,
are listed in `PROJECT.json`.

The three driver files do not compile as they stand: `own_cpsw.c:930-931` and
`:1949-1950` close the function before the error labels that follow, and some
identifiers come from headers that the repository does not hold.  The blocks
after those labels are read as the error paths they plainly are.

## 2. Modules

| Module | Role |
|---|---|
| `Cpdma` | The DMA engine with its concurrent users and the hardware |
| `DmaQueue` | What the engine promises: a bounded queue of tokens per channel, each returned once |
| `MCCpdma` | Values for the constants of `Cpdma` |
| `CpswTxQueue` | Stopping and waking of netdev queues over an abstract channel |
| `MCCpswTxQueue` | Values for the constants of `CpswTxQueue` |
| `CpswLifecycle` | Open, stop, suspend and resume beside interrupts and NAPI polls |
| `CpswRx`, `MCCpswRx` | Where the pages of the receive path are: ring, XDP, stack, page pool |
| `CpdmaResources` | Functions: the split of the descriptor pool, rates and their order |
| `CpswRates` | Queue rates, NAPI budgets and link speed, on two threads, over `CpdmaResources` |
| `CpswShaper` | Credit based shaping, priority maps, and what an open restores |
| `CpswAle` | VLANs, addresses and multicast groups of two netdevs in one table |
| `BlockingDevices` | The character devices whose readers wait for writers |
| `DeferredWork` | Tasklets, work items, timers and threads of nine example modules, and their unloading |
| `RingSimulation` | The two simulated receive rings with threads |
| `MCSeparate` | Values for the constants of the last seven, and one specification of them side by side |
| `CpdmaProofs` | `Cpdma`: types, descriptors, lists, quota; tokens and the refinement of `DmaQueue`; restoration after timeouts; DMA and lists |
| `CpswTxQueueProofs` | `CpswTxQueue`: the pool adds up, and a stopped queue has its waker |
| `CpswLifecycleProofs` | `CpswLifecycle`: counts, shared hardware and interrupts |
| `CpswRxProofs` | `CpswRx`: owners of pages, the drained pools, the full ring, the frame's end |
| `BlockingDevicesProofs`, `DeferredWorkProofs`, `RingSimulationProofs` | The safety properties of the three |
| `SeparateProofs` | `CpswAle`, `CpswRates` and `CpswShaper`; the properties of these and of the three before, in the specification of `MCSeparate` |

### Cpdma

A *context* is a thread of control that runs driver code over several steps:
a poller (NAPI), a watchdog (`cpsw_ndo_tx_timeout`), or `Rtnl`, which opens and
stops the interface.  `ctx[x]` holds its program counter and locals: the channel
it works on, the descriptor it has unlinked, the token it is about to return,
where the handler returns to, and the channels its loop has yet to visit.
Submissions come from any CPU and live in the channel record (`sub`, `new`),
because they hold its lock throughout.

A step is one critical section of `chan->lock`, or the code between two.  A
section is split where the hardware can interfere: `__cpdma_chan_submit` chains
the descriptor (`Chain`), and only then reads EOQ of the old tail
(`FinishChain`).  `Locked` says when the channel lock is held between steps: by a
submission, and by `cpdma_chan_stop` while it waits for the teardown.
`CtlrLocked` does the same for `ctlr->lock`.

| Code | Actions |
|---|---|
| `cpdma_chan_submit*`, `cpdma_chan_submit_si`, `__cpdma_chan_submit` | `Submit`, `IdleSubmit`, `MapFails`, `SubmitFirst`, `Chain`, `FinishChain` |
| `cpdma_chan_process`, `__cpdma_chan_process`, `__cpdma_chan_free` | `PollStart`, `PollProcess`, `PollEnd`, `Free`, `Call` |
| `cpdma_chan_stop` | `StopBegin`, `StopRefused`, `StopAck`, `DrainProcess`, `DrainEnd`, `CleanUp`, `Free`, `Call`, `StopEnd` |
| `cpdma_chan_on`, `cpdma_chan_start`, `cpdma_ctlr_start` | `ChanStart`, `CtlrStart`, `CtlrChanOn`, `CtlrStartEnd`, `SecondOpen` |
| `cpdma_ctlr_int_ctrl`, `cpdma_chan_int_ctrl` | `ChanIntCtrl`, `IntOnEnd` |
| `cpdma_ctlr_stop` | `LastStop`, `CtlrStop`, `CtlrStopEnd` |
| `cpsw_ndo_tx_timeout` | `TxTimeout`, `TxLoop`, `TxLoopEnd` |
| the hardware | `HwFetch`, `HwComplete`, `HwTeardown`, `HwReset` |

A call that fails without changing anything (`-EINVAL` in the wrong state,
`-ENOMEM` over the quota or with an empty pool) is no step.  `fifo` is a history
variable: it records what was linked and not unlinked, so that the invariants
can say what the pointers ought to be; no guard reads it, and neither does the
refinement mapping, which follows the pointers from `head` (`Walk`).

*The hardware, as the driver relies on it.*  The DMA reads `hw_next` of its
descriptor, and later writes the flags: OWNER cleared, EOQ if what it read was
null.  In between the driver may chain a successor.  A teardown takes effect at
a packet boundary, stops the DMA, puts the teardown value into CP, and marks the
next unused descriptor with TD_COMPLETE.  Writing CP acknowledges; the model
keeps of CP only whether it shows the teardown value.  The hardware
runs while the controller is enabled.  With `TdTimeouts` it may fail to answer
within 100 ms, and answer later.

*Left out*: statistics, logging, packet contents and lengths, DMA mapping (but
for its failure on TX; RX pages are mapped by their pool), `cpdma_chan_set_chan_shaper`
(registers nobody else reads), memory ordering beyond program order, and the
failure paths of `ndo_open`.  The loop over channels may visit them in any order
where the code goes by index.  `chan->desc_num` is constant: calls that
change it are in `CpdmaResources`.

### CpswTxQueue

The same channels one level up: a channel is the sequence of packets linked in
it, each named by the netdev that sent it, and the pool is a number.  What
`Cpdma` shows about the lists is what makes this view right: packets are
unlinked oldest first under the lock (`Unlink`), the descriptor is freed later
(`FreeDesc`), and last comes the handler (`TxHandler`).

| Code | Actions |
|---|---|
| `cpsw_ndo_start_xmit` | `XmitQueued`, `XmitFails`, `XmitCheck`, `XmitStop`, `XmitRecheck` |
| `cpsw_xdp_tx_frame`, `cpsw_ndo_xdp_xmit` | `XdpXmit` |
| TX polls, `__cpdma_chan_process`, `cpsw_tx_handler` | `NapiProcess`, `FreeDesc`, `TxHandler` |
| `cpsw_ndo_tx_timeout`, `cpdma_chan_stop/start` | `TxTimeout`, `ChanStop`, `ChanDrain`, `ChanStopEnd`, `ChanStart`, `WakeAll` |
| `cpsw_adjust_link` | `LinkUp`, `LinkDown` |

The stack calls `start_xmit` for one packet at a time per queue, not on a stopped
queue, and not on a netdev whose watchdog runs (`netif_freeze_queues`).  The
interface stays open; opening and stopping it is `CpswLifecycle`.

### CpswLifecycle

`rtnl` is the operation in progress (the rtnl lock allows one) with its program
counter; `bulk` and `todo` are the loop of suspend or resume around it.  It is
divided wherever an interrupt or a poll can come between.  Per interrupt line
`line[i]` holds the wrapper's enable bit, the disable depth, `*_irq_disabled`,
and the state of NAPI.  `open[n]` is a history variable: the interfaces whose
last open succeeded.

| Code | Actions |
|---|---|
| `cpsw_ndo_open` | `DevOpen`, `OpenQueues`, `OpenNapi`, `OpenRxqs`, `OpenFill`, `OpenStart`, `OpenEnd`; `OpenError` and `OpenFails` with the steps of a stop between them |
| `cpsw_ndo_stop` | `DevClose`, `StopShared`, `NapiDisable`, `NapiDisabled`, `StopHw`, `StopEnd` |
| `cpsw_suspend`, `cpsw_resume` | `SuspendBegin`, `SuspendNext`, `ResumeBegin`, `ResumeNext`, `BulkEnd` |
| RX and TX interrupts | `Irq` |
| RX and TX polls | `PollAll`, `PollBudget`, `PollComplete`, `PollTailEn`, `PollTailIrq` |

NAPI itself is the kernel's: at most one poll per context, a schedule during a
poll is remembered (`missed`), `napi_disable` forbids new schedules and waits, a
poll that used up its budget while a disable waits is completed without its tail.
The transmit watchdog and netpoll (`IntrDisable`, `PollController`, `IntrEnable`)
mask the interrupts of both netdevs without the rtnl lock; a close waits for
them, a suspend does not.  They are taken on open interfaces only: on one whose
resume failed they would touch registers that are switched off.
A poll's few instructions after `napi_complete` are taken to be over before the
interface has been stopped and opened again, and before another poll of the same
context begins.

`OpenFill` follows the code in asking for a full ring whatever is queued, and
`StopHw` in that `cpdma_ctlr_stop` refuses a controller that was never started.
*Left out*: `netif_carrier_off`, ALE, PHY and CPTS calls; the misc interrupt, and
the failure of `pm_runtime_get_sync`.

### CpswRx

The pages of the receive path, each in a list, the page pool (`cache`), the network
stack, another device, or the hands of the handler (`rx.page`, `rx.new`).  A
channel is the sequence of what is linked in it, as in `CpswTxQueue`; the pool
of descriptors is a number.  `rx` holds the handler's program counter, so that other
CPUs come between freeing the descriptor (`RxFree`), reading the program
(`RxAlloc`, and again in `XdpPass` or `XdpGone`) and submitting the replacement
(`RxRequeue`).  `smp` tells whether they do: on one CPU a softirq runs to its end.

| Code | Actions |
|---|---|
| `__cpdma_chan_process`, `__cpdma_chan_free` | `RxUnlink`, `RxFree`, `TxUnlink`, `TxFree` |
| `cpsw_rx_handler` | `RxNotRunning`, `RxNoPage`, `RxAlloc`, `RxBuild`, `RxRequeue` |
| `cpsw_run_xdp`, `cpsw_xdp_tx_frame` | `XdpGone`, `XdpPass`, `XdpDrop`, `XdpTx`, `XdpRedirect` |
| `cpsw_tx_handler`, `cpsw_ndo_xdp_xmit`, `start_xmit` | `TxHandler`, `Xmit` |
| `cpsw_create_xdp_rxqs`, `cpsw_fill_rx_channels`, `cpsw_xdp_prog_setup` | `OpenFirst`, `XdpSetup` |
| `cpsw_ndo_stop`, `cpdma_chan_stop`, `cpsw_destroy_xdp_rxqs` | `Close`, `NapiDisabled`, `DrainTx`, `DrainRx`, `DestroyPools` |
| the kernel | `RedirectReturns`, `StackFrees` |

*Left out*: lengths other than the encapsulation header's, VLAN tags, checksums,
time stamps; failures of the first filling (`CpswLifecycle`); DMA mapping.

### CpdmaResources and CpswRates

The channels are a function from the channel numbers that exist to weight, rate
and share.  `SplitPool`, `ChanSetWeight`, `SetFactors` and `FitsRate` are
functions of it, written after the C functions of those names, with their integer
divisions; sums are the folds of the community modules.  `CpswRates` has the variables around them and two threads that run
`cpsw_split_res`: `SplitRead` is its first loop, `SplitQueue` one round of the
second, `SplitEnd` the remainder.  `racing` tells whether the PHY's thread may
come between the steps of the other one; `cpsw_adjust_link` does not take the rtnl
lock.  A division by zero is no step: it needs the two threads to race.  The stop
of one netdev while the other is open also calls `cpsw_need_resplit`; that is an
`AdjustLink` too.

### CpswShaper

One port; the shapers' state is a record, so that `cpsw_set_fifo_rlimit` is a
function (`SetFifoRlimit`) that `SetCbs` and the restoration at an open
(`CbsResume`) share.  `Open` and `OtherOpen` reset the switch when no netdev is open.
`tx_pri_map` is the map itself, or the default.

### CpswAle

`vlan`, `ucast` and `mcast` are the table's entries; how the table behaves is taken
from how `own_cpsw.c` uses it.  `members` is what the stack knows of listeners (a
netdev, or VLANs on it), `synced` the number of them it remembers
(`__hw_addr_ref_sync_dev` compares counts only; both are external).

### BlockingDevices, DeferredWork, RingSimulation

One module for each family; the variable `device`, `example` or `program` chooses
the program in the initial state.  What they have in common is written once, and
what tells them apart is a condition on that variable (`ExitSteps` lists the exits
of the modules).  In `BlockingDevices` a critical section is one step, and the test
of the wait, the section and the wake-up are separate ones.  In `DeferredWork` the
kernel's queue runs one item at a time and never queues an item twice.
`taskletuserdata.c` is not one of its modules: it runs `tasklet_init` in every ioctl,
also on a tasklet that is queued, and what the kernel does with that is
undefined.  In
`RingSimulation` the lock makes `Arrive`, `Scan` and `Process` exclude each other in
`threaded_rx.c`; `dma_simulation.c` has no lock, and its signal is a step of its own.
`intrupt_rx_kernel.c` is not there: nothing keeps its interrupt handler, which is requested on a
shared line (60), from running beside the call of it in init (73).  A read of no bytes
in `blocking.c` and `nonblock.c`, and a `read` of the keyboard with no room, are steps too.

## 3. Runs

| Run | Question | Instance | States |
|---|---|---|---|
| `cpdma_traffic` | Do driver and hardware agree about the list, is no restart lost, are quota and credit kept? | 1 TX and 1 RX channel, 3 shared descriptors, 3 tokens, quota 2, no timeouts | 395,240 |
| `cpdma_stop` | Are descriptors and tokens conserved and channels restored when timeouts, opens and stops interleave? | 1 TX channel, 2 descriptors, 2 watchdogs, teardowns may time out | 1,606,756 |
| `cpdma_live` | Does the engine implement `DmaQueue`?  Does everything that was started end? | 1 TX channel, 2 descriptors, 1 watchdog | 91,520 |
| `cpdma_cleanup` | Are cleaned-up descriptors unused by the hardware? (no) | as `cpdma_live` | - |
| `txqueue` | Is a stopped queue always woken, without the watchdog? | 1 netdev, 2 channels with quota 2, 4 descriptors | 7,360 |
| `txqueue_dual` | And with two netdevs on a channel? (no) | 2 netdevs, 1 channel with quota 2 | - |
| `lifecycle` | Do counts, shared hardware and interrupt masks survive opens, failures, stops and sleep?  Does everything end? | 2 netdevs, ring of 2, XDP queues and RX filling may fail, with and without `quirk_irq`, the watchdog and netpoll of one netdev | 230,596 |
| `lifecycle_resume` | Also if an open fails during resume? (no) | as `lifecycle` | - |
| `lifecycle_fill` | Does the filling ask for what is missing? (no) | as `lifecycle`, the filling may fail | - |
| `rx` | Is every page in one place, do pools drain, does the ring stay full? | 2 netdevs, 4 pages, a ring of 2, 1 TX entry, one CPU and several | 114,536 |
| `rx_replacement` | Can a received buffer always be replaced? (no) | as `rx` | - |
| `separate` | Six components without common state, one moving in each behaviour | see below | 465,816 |

*Properties of Cpdma.*  `TypeOK`; `DescConserved` (each descriptor is in one place);
`ListShape` (pointers, chain and count agree); `WithinQuota`;
`TokensConserved` (each token returned once); `HwFollowsList` (the hardware works
on the oldest descriptor it owns, in the channel's list); `NotStalled` (an idle
DMA with work has an EOQ that somebody will see); `CreditMatches` (RXFREE is the
number of unfilled buffers); `ChannelsRestored` (when the watchdogs are done all
channels run with interrupts on); `ImplementsQueue` (refinement);
`TransmissionEnds` and `TimeoutEnds` (liveness).

*Properties of CpswTxQueue.*  `StoppedHasWaker`: while the link is up, a stopped
queue has a packet of its own whose completion will wake it, or its transmitter
is about to look again.  `QueuesWoken`: it is woken.  Between the failed check
and the stop every completion may happen; the second look is what saves the
queue, and dropping it is the mutant of the first property.

*Properties of CpswLifecycle.*  `UsageCountsUsers`: `usage_count` and the PM
references are the number of open interfaces.  `HardwareFollowsUsers`: DMA and
NAPI are on exactly while there is one.  `InterruptsOn`: no combination of
enable bit, disable depth and flag leaves a line shut while NAPI is idle.
`OperationsEnd`, `WorkIsHandled`: nothing waits for ever in `napi_disable`, and no
completed packet is left behind.  `MissingBuffersFit`: checked, and violated,
in `lifecycle_fill`.

*Properties of CpswRx.*  `PagesConserved`: no page has two owners.  `PoolDrains`:
after the last close every descriptor is free, and the page pool waits only for
pages that other devices hold.  `RingStaysFull`: on one CPU no path loses a
buffer of the ring.  `FrameEndsRight`: on one CPU the skb ends where the frame did.
`ReplacementFits`, on several: checked, and violated, in `rx_replacement`.

*Properties of `separate`.*  Each is about one component.  `SharesAddUp`: the
quotas never exceed the pool, whatever splits are refused and however the two threads
interleave; weights that fit are the ones the shares follow, with the remainder
given out, unless no part reaches one descriptor; and on one thread the weights of
proportional rates do fit (`Proportional`: the rates within what the weights are
percentages of, each a percent or more).  `LimitsInOrder`: limited channels are the upper ones, and the
hardware limits those that have a rate.  `BudgetsCurrent`: NAPI budgets add up to 64
and are those of the present rates and speed (one queue has the remainder).
`ShapersAgree`, `RestoredOnOpen`: the shaper bits in two registers agree, give away
less than the bandwidth, and an open restores what was asked for.  `VlansServed`,
`MulticastExact`: no operation on one netdev takes entries from the other (the port's
VLAN with the address, registered VLANs with their members and the broadcast entry), and
the groups in the table are those that are listened to.  `ChangeSeen`,
`KeysInOrder`, `NobodyOversleeps`: no change is swallowed, keys come once and in
order, no wake-up is lost.  `QuietWhenGone`: nothing of six of the nine modules runs after
their exit; the three others do not promise it (section 5).
`ResultIsOwn`: each concurrent ioctl gets its own result.  `PacketsInOrder`: in both programs packets
are processed once and in the order in which they were written; in `threaded_rx.c` the CPU
does not wait while one is there.
`TypesOK` joins the type invariants.

*Bounds of Cpdma.*  Two descriptors suffice for a list with distinct head and tail, for
EOQ between them, and for one free while the other is linked; the traffic run has
three and a quota of two, so that the pool and the quota run out separately and
two channels compete.  The quota is the bound on the lists, the tokens and
descriptors bound everything else; no counter is cut off.  RXFREE stays bounded
in the traffic run because it equals the number of unfilled buffers; the runs with
teardowns have no RX channel, where the register, which nobody resets between
two opens of a channel, would drift without bound.  Two watchdogs are the two
netdevs of a dual EMAC, all the hardware has.  Descriptors and tokens are
symmetric in the safety runs; the liveness run does without symmetry.

`HwFollowsList`, `NotStalled` and `CreditMatches` are stated for traffic without
teardowns.  With teardowns the first does not hold (`cpdma_cleanup` shows how it
is lost); the other two speak of a channel whose register contents a teardown
leaves undefined.

*Bounds of `rx`.*  A ring of two is full, short by one, and empty; one TX entry is
enough to take the descriptor of a received page; four pages leave one for the
stack and one for the pool while the ring is full, and can run out.  Pages are
symmetric.  The frame's length is two units, one of them the header.

*Bounds of `separate`.*  Rates: up to three queues (two while threads race), 12
descriptors and rings of 6 and 10, so that equal shares have a remainder, a percentage leaves some
queues nothing, and two descriptors for TX can be rounded away altogether, a bus of 4 MHz and a rate counter of five bits, so that the search for
send and idle counts has several rounds for each of the two rates; link speeds far below and above
the sum of the rates: from the lower one to two rates of 60 Mb/s `cpsw_split_res` cannot scale, and splits are
refused after a weight was stored.  Shaper: three FIFOs as in the hardware, slopes that fit one
speed and not the other, four classes and three.  ALE: two netdevs, two reserved VLANs
and one of the first netdev's own, one group, three addresses.  Blocking: three
readers, two writers, four writes and a ring that holds two, so that it
overflows and two readers race for one change.  Deferred work: two callers with two
arguments.  Rings: three descriptors, batches of two, six packets: each descriptor is
used twice and the ring can be full.  Deadlock is not checked in `rx` and `separate`:
writes, keys and packets are bounded, and a module that is gone does nothing.

*Bounds of the others.*  `txqueue`: two channels, so that one can drain while the
other waits for the pool; with a quota of two a queue can be stopped by its own
channel or by the pool, and is stopped while a packet is queued, unlinked, or
freed but not yet handled.  All counters are bounded by the pool.  Quotas are
two or more, which the proof shows to be needed (section 4).
`lifecycle`: two netdevs are a first, a second and a last user; a ring of two
can be filled half.  `Maskers` bounds watchdogs and netpoll to one netdev, the
other's being the same; netpoll is used without `quirk_irq` only (section 5).  Counters are bounded by the netdevs, the depth by the flag.
The failure of `netif_set_real_num_*_queues` is in no run: on the first open it
makes the error path call `napi_disable` on contexts never enabled
(`own_cpsw.c:935`), which hangs.

Of the runs before these, all check deadlock but `lifecycle_resume`, where a stop of a netdev
whose resume failed hangs in `napi_disable`.  An interface can otherwise always
be opened, stopped or submitted to.

*Fairness* (`txqueue`).  `start_xmit` and handlers run to their end, a watchdog
that has begun goes on (weak); the poll serves every channel with completed
packets in turn, so that none is passed over for ever (strong, per channel).
No timeout, transmission or link change is assumed.

*Fairness* (`lifecycle`).  The operation under the rtnl lock goes on; a
scheduled poll runs and gets through with its packets, a watchdog or netpoll that
has masked the interrupts enables them again (all weak).  An interrupt that is
asserted, enabled and not disabled is taken (strong: a watchdog may mask it again
and again, but leaves it open for longer than taking it lasts).  No open, stop,
sleep, timeout or packet is assumed.

*Fairness* (`cpdma_live`).  The holder of a channel lock goes on (weak: spinlock
holders are not preempted for ever).  The hardware completes what it was started
on and answers a teardown (weak); nothing promises that a packet is received.
NAPI polls a channel whose oldest descriptor is complete (weak: the interrupt
stays asserted until CP is acknowledged).  A context inside a call goes on, and
one that waits for a lock gets it although others take it meanwhile (strong:
spinlocks are queued).  Nothing is assumed about new submissions, timeouts, opens and stops.

## 4. Proofs

Every theorem holds for all values of the constants that satisfy the named
assumptions of the module or the hypothesis in the theorem; sets of channels,
contexts, netdevs, pages, readers and so on may have any size.

| Module | Theorem | States |
|---|---|---|
| `CpdmaProofs` | `Invariance`, `TypeCorrect` | `[]IInv`, `[]TypeOK` |
| | `DescriptorsConserved`, `ListsWellFormed`, `QuotaRespected` | `[]DescConserved`, `[]ListShape`, `[]WithinQuota` |
| | `TokensAreConserved` | `[]TokensConserved` |
| | `ChannelsImplementQueue` | `Spec => ImplementsQueue`: the engine refines `DmaQueue` |
| | `RestoreInvariance`, `TimeoutsRestoreChannels` | `[]RestoreInv`, `[]ChannelsRestored` |
| | `TrafficInvariance`, `HardwareFollowsLists`, `DmaIsRestarted`, `CreditIsExact` | `[]TrafficInv`, `[]HwFollowsList`, `[]NotStalled`, `[]CreditMatches`, each of `TrafficSpec` |
| `CpswTxQueueProofs` | `TypeCorrect`, `DescriptorsAddUp` | `[]TypeOK`, `[](PoolCounted /\ SharesKept)` |
| | `StoppedQueuesAreWoken` | `[]StoppedHasWaker`, of a single netdev |
| `CpswLifecycleProofs` | `Invariance`, `TypeCorrect`, `UsersAreCounted`, `HardwareIsShared`, `InterruptsComeBack` | `[]IInv`, `[]TypeOK`, `[]UsageCountsUsers`, `[]HardwareFollowsUsers`, `[]InterruptsOn` |
| `CpswRxProofs` | `Invariance`, `TypeCorrect`, `PagesHaveOneOwner`, `TeardownReturnsAll`, `RingNeverShrinks`, `FramesKeepTheirEnd` | `[]IInv`, `[]TypeOK`, `[]PagesConserved`, `[]PoolDrains`, `[]RingStaysFull`, `[]FrameEndsRight` |
| `BlockingDevicesProofs` | `TypeCorrect`, `NoChangeSwallowed`, `NoWakeUpLost`, `KeysStayInOrder` | `[]TypeOK`, `[]ChangeSeen`, `[]NobodyOversleeps`, `[]KeysInOrder` |
| `DeferredWorkProofs` | `TypeCorrect`, `UnloadedIsQuiet`, `OwnResults` | `[]TypeOK`, `[]QuietWhenGone`, `[]ResultIsOwn` |
| `RingSimulationProofs` | `TypeCorrect`, `RingIsQueue` | `[]TypeOK`, `[]PacketsInOrder` |
| `SeparateProofs` | `AleInvariance`, `NetdevsAreServed`, `ListenersAreServed` | `[]AleInv`, `[]VlansServed`, `[]MulticastExact` |
| | `RatesInvariance`, `LimitsStayInOrder` | `[]RateInv`, `[]LimitsInOrder` |
| | `ResourcesInvariance`, `DividedInvariance` | `[](RateInv /\ RatesTyped /\ Progress /\ RatesGiven)`, `[]Divided` |
| | `SharesAreDivided`, `SharesAreUsedUp` | `[]SharesAddUp`; under `Ample` and `Moderate` the shares of a direction are its descriptors whenever one thread is done |
| | `BudgetsStayCurrent` | `[]BudgetsCurrent` |
| | `ShaperInvariance`, `ShapersStayInAgreement`, `OpenRestores` | `[]ShaperInv`, `[]ShapersAgree`, `RestoredOnOpen` |
| | `ChangesAreSeen`, `KeysComeInOrder`, `NobodySleepsOn` | `[]ChangeSeen`, `[]KeysInOrder`, `[]NobodyOversleeps` of `MCSpec` |
| | `GoneIsQuiet`, `ResultsAreOwn`, `PacketsComeInOrder` | `[]QuietWhenGone`, `[]ResultIsOwn`, `[]PacketsInOrder` of `MCSpec` |
| | `TypesAreCorrect` | `[]TypesOK` of `MCSpec`: all six components |

### Cpdma: the lists

*Assumptions* (`ConstantsAssumption`): TX and RX channels differ, the null value and
the "not yet read" mark are no descriptor, quotas are naturals, contexts are
distinct, there are finitely many descriptors (needed for the refinement and the
credit only).

None of the invariants is inductive alone.  `count` stays
a natural number because it is the length of the list (`ListShape`); the list
stays well formed because a descriptor allocated for one channel is in no other
list (`DescConserved`), so that writing its `hw_next` disturbs nobody; and
conservation needs that a context with an unlinked descriptor is at "free" and
that a submission's `new` is set exactly when `sub` says so.  These last facts
are `CtxInv` and `SubInv`; `IInv` is the conjunction of all.  The hardware can
clear and set flags but never writes `hw_next`, which is why its steps, teardown
included, preserve everything without any assumption about where HDP points:
the proof covers the interleavings of `cpdma_cleanup` as well.

There is a lemma for each action that changes a list (allocation, first
submission, chaining, its end, unlinking, freeing) and one for each group that
does not, which rests on `FrameLemma`: the invariant depends only on the parts
of the state it names.  Facts about sequences (`AppendElements`, `TailElements`)
come first.  `NextIInv` has one case per action.

### Cpdma: tokens and refinement

`TokenInv` adds to `IInv` the types of the tokens and their conservation.  The steps
are sorted once (`NextCases`): quiet ones, which rest on a frame lemma, and
allocation, linking, unlinking (`Reclaims`, common to polls, drain and cleanup),
freeing and the callback.

The refinement maps a channel to the tokens found by following `hw_next` from
`head`.  `WalkIsList` shows that the walk yields exactly the list `fifo`: if it
differed there would be a least position where it does, and there `ListShape`
says otherwise.  (This takes the place of an induction.)  Then
`SubmitFirst` and `Chain` are `Accept`, unlinking is `TakeBack`, the
callback is `Return`, and every other step stutters (`StepMaps`).  The refinement is of
safety; that what was accepted also comes back is liveness, and `cpdma_live`'s.

### Cpdma: restoration after timeouts

`ChannelsRestored` speaks of the moment when nobody is at work.  What makes it true is
who is at work before: `Roles` says which places a poller, a watchdog and the rtnl
thread can be at; `Phase` ties the controller's state to the
rtnl thread and keeps the watchdogs out while it opens or stops; `Restored(c)` names, for each
channel that is torn down, idle or masked, a context that will bring it back.
The point of the proof is the refused call: a watchdog whose `cpdma_chan_stop` or
`cpdma_chan_on` is refused may go on, because the one that caused the refusal is
still in it and will restore the channel, and unmask its interrupt, itself.

### Cpdma: the DMA and the lists

`TrafficSpec` is `Spec` without stops and timeouts, the scope in which the three
properties are stated (section 3).  `AtPosition(c, k)` describes the one position of
the DMA in a list: everything from `k` on is owned by the hardware, what precedes it is given back, the
DMA works on `k`, or it is idle and has left EOQ at `k - 1`, where the reclaimer will find
it.  What it has read of `hw_next` (`latch`) is the successor or the null
that was there before.  The race of `cpdma_chan_submit` with the end of the queue is the lemma
`FinishChainFollows`: whether the submitter sees EOQ and restarts, or the hardware
completes later and the reclaimer restarts, HDP is written exactly once.  The credit
is counted with `n + 1 - k`.

### CpswTxQueue

`PoolCounted` counts by sets: linked packets are pairs of a channel and a
position, so that the proof needs no sum over channels.  `StoppedHasWaker` is inductive with it.  The
step that matters is `XmitRecheck`: if it leaves the queue stopped, no descriptor
is left, and the lemma `FullHasPacket` has to find a packet in the channel.  It does
under `SingleEmac`: one netdev, and for each channel two descriptors beyond the shares
of all others.  Both parts are necessary.  With two netdevs the packet may be the
other's (`txqueue_dual`).  With one descriptor beyond the others' shares, for
instance two channels with a share of one and a pool of two, NAPI may have unlinked a
descriptor that still counts for the pool and no longer for its channel; XDP takes
the channel's place again, and the other channel has neither a packet nor a
descriptor: TLC finds the stopped queue with these constants.  The driver's shares are
large unless rates are set: a rate of at most 2 % of the speed has weight 1
and with it one descriptor of 128.

### CpswLifecycle

*Hypothesis* `ResumeSucceeds`: no open fails during a resume; with such failures the counts
are wrong, as run `lifecycle_resume` shows.  `InterruptsComeBack` also has
`TRUE \notin Netpoll`: with `quirk_irq`, netpoll leaves a line shut (section 5).  The
theorems cover every other failure, the watchdogs of all netdevs, and both kinds of interrupt.
The invariant says where an operation can be and on which netdev (`OpInOrder`), what
the counts are at each of its places (they differ from the users by the operation in progress), what DMA,
ring and NAPI are, and for each interrupt line how enable bit, disable depth, the
flag `*_irq_disabled` and the ends of the poll (`tail`) are related, with a
disabled bit accounted for by a poll that is due, a tail, or a masker.

### CpswRx

*Assumptions*: there is a netdev, and the mark of a foreign frame is no page.
Ownership is stated with sets of pages and sequences without repetitions, and the number of free
descriptors as what the quotas leave.  `RingStaysFull` needs what one CPU guarantees: between
freeing a descriptor and submitting the replacement nobody else takes one
(run `rx_replacement` shows several CPUs).  `PoolDrains` needs the phases of a
teardown: what is drained stays drained.

### The small modules

`BlockingDevices` (`Sizes`: a keyboard ring of two or more): who is awake with
the flag set, and that both the present value and the flag are written under the
mutex. `DeferredWork` (`Given`: the arguments are numbers, and the mark for none
is no caller): what each exit step has already stopped, by position in
`ExitSteps`. `RingSimulation` (`Sizes`): the CPU-owned descriptors are the
`Queued` ones from the CPU's index on, modulo the ring's size, and hold the
packets written last. The properties are first theorems of each module's own
specification. The run `separate` checks them of `MCSpec`, where the components
stand side by side; its assumptions on constants are hypotheses of the theorems.
`BlockingMoves`, `DeferredMoves` and `RingMoves` say that in `MCSpec` each
component takes steps of its own and no others, which carries the theorems over.

### CpswAle

*Hypothesis* `Ports`: finitely many VLANs, a different reserved one for each
netdev, an address for each, the broadcast address no group, and no VLAN
registered on both netdevs that is not reserved (section 5 says what happens
otherwise). It holds in `separate`.

`VlansServed` needs little: the entries that an operation on one netdev touches
carry its own VLANs, and those are no other's (`VlansApart`). `MulticastExact`
speaks of open netdevs; after a stop and an open it would be lost if closed ones
had entries left. So `EntriesSynced` ties the entries of every netdev to what
was synced last, and `SyncedUpToDate` ties that to the present listeners, or to
none for a netdev that is closed or promiscuous. The driver sees only numbers:
how many listen to a group, and how many did. `CountTellsSelf` is why that is
enough to tell the netdev's own membership from its VLANs', `CountTellsMore` why
the comparison with the last number shows whether there is one more or one less,
and `RefSyncIsExact` joins them to what `cpsw_ndo_set_rx_mode` leaves in the
table.

### CpswRates: the order of the limits

*Hypothesis*: the rates are natural numbers. `SetFactors` is a search for send
and idle counts by recursion, whose outcome for all rates the prover cannot
compute; the module assumes of it (`FactorAssumption`, evaluated by TLC in
`separate`) that a rate of at least the minimum yields a rate that is not 0.
`LimitsInOrder` also needs that the channels are those that
`cpsw_update_channels_res` made, from the top down (`ChannelsUp`), so that adding
the next queue or removing the last keeps the order, and that pool splits and
weights touch neither (`SplitPoolKeepsRates`). What `cpdma_chan_fit_rate` demands
of a new rate is what the order asks (`RatesSetTxMaxrate`), on both threads at once.

### CpswRates: shares and budgets

| Hypothesis | Says | Why |
|---|---|---|
| `Requests` | rates and speeds are natural numbers, and 0, no limit, is a rate | the types of the code |
| `Directions` | whatever ring is asked for, RX and TX keep a descriptor each | the ring's size comes from `cpsw_set_ringparam` (registered at `own_cpsw.c:1390`, outside the repository), taken to accept no ring that leaves one of them nothing |
| `Ample` (`SharesAreUsedUp`) | each keeps a hundred, and TX as many as there are queues | a percent of less may round to nothing (section 5) |
| `Moderate` (`SharesAreUsedUp`) | limits and link speeds are of one order of magnitude | `cpsw_split_res` follows a drop of the speed for two decades only (section 5) |

`SharesAddUp` needs `Requests` and `Directions`, `BudgetsCurrent` `Requests` only, and
`separate` satisfies both.  It satisfies neither `Ample` nor `Moderate`: the run has the refused
splits and the shares of nothing that these two exclude, and the second theorem about
shares says what they would give in addition.

*Sums.* The library proves nothing of the folds, and its induction theorems cannot be
used. `SumIsComputed` reads a fold as the value of a function that takes one
element of a set after the other; that such a function exists and that the order
does not matter (`Computable`, `AnyOrder`) is shown by the size of the set: the
sizes for which it holds are a set of naturals, and if a natural were missing from it there
would be a least one (`AllNaturals`, `<` is well founded). From it follow the facts that the rest uses: `SumTakesOne`,
`SumOfTwoParts`, `SumOfChanged`, `SumOfRenamed`, `SumMonotone`, `SumTimes`.

*Shares.* `Divided` is the invariant: what the channels of a direction hold is
never more than it has, and while the weights are within 100 percent
(`Splits`) exactly that, or nothing where every part rounds to nothing (`AllOrNone`,
which depends on the weights alone: `SameParts`). A refused split, a rejected ring, a new channel without a split, and
the removal of a channel whose descriptors go back only with the next split all keep
it. That the weights *are* within 100 percent when one thread is done is
`WeightsSplit`: of `Proportional` rates every one is at least a percent of the rate divided by, so
that no weight is rounded up, and all of them together are no more than it.
`SharesAreUsedUp` adds that moderate rates are proportional (`RateSuffices`) and that
of a hundred descriptors some part is not nothing (`SomeAreGiven`).

*Budgets.* `Progress` follows `cpsw_split_res` through its loops: the queues
below the index have the weights and the budgets of the present rates, and `left`
is what the others leave of the poll weight (`Writing`). Two facts carry it over the
operations: with one thread at a time (`Alone`) rates, queues and speed do not
change under the loop, and `cpsw_need_resplit` skips a split only if no queue or
every queue is limited, when the result does not depend on the speed (`SameReads`).

### Types

`TypesAreCorrect` joins the types of the six components under the hypotheses named
above. Those of `CpswShaper` and `CpswAle` need more than their own conjuncts:
the percentage that `cpsw_set_fifo_rlimit` computes is at most 100 because the sum
of the bandwidths fits the speed (`Within`, `ShaperTypes`), and the table has no
entries but of its hosts, VLANs and groups (`AleTypes`), which an addition that fails half way
and a flush leave alone.

### CpswShaper

*Hypothesis* `Bandwidths`: slopes and speeds are positive numbers. `Agree`
is `ShapersAgree` of a configuration, with its types. `cpsw_set_fifo_rlimit`
keeps it because what `cpsw_set_fifo_bw` tests is the sum over all FIFOs with a
bandwidth, and the shapers that are on are some of these, also after a reset
(`SumMonotonic`, `SumWithout`). `OpenRestores` proves an action property:
`cpsw_cbs_resume` goes from the highest FIFO down, and `OneMoreRestored` shows
that each is accepted if what was asked for fits the present speed, since those
above are shaped by then and those below count in the sum whether they are
restored or not.

### Only model-checked

Liveness and fairness (`QueuesWoken`, `OperationsEnd`, `WorkIsHandled`,
`TransmissionEnds`, `TimeoutEnds`) are beyond the prover. Every other property of a
passing run is proved. Each `[]P` above was model-checked before it was proved,
and so were the strengthened invariants of the tokens, of the restoration, of
`CpswTxQueue`, `CpswAle`, `CpswShaper` and `CpswRates`. What `SetFactors` computes is
checked for the rates of `separate` (`FactorAssumption`), not proved.

## 5. Disagreements found

* `cpdma_cleanup`.  `__cpdma_chan_process` restarts the DMA after an EOQ
  whatever the channel's state (`own_davinci_cpdma.c:1477`).  After a teardown
  the drain in `cpdma_chan_stop`, or a poller, may reclaim a descriptor with
  EOQ that has a successor: HDP is written, the hardware starts on the
  successor, and `cpdma_chan_stop` unlinks and frees it as one of the "remaining
  packets [that] haven't been tx/rx'ed" (line 1618).
* `txqueue_dual`.  `cpsw_tx_handler` wakes the queue of the netdev whose packet
  it completes (`priv.c:79`).  When one netdev's packets fill a channel, the
  other netdev's queue on it is stopped with none of its own in flight; no
  completion wakes it, only the transmit timeout, by restarting the DMA.
* `lifecycle_resume`.  `cpsw_resume` ignores a failed `ndo_open`
  (`own_cpsw.c:2023`).  The netdev counts as running, so closing it runs
  `cpsw_ndo_stop`, which takes the usage count, a PM reference and the hardware
  from the netdev that is open.
* `lifecycle_fill`.  A filling that fails half way leaves its buffers queued, and
  since `cpdma_chan_get_rx_buf_num` returns the quota rather than what is
  missing, every later first open fails on `-ENOMEM` (`own_cpsw.c:937`).

* `rx_replacement`.  The descriptor of a received packet is free before
  `cpsw_rx_handler` submits the replacement.  On several CPUs a transmission takes it
  in between although both channels keep their quotas, since a quota is tested on a
  count that has gone down and the free list is common: `-ENOMEM`, which
  `WARN_ON` at `own_cpsw.c:478` declares impossible, and a ring that is one buffer short.

Met while modelling, stated by no run because nothing in the repository promises
otherwise, or because the models leave the case out on purpose:

* `own_davinci_cpdma.c:1520`: a poller goes on in a channel being torn down, which lines
  1517-1518 exclude.  The lists survive it: `cpdma_stop` and the theorems hold with
  such pollers.
* `own_cpsw.c:1281`: with `quirk_irq` netpoll calls the handler of a line that is
  disabled already; one flag cannot count two, and the line stays shut.  With
  `Netpoll = {TRUE}` in `lifecycle.cfg` TLC shows it.
* `priv.c:1087`: `cpsw_mqprio_resume` does not map the last class to FIFO 0, as
  `cpsw_tc_to_fifo` does, so that with three classes an open changes the map.
  `RestoredOnOpen` asks for it with four only.
* `priv.c:978`: a refused CBS request at an unchanged speed sets `shp_cfg_speed` to 0.
* `priv.c:378`: with the resources split on two threads `max_rate` may be
  0 while a queue is limited, or budgets be those of an old speed.
  `BudgetsCurrent` asks for one thread at a time.
* `own_davinci_cpdma.c:831`: a weight stays stored when the split is refused.  Weights
  rounded up to 1 can add up to 101, and the split is then refused silently.
* `priv.c:378-391`: after a fall of the speed `max_rate` is raised tenfold twice at
  most.  Two of three queues limited to 900 Mb/s on a link that falls from 1 Gb/s to 10 Mb/s
  still ask for more than that: the weights exceed 100, the splits are
  refused, `ch_budget` may be negative, `bigest_rate` wraps, and the descriptors of a channel
  that is destroyed meanwhile belong to nobody until a split is accepted again.  `separate` goes there:
  `SharesAddUp` promises of refused splits only that they give nothing away twice, and that
  the first weights that fit are divided by.
* `own_davinci_cpdma.c:739-762`: with less than a hundred descriptors in a direction every share may
  be rounded to 0; then there is no largest one (`most_chan`) and nobody gets the remainder.
  With none at all (line 722) the shares stay those of the split before.
  `SharesAddUp` names the first case, and `separate` reaches it; `Directions` excludes the second.
* `own_cpsw.c:1237`: a VLAN id registered on both netdevs is one entry; an addition or
  removal on one takes it from the other.  `VlansServed` uses different ids.
* `priv.c:1371`: a program that is detached between the two reads leaves the
  frame's start after the encapsulation header and its length with it.
  `FrameEndsRight` speaks of one CPU.
* `taskletuserdata.c:48`: `tasklet_unlock_wait` does not wait for a tasklet that is
  queued, so the ioctl may return an older result; and the next ioctl runs `tasklet_init` (42) on the
  queued tasklet, which clears its SCHED bit, can link it twice, and leaves `tasklet_kill` nothing
  to wait for.  The module is not modelled.
* `intrupt_rx_kernel.c:73`: init calls `rx_isr` by hand, with interrupts enabled and no lock, after it was
  requested on the shared IRQ 11 (60): two handlers may process one descriptor and advance
  `cpu_index` twice.  The module is not modelled.
* `top_bottom.c:57`, `wrkqueue.c:52`, `completion.c:34`: the tasklet is killed before the
  IRQ is freed, the work is not flushed, the thread is not waited for;
  `QuietWhenGone` excludes these three.
* `nonblock.c:33`: a write between the copy and the reset of the flag is lost.
  `block_led.c:51`: the flag is reset though the copy failed.  `blocking.c`: a write of no bytes
  makes the data before it unreadable, and a read of no bytes resets the flag with nothing handed
  out.  `ChangeSeen` asks for good buffers and neither of the two.
* `own_davinci_cpdma.c:739`: a weight of 1 gives a TX channel one descriptor of 128; with shares
  this small a queue can stay stopped without a packet of its own (section 4).
* `dma_simulation.c:62`: a signal between scan and wait is lost; the packet stays
  until the next one is written, for good if the ring is full by then, since a dropped packet signals
  nothing.  `PacketsInOrder` does not promise otherwise of this program.

## 6. Plan

Done: the DMA engine, the transmit queues, the lifecycle with watchdog and netpoll, the
receive path, resources and rates, shaping, address tables, and the small modules.
All their safety properties are proved.  Left, in this order:

1. Switch mode of the ALE, with one netdev over two ports, and all-multicast.
2. `poll_controller` and the watchdog together with the lists of `Cpdma`.

## 7. Not modelled

* Device-tree parsing, probe and remove: sequential calls into frameworks that are
  not in the repository.
* Timestamping (`cpsw_hwtstamp_set`, `cpsw_hwtstamp_get`) and the misc interrupt:
  register writes; the CPTS driver is elsewhere.
* ioctl and multi-minor devices: every operation is one copy to or from a variable.
* The rest of the examples: one kernel API each (load, unload, print, a register).
* Within modelled parts: the switch mode with a single netdev, statistics, the failure
  of setting the queue counts (`own_cpsw.c:935` then hangs in `napi_disable`), the
  shutdown of the ring simulations.
* `taskletuserdata.c` and `intrupt_rx_kernel.c`, for the reasons in section 5; `rx_module.c` and
  `tx_module.c`, which have one thread each and nothing that interleaves.

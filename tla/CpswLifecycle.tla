--------------------------- MODULE CpswLifecycle ---------------------------
(***************************************************************************)
(* Opening and stopping the interfaces of a CPSW: cpsw_ndo_open and        *)
(* cpsw_ndo_stop with their error paths, suspend and resume, and what runs *)
(* beside them: the RX and TX interrupt handlers, NAPI polls, the transmit *)
(* watchdog and netpoll, which share enable bits, disable depths and the   *)
(* flags rx_irq_disabled and tx_irq_disabled with open and stop.           *)
(*                                                                         *)
(* The operations hold the rtnl lock, so there is one at a time; it is     *)
(* divided where an interrupt or a poll can come between.  The DMA engine  *)
(* is reduced to its state and the number of RX buffers queued in it       *)
(* (module Cpdma has the rest).                                            *)
(***************************************************************************)
EXTENDS Integers, FiniteSets

CONSTANTS
  Netdevs,   \* two in dual EMAC mode
  RxNum,     \* the RX buffers of a filled interface
  Failures,  \* which calls of an open may fail: "queues", "rxqs", "fill";
             \* and "resume" if an open may fail while the system resumes
  Netpoll,   \* the values of quirk_irq with which netpoll is used
  Maskers,   \* bound: the netdevs whose watchdog fires, or that netpoll uses
  NULL

ASSUME ConstantsAssumption ==
  /\ IsFiniteSet(Netdevs)
  /\ RxNum \in Nat \ {0}
  /\ Netpoll \subseteq BOOLEAN /\ Maskers \subseteq Netdevs
  /\ NULL \notin Netdevs

Lines == {"rx", "tx"}

VARIABLES
  quirk,   \* cpsw->quirk_irq: the handlers also disable the interrupt line
  asleep,  \* the system is suspended
  up,      \* up[n]: netif_running
  open,    \* open[n]: ndo_open has succeeded, and ndo_stop was not called since
  usage,   \* cpsw->usage_count
  pm,      \* the runtime PM references that interfaces hold
  dma,     \* ctlr->state
  ring,    \* RX buffers queued in the DMA engine
  line,    \* per interrupt line: its state and that of its NAPI context
  rtnl,    \* the operation in progress
  mask     \* per netdev: its watchdog or netpoll, while it keeps interrupts off

vars == <<quirk, asleep, up, open, usage, pm, dma, ring, line, rtnl, mask>>

LineRecord ==
  [work : BOOLEAN,     \* completed packets: the hardware asserts the line
   en : BOOLEAN,       \* wr_regs->rx_en, tx_en
   depth : Nat,        \* disable_irq_nosync minus enable_irq
   off : BOOLEAN,      \* cpsw->rx_irq_disabled, tx_irq_disabled
   napi : {"off", "idle", "sched", "done"},
   dis : BOOLEAN,      \* napi_disable waits for the poll
   missed : BOOLEAN,   \* scheduled again during a poll
   tail : {"none", "en", "irq"}]  \* where a poll is after napi_complete

\* "rx" and "tx" stand for napi_disable of that context.
RtnlRecord ==
  [op : {"none", "open", "stop"},
   n : Netdevs \cup {NULL},
   pc : {"idle", "queues", "napi", "rxqs", "fill", "start", "intr", "err",
         "stop", "rx", "tx", "hw", "end"},
   bulk : {"none", "suspend", "resume"},
   todo : SUBSET Netdevs]  \* what the loop of suspend or resume has to visit

TypeOK ==
  /\ quirk \in BOOLEAN
  /\ asleep \in BOOLEAN
  /\ up \in [Netdevs -> BOOLEAN]
  /\ open \in [Netdevs -> BOOLEAN]
  /\ usage \in 0..Cardinality(Netdevs)
  /\ pm \in 0..Cardinality(Netdevs)
  /\ dma \in {"IDLE", "ACTIVE"}
  /\ ring \in 0..RxNum
  /\ line \in [Lines -> LineRecord]
  /\ rtnl \in RtnlRecord
  /\ mask \in [Netdevs -> {"none", "timeout", "netpoll", "polled"}]

NoOp == [op |-> "none", n |-> NULL, pc |-> "idle", bulk |-> "none", todo |-> {}]

\* After cpsw_probe, which asks the SoC for the quirk.
Init ==
  /\ quirk \in BOOLEAN
  /\ asleep = FALSE
  /\ up = [n \in Netdevs |-> FALSE]
  /\ open = [n \in Netdevs |-> FALSE]
  /\ usage = 0
  /\ pm = 0
  /\ dma = "IDLE"
  /\ ring = 0
  /\ line = [i \in Lines |->
               [work |-> FALSE, en |-> FALSE, depth |-> 0, off |-> FALSE,
                napi |-> "off", dis |-> FALSE, missed |-> FALSE,
                tail |-> "none"]]
  /\ rtnl = NoOp
  /\ mask = [n \in Netdevs |-> "none"]

At(pc) == rtnl.pc = pc
Goto(pc) == rtnl' = [rtnl EXCEPT !.pc = pc]
OpEnds == rtnl' = [rtnl EXCEPT !.op = "none", !.n = NULL, !.pc = "idle"]

\* Mutant: the flag is cleared, the line stays disabled.
FlagCleared(l) == [l EXCEPT !.off = FALSE]

\* What open and poll do to a line that the handler has disabled.
Reenabled(l) == IF l.off THEN [l EXCEPT !.off = FALSE, !.depth = @ - 1] ELSE l
-----------------------------------------------------------------------------
(* cpsw_ndo_open.                                                          *)

\* The call f of the open in progress may fail.
MayFail(f) == f \in Failures /\ (rtnl.bulk = "none" \/ "resume" \in Failures)

\* pm_runtime_get_sync.  Its failure, after which nothing has changed, is left
\* out.
OpenBegins(n) ==
  /\ pm' = pm + 1
  /\ rtnl' = [rtnl EXCEPT !.op = "open", !.n = n, !.pc = "queues",
                          !.todo = @ \ {n}]

\* dev_open: the stack sets the running flag before it calls ndo_open.
DevOpen(n) ==
  /\ rtnl = NoOp
  /\ ~asleep
  /\ ~up[n]
  /\ up' = [up EXCEPT ![n] = TRUE]
  /\ OpenBegins(n)
  /\ UNCHANGED <<quirk, asleep, open, usage, dma, ring, line, mask>>

\* netif_set_real_num_tx_queues and rx_queues.
OpenQueues ==
  /\ At("queues")
  /\ \/ Goto(IF usage = 0 THEN "napi" ELSE "start")
     \/ MayFail("queues") /\ Goto("err")
  /\ UNCHANGED <<quirk, asleep, up, open, usage, pm, dma, ring, line, mask>>

\* First user: napi_enable, and the lines that a handler left disabled are
\* enabled.  A poll that began before the last napi_disable is long over.
OpenNapi ==
  /\ At("napi")
  /\ \A i \in Lines : line[i].napi = "off" /\ line[i].tail = "none"
  /\ line' = [i \in Lines |-> [Reenabled(line[i]) EXCEPT !.napi = "idle"]]
  /\ Goto("rxqs")
  /\ UNCHANGED <<quirk, asleep, up, open, usage, pm, dma, ring, mask>>

\* cpsw_create_xdp_rxqs.
OpenRxqs ==
  /\ At("rxqs")
  /\ Goto("fill") \/ (MayFail("rxqs") /\ Goto("err"))
  /\ UNCHANGED <<quirk, asleep, up, open, usage, pm, dma, ring, line, mask>>

\* cpsw_fill_rx_channels asks for RxNum buffers, whatever is queued.  It
\* fails at the first page or descriptor that it cannot get, and leaves
\* those before it queued.
OpenFill ==
  /\ At("fill")
  /\ \/ ring = 0 /\ ring' = RxNum /\ Goto("start")
     \/ ring > 0 /\ ring' = RxNum /\ Goto("err")
     \/ MayFail("fill") /\ ring' \in ring..(RxNum - 1) /\ Goto("err")
  /\ UNCHANGED <<quirk, asleep, up, open, usage, pm, dma, line, mask>>

\* cpdma_ctlr_start, whose result is ignored.
OpenStart ==
  /\ At("start")
  /\ dma' = "ACTIVE"
  /\ Goto("intr")
  /\ UNCHANGED <<quirk, asleep, up, open, usage, pm, ring, line, mask>>

\* cpsw_intr_enable; the interface counts as a user.
OpenEnd ==
  /\ At("intr")
  /\ line' = [i \in Lines |-> [line[i] EXCEPT !.en = TRUE]]
  /\ usage' = usage + 1
  /\ open' = [open EXCEPT ![rtnl.n] = TRUE]
  /\ OpEnds
  /\ UNCHANGED <<quirk, asleep, up, pm, dma, ring, mask>>

\* Mutant: the error path leaves NAPI enabled.
OpenErrorKeepingNapi ==
  /\ At("err")
  /\ Goto("end")
  /\ UNCHANGED <<quirk, asleep, up, open, usage, pm, dma, ring, line, mask>>

\* err_cleanup: shared hardware is shut down if nobody uses it.
OpenError ==
  /\ At("err")
  /\ Goto(IF usage = 0 THEN "rx" ELSE "end")
  /\ UNCHANGED <<quirk, asleep, up, open, usage, pm, dma, ring, line, mask>>

\* Mutant: the error path keeps the runtime PM reference.
OpenFailsHoldingPm ==
  /\ At("end") /\ rtnl.op = "open"
  /\ up' = [up EXCEPT ![rtnl.n] = rtnl.bulk = "resume"]
  /\ OpEnds
  /\ UNCHANGED <<quirk, asleep, open, pm, usage, dma, ring, line, mask>>

\* The open has failed.  dev_open takes the running flag back, resume does
\* not look.
OpenFails ==
  /\ At("end") /\ rtnl.op = "open"
  /\ pm' = pm - 1
  /\ up' = [up EXCEPT ![rtnl.n] = rtnl.bulk = "resume"]
  /\ OpEnds
  /\ UNCHANGED <<quirk, asleep, open, usage, dma, ring, line, mask>>
-----------------------------------------------------------------------------
(* cpsw_ndo_stop.                                                          *)

StopBegins(n) ==
  rtnl' = [rtnl EXCEPT !.op = "stop", !.n = n, !.pc = "stop", !.todo = @ \ {n}]

\* dev_close, which waits for the netdev's watchdog and for netpoll on it.
DevClose(n) ==
  /\ rtnl = NoOp
  /\ ~asleep
  /\ up[n] /\ mask[n] = "none"
  /\ up' = [up EXCEPT ![n] = FALSE]
  /\ StopBegins(n)
  /\ UNCHANGED <<quirk, asleep, open, usage, pm, dma, ring, line, mask>>

\* Mutant: every stop takes itself for the last.
EveryUser == TRUE

LastUser == usage <= 1

StopShared ==
  /\ At("stop")
  /\ Goto(IF LastUser THEN "rx" ELSE "end")
  /\ UNCHANGED <<quirk, asleep, up, open, usage, pm, dma, ring, line, mask>>

\* napi_disable(i): no poll is scheduled from now on.  On a context that is
\* off it waits for ever.
NapiDisable(i) ==
  /\ At(i)
  /\ ~line[i].dis
  /\ line' = [line EXCEPT ![i].dis = TRUE]
  /\ UNCHANGED <<quirk, asleep, up, open, usage, pm, dma, ring, rtnl, mask>>

\* It returns once the poll is over.
NapiDisabled(i) ==
  /\ At(i)
  /\ line[i].dis
  /\ line[i].napi = "idle"
  /\ line' = [line EXCEPT ![i].napi = "off", ![i].dis = FALSE]
  /\ Goto(IF i = "rx" THEN "tx" ELSE "hw")
  /\ UNCHANGED <<quirk, asleep, up, open, usage, pm, dma, ring, mask>>

\* cpsw_intr_disable (stop only) and cpdma_ctlr_stop, which refuses a
\* controller that is not active, its queued buffers included.
StopHw ==
  /\ At("hw")
  /\ line' = [i \in Lines |->
       [line[i] EXCEPT !.en = @ /\ rtnl.op = "open",
                       !.work = @ /\ dma # "ACTIVE"]]
  /\ ring' = IF dma = "ACTIVE" THEN 0 ELSE ring
  /\ dma' = "IDLE"
  /\ Goto("end")
  /\ UNCHANGED <<quirk, asleep, up, open, usage, pm, mask>>

\* Mutant: the user is still counted.
StopEndUncounted ==
  /\ At("end") /\ rtnl.op = "stop"
  /\ pm' = pm - 1
  /\ open' = [open EXCEPT ![rtnl.n] = FALSE]
  /\ OpEnds
  /\ UNCHANGED <<quirk, asleep, usage, up, dma, ring, line, mask>>

StopEnd ==
  /\ At("end") /\ rtnl.op = "stop"
  /\ usage' = usage - 1
  /\ pm' = pm - 1
  /\ open' = [open EXCEPT ![rtnl.n] = FALSE]
  /\ OpEnds
  /\ UNCHANGED <<quirk, asleep, up, dma, ring, line, mask>>
-----------------------------------------------------------------------------
(* cpsw_suspend and cpsw_resume visit the running netdevs.                 *)

Between(bulk) == rtnl.op = "none" /\ rtnl.bulk = bulk

SuspendBegin ==
  /\ rtnl = NoOp
  /\ ~asleep
  /\ rtnl' = [NoOp EXCEPT !.bulk = "suspend", !.todo = {n \in Netdevs : up[n]}]
  /\ UNCHANGED <<quirk, asleep, up, open, usage, pm, dma, ring, line, mask>>

SuspendNext(n) ==
  /\ Between("suspend")
  /\ n \in rtnl.todo
  /\ StopBegins(n)
  /\ UNCHANGED <<quirk, asleep, up, open, usage, pm, dma, ring, line, mask>>

ResumeBegin ==
  /\ rtnl = NoOp
  /\ asleep
  /\ rtnl' = [NoOp EXCEPT !.bulk = "resume", !.todo = {n \in Netdevs : up[n]}]
  /\ UNCHANGED <<quirk, asleep, up, open, usage, pm, dma, ring, line, mask>>

ResumeNext(n) ==
  /\ Between("resume")
  /\ n \in rtnl.todo
  /\ OpenBegins(n)
  /\ UNCHANGED <<quirk, asleep, up, open, usage, dma, ring, line, mask>>

BulkEnd ==
  /\ \E bulk \in {"suspend", "resume"} :
       Between(bulk) /\ asleep' = (bulk = "suspend")
  /\ rtnl.todo = {}
  /\ rtnl' = NoOp
  /\ UNCHANGED <<quirk, up, open, usage, pm, dma, ring, line, mask>>
-----------------------------------------------------------------------------
(* Hardware, interrupt handlers and polls of line i.                       *)

OnlyLine == UNCHANGED <<quirk, asleep, up, open, usage, pm, dma, ring, rtnl, mask>>

\* A packet is completed.
HwWork(i) ==
  /\ dma = "ACTIVE"
  /\ ~line[i].work
  /\ line' = [line EXCEPT ![i].work = TRUE]
  /\ OnlyLine

\* napi_schedule.
Scheduled(l) ==
  IF l.dis THEN l
  ELSE CASE l.napi = "idle" -> [l EXCEPT !.napi = "sched"]
         [] l.napi = "off" -> l
         [] OTHER -> [l EXCEPT !.missed = TRUE]

\* cpsw_rx_interrupt, cpsw_tx_interrupt.
Handled(l) ==
  Scheduled(IF quirk THEN [l EXCEPT !.en = FALSE, !.off = TRUE, !.depth = @ + 1]
                     ELSE [l EXCEPT !.en = FALSE])

Irq(i) ==
  /\ line[i].work /\ line[i].en /\ line[i].depth = 0
  /\ line' = [line EXCEPT ![i] = Handled(@)]
  /\ OnlyLine

\* A poll finds all completed packets, within its budget.
PollAll(i) ==
  /\ line[i].napi = "sched"
  /\ line[i].tail = "none"
  /\ line' = [line EXCEPT ![i].napi = "done", ![i].work = FALSE]
  /\ OnlyLine

\* napi_complete: once more if it was scheduled meanwhile.
Completed(l) ==
  [l EXCEPT !.napi = IF l.missed THEN "sched" ELSE "idle", !.missed = FALSE]

\* A poll uses its budget up: it will be called again (a stutter), unless
\* napi_disable waits; then the core completes it, without its tail.
PollBudget(i) ==
  /\ line[i].napi = "sched"
  /\ line[i].tail = "none"
  /\ line[i].dis
  /\ line' = [line EXCEPT ![i] = Completed(@)]
  /\ OnlyLine

PollComplete(i) ==
  /\ line[i].napi = "done"
  /\ line' = [line EXCEPT ![i] = [Completed(@) EXCEPT !.tail = "en"]]
  /\ OnlyLine

\* The poll enables the interrupt in the wrapper,
PollTailEn(i) ==
  /\ line[i].tail = "en"
  /\ line' = [line EXCEPT ![i].en = TRUE,
                          ![i].tail = IF quirk THEN "irq" ELSE "none"]
  /\ OnlyLine

\* and the line, if the handler had disabled it.
PollTailIrq(i) ==
  /\ line[i].tail = "irq"
  /\ line' = [line EXCEPT ![i] = [Reenabled(@) EXCEPT !.tail = "none"]]
  /\ OnlyLine
-----------------------------------------------------------------------------
(* cpsw_ndo_tx_timeout and cpsw_ndo_poll_controller keep the interrupts of *)
(* both netdevs off for a while, on any CPU and without the rtnl lock.     *)

OnlyMask(n, to) ==
  /\ mask' = [mask EXCEPT ![n] = to]
  /\ UNCHANGED <<quirk, asleep, up, open, usage, pm, dma, ring, rtnl>>

\* cpsw_intr_disable, by the watchdog or by netpoll.
IntrDisable(n) ==
  /\ n \in Maskers /\ open[n] /\ mask[n] = "none"
  /\ line' = [i \in Lines |-> [line[i] EXCEPT !.en = FALSE]]
  /\ OnlyMask(n, "timeout") \/ (quirk \in Netpoll /\ OnlyMask(n, "netpoll"))

\* Netpoll calls both handlers, whatever the state of their lines.
PollController(n) ==
  /\ mask[n] = "netpoll"
  /\ line' = [i \in Lines |-> Handled(line[i])]
  /\ OnlyMask(n, "polled")

\* cpsw_intr_enable: the watchdog has restarted its channels (Cpdma), netpoll
\* has called the handlers.
IntrEnable(n) ==
  /\ mask[n] \in {"timeout", "polled"}
  /\ line' = [i \in Lines |-> [line[i] EXCEPT !.en = TRUE]]
  /\ OnlyMask(n, "none")
-----------------------------------------------------------------------------
OpenSteps ==
  \/ OpenQueues \/ OpenNapi \/ OpenRxqs \/ OpenFill \/ OpenStart \/ OpenEnd
  \/ OpenError \/ OpenFails

StopSteps ==
  \/ StopShared \/ StopHw \/ StopEnd
  \/ \E i \in Lines : NapiDisable(i) \/ NapiDisabled(i)

BulkSteps ==
  BulkEnd \/ \E n \in Netdevs : SuspendNext(n) \/ ResumeNext(n)

MaskSteps(n) == PollController(n) \/ IntrEnable(n)

PollSteps(i) == PollAll(i) \/ PollComplete(i) \/ PollTailEn(i) \/ PollTailIrq(i)

Next ==
  \/ \E n \in Netdevs : DevOpen(n) \/ DevClose(n) \/ IntrDisable(n) \/ MaskSteps(n)
  \/ SuspendBegin \/ ResumeBegin
  \/ OpenSteps \/ StopSteps \/ BulkSteps
  \/ \E i \in Lines : HwWork(i) \/ Irq(i) \/ PollBudget(i) \/ PollSteps(i)

Spec == Init /\ [][Next]_vars
-----------------------------------------------------------------------------
(* Safety.  The first three speak of the time between two operations.      *)

Users == {n \in Netdevs : open[n]}

\* usage_count ("number of active netdev users") and the runtime PM
\* references are the number of open interfaces, whatever opens failed and
\* however often the system slept.
UsageCountsUsers ==
  rtnl = NoOp => usage = Cardinality(Users) /\ pm = usage

\* As long as an interface is open the DMA runs, the RX ring was filled and
\* NAPI is enabled; once none is left DMA and NAPI are off, so that the next
\* open may turn them on.  The failed open of one netdev never takes them
\* from the other.
HardwareFollowsUsers ==
  rtnl = NoOp =>
    IF Users # {}
    THEN dma = "ACTIVE" /\ ring = RxNum /\ \A i \in Lines : line[i].napi # "off"
    ELSE dma = "IDLE" /\ \A i \in Lines : line[i].napi = "off"

\* While an interface is open and no poll is due or ending, and no watchdog or
\* netpoll is at work, the interrupt is enabled in the wrapper and on its line:
\* the flags that handler, poll and open hand to each other under quirk_irq, and
\* the enable bits that everybody writes, leave no line disabled.
InterruptsOn ==
  rtnl = NoOp /\ Users # {} /\ (\A n \in Netdevs : mask[n] = "none") =>
    \A i \in Lines : line[i].napi = "idle" /\ line[i].tail = "none" =>
      line[i].en /\ line[i].depth = 0

\* What fill_rx_channels is told ("how many RX buffers are currently
\* missing") fits into the ring.
MissingBuffersFit == At("fill") => ring + RxNum <= RxNum
-----------------------------------------------------------------------------
(* Liveness.  An operation goes on; an enabled interrupt that is asserted  *)
(* is taken, though watchdogs may mask it again and again; softirqs run,   *)
(* and a poll gets through with its packets; whoever masks unmasks.        *)

Fairness ==
  /\ WF_vars(OpenSteps \/ StopSteps \/ BulkSteps)
  /\ \A i \in Lines : SF_vars(Irq(i)) /\ WF_vars(PollSteps(i))
  /\ \A n \in Netdevs : WF_vars(MaskSteps(n))

FairSpec == Spec /\ Fairness

\* Every open, stop, suspend and resume ends: napi_disable never waits for a
\* context that is off or that is scheduled for ever.
OperationsEnd == rtnl # NoOp ~> rtnl = NoOp

\* Completed packets are polled, or dropped with the DMA: the wrapper's
\* enable bits, the disable depth and the NAPI state never leave them behind.
WorkIsHandled == \A i \in Lines : line[i].work ~> ~line[i].work
=============================================================================

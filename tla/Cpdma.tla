------------------------------- MODULE Cpdma -------------------------------
(***************************************************************************)
(* The CPDMA engine of own_davinci_cpdma.c: DMA channels that chain        *)
(* descriptors of one shared pool into linked lists which the driver       *)
(* extends at the tail, the hardware consumes, and several contexts        *)
(* reclaim at the head.                                                    *)
(*                                                                         *)
(* Contexts run concurrently.  A Poller is a NAPI context inside           *)
(* cpdma_chan_process; a Watchdog is a netdev transmit watchdog inside     *)
(* cpsw_ndo_tx_timeout (one per netdev: dual EMAC has two); Rtnl is the    *)
(* thread that opens and stops the interface, inside cpdma_ctlr_start or   *)
(* cpdma_ctlr_stop.  Submissions may come from any CPU.  A step of a       *)
(* context is a critical section of chan->lock, or the code between two;   *)
(* a critical section during which the hardware can interfere is split.    *)
(***************************************************************************)
EXTENDS Integers, Sequences, FiniteSets

CONSTANTS
  TxChans,     \* transmit channels
  RxChans,     \* receive channels: they have an rxfree register
  Desc,        \* the descriptors of ctlr->pool, shared by all channels
  Token,       \* software tokens: an skb, an XDP frame or a page
  DescNum,     \* DescNum[c]: chan->desc_num, the channel's share of the pool
  Pollers,     \* NAPI contexts
  PollerOf,    \* PollerOf[c]: the NAPI context that polls channel c
  Watchdogs,   \* transmit watchdogs, one per netdev
  Rtnl,        \* the thread that runs ndo_open and ndo_stop
  TdTimeouts,  \* TRUE: the hardware may fail to answer a teardown in 100 ms
  NULL,        \* the null descriptor, channel or token
  Unread       \* the hardware has not yet read the hw_next of its descriptor

Chans == TxChans \cup RxChans
Contexts == Pollers \cup Watchdogs \cup {Rtnl}

ASSUME ConstantsAssumption ==
  /\ TxChans \cap RxChans = {}
  /\ IsFiniteSet(Desc)
  /\ NULL \notin Desc \cup Token \cup Chans
  /\ Unread \notin Desc \cup {NULL}
  /\ DescNum \in [Chans -> Nat]
  /\ PollerOf \in [Chans -> Pollers]
  /\ Rtnl \notin Pollers \cup Watchdogs
  /\ Pollers \cap Watchdogs = {}
  /\ TdTimeouts \in BOOLEAN

VARIABLES
  ctlrState,  \* ctlr->state
  chan,       \* struct cpdma_chan, its interrupt mask bit, and the submission
              \* that holds its lock (sub, new)
  desc,       \* struct cpdma_desc: hw_next, the flags of hw_mode, sw_token
  pool,       \* the free descriptors of pool->gen_pool
  hw,         \* the channel's registers and the state of its DMA
  ctx,        \* the locals of the contexts
  out,        \* tokens the upper layer has handed over and not got back
  fifo        \* history: descriptors linked and not yet unlinked, oldest first

vars == <<ctlrState, chan, desc, pool, hw, ctx, out, fifo>>

States == {"IDLE", "ACTIVE", "TEARDOWN"}
Flags == {"OWNER", "EOQ", "TD"}
Places == {"idle", "poll", "free", "call", "tdwait", "drain", "clean",
           "chanon", "intoff", "txloop", "inton", "ctlron", "ctlrstop"}

ChanRecord ==
  [state : States, head : Desc \cup {NULL}, tail : Desc \cup {NULL},
   count : Nat, inten : BOOLEAN,
   sub : {"none", "alloc", "chained"},  \* progress of the submission
   new : Desc \cup {NULL}]              \* the descriptor being submitted

DescRecord ==
  [next : Desc \cup {NULL}, mode : SUBSET Flags, token : Token \cup {NULL}]

HwRecord ==
  [hdp : Desc \cup {NULL},              \* the descriptor the DMA works on
   latch : Desc \cup {NULL, Unread},    \* the hw_next the DMA read from it
   td : BOOLEAN,                        \* a teardown was requested
   cpTd : BOOLEAN,                      \* CP shows CPDMA_TEARDOWN_VALUE
   rxfree : Int]                        \* free-buffer credit

CtxRecord ==
  [pc : Places,
   ch : Chans \cup {NULL},              \* the channel it works on
   cur : Desc \cup {NULL},              \* unlinked and not yet freed
   tok : Token \cup {NULL},             \* freed and not yet handed back
   ret : {"idle", "poll", "drain", "clean"},  \* where the handler returns
   todo : SUBSET Chans]                 \* channels its loop has yet to visit

\* Every variable has its type.
TypeOK ==
  /\ ctlrState \in States
  /\ chan \in [Chans -> ChanRecord]
  /\ desc \in [Desc -> DescRecord]
  /\ pool \in SUBSET Desc
  /\ hw \in [Chans -> HwRecord]
  /\ ctx \in [Contexts -> CtxRecord]
  /\ out \in SUBSET Token
  /\ fifo \in [Chans -> Seq(Desc)]

HwReset == [hdp |-> NULL, latch |-> Unread, td |-> FALSE, cpTd |-> FALSE,
            rxfree |-> 0]

Init ==
  /\ ctlrState = "IDLE"
  /\ chan = [c \in Chans |->
               [state |-> "IDLE", head |-> NULL, tail |-> NULL, count |-> 0,
                inten |-> FALSE, sub |-> "none", new |-> NULL]]
  /\ desc = [d \in Desc |-> [next |-> NULL, mode |-> {}, token |-> NULL]]
  /\ pool = Desc
  /\ hw = [c \in Chans |-> HwReset]
  /\ ctx = [x \in Contexts |->
              [pc |-> "idle", ch |-> NULL, cur |-> NULL, tok |-> NULL,
               ret |-> "idle", todo |-> {}]]
  /\ out = {}
  /\ fifo = [c \in Chans |-> <<>>]
-----------------------------------------------------------------------------
\* Mutant: cpdma_chan_stop calls __cpdma_chan_process without releasing the
\* lock that it takes.
LockedInDrain(c) ==
  \/ chan[c].sub # "none"
  \/ \E x \in Contexts : ctx[x].pc \in {"tdwait", "drain"} /\ ctx[x].ch = c

\* chan->lock is held: by a submission, or by cpdma_chan_stop, which polls
\* the CP register with the lock held.
Locked(c) ==
  \/ chan[c].sub # "none"
  \/ \E x \in Contexts : ctx[x].pc = "tdwait" /\ ctx[x].ch = c

\* ctlr->lock is held across the channel loops of cpdma_ctlr_start and
\* cpdma_ctlr_int_ctrl.
CtlrLocked == \E x \in Contexts : ctx[x].pc \in {"intoff", "inton", "ctlron"}

\* Context x moves to place p.
Goto(x, p) == ctx' = [ctx EXCEPT ![x].pc = p]

\* Context x moves to place p, a loop over the channels C.
GotoLoop(x, p, C) ==
  ctx' = [ctx EXCEPT ![x].pc = p, ![x].ch = NULL, ![x].todo = C]

\* The HDP register is written: the DMA starts on descriptor d.
StartedOn(h, d) == [h EXCEPT !.hdp = d, !.latch = Unread]

\* The RXFREE register of c is set to n; a TX channel has none.
WithCredit(c, h, n) == IF c \in RxChans THEN [h EXCEPT !.rxfree = n] ELSE h
-----------------------------------------------------------------------------
(* Submission: cpdma_chan_submit and its variants.  A submission that is   *)
(* refused (-EINVAL: wrong state; -ENOMEM: quota or pool exhausted)        *)
(* changes nothing: the caller keeps the token.                            *)

\* Mutant: the quota is checked with > instead of >=.
HasRoomOffByOne(c) == chan[c].count <= DescNum[c]

\* cpdma_chan_submit_si refuses a submission over the channel's quota.
HasRoom(c) == chan[c].count < DescNum[c]

\* The checks of cpdma_chan_submit_si, the allocation of a descriptor and
\* its contents, which nobody else sees before it is linked.
Allocate(c) ==
  /\ ~Locked(c)
  /\ HasRoom(c)
  /\ \E d \in pool, t \in Token \ out :
       /\ pool' = pool \ {d}
       /\ desc' = [desc EXCEPT ![d] =
                     [next |-> NULL, mode |-> {"OWNER"}, token |-> t]]
       /\ out' = out \cup {t}
       /\ chan' = [chan EXCEPT ![c].sub = "alloc", ![c].new = d]
  /\ UNCHANGED <<ctlrState, hw, ctx, fifo>>

\* cpdma_chan_submit, cpdma_chan_submit_mapped: only on an active channel.
Submit(c) == chan[c].state = "ACTIVE" /\ Allocate(c)

\* cpdma_chan_idle_submit(_mapped), which fills the RX channels before
\* the controller starts: refused only during a teardown.
IdleSubmit(c) == c \in RxChans /\ chan[c].state # "TEARDOWN" /\ Allocate(c)

\* Mutant: the error path does not free the descriptor.
MapFailsLeaking(c) ==
  /\ chan[c].sub = "alloc"
  /\ c \in TxChans
  /\ out' = out \ {desc[chan[c].new].token}
  /\ chan' = [chan EXCEPT ![c].sub = "none", ![c].new = NULL]
  /\ UNCHANGED <<ctlrState, desc, pool, hw, ctx, fifo>>

\* dma_map_single fails (TX only: RX pages are mapped): the descriptor goes
\* back to the pool, the token stays with the caller (-EINVAL).
MapFails(c) ==
  /\ chan[c].sub = "alloc"
  /\ c \in TxChans
  /\ pool' = pool \cup {chan[c].new}
  /\ out' = out \ {desc[chan[c].new].token}
  /\ chan' = [chan EXCEPT ![c].sub = "none", ![c].new = NULL]
  /\ UNCHANGED <<ctlrState, desc, hw, ctx, fifo>>

\* Mutant: the credit is added only where the list was empty.
CreditFirstOnly(c) ==
  IF c \in RxChans /\ chan[c].state = "ACTIVE" /\ chan[c].head = NULL
    THEN 1 ELSE 0

\* The credit cpdma_chan_submit_si adds for a new RX buffer.
Credit(c) == IF c \in RxChans /\ chan[c].state = "ACTIVE" THEN 1 ELSE 0

\* Mutant: a list of one descriptor counts as empty.
ListEmptyOffByOne(c) == chan[c].count <= 1

ListEmpty(c) == chan[c].head = NULL

\* The list is empty: the descriptor becomes head and tail, and an active
\* channel starts on it at once.
SubmitFirst(c) ==
  LET d == chan[c].new
      h == [hw[c] EXCEPT !.rxfree = @ + Credit(c)] IN
  /\ chan[c].sub = "alloc"
  /\ ListEmpty(c)
  /\ chan' = [chan EXCEPT ![c].head = d, ![c].tail = d, ![c].count = @ + 1,
                          ![c].sub = "none", ![c].new = NULL]
  /\ fifo' = [fifo EXCEPT ![c] = Append(@, d)]
  /\ hw' = [hw EXCEPT ![c] = IF chan[c].state = "ACTIVE"
                               THEN StartedOn(h, d) ELSE h]
  /\ UNCHANGED <<ctlrState, desc, pool, ctx, out>>

\* The list is not empty: the descriptor is chained at its tail.  The
\* hardware may be past the point where it would notice.
Chain(c) ==
  /\ chan[c].sub = "alloc"
  /\ ~ListEmpty(c)
  /\ desc' = [desc EXCEPT ![chan[c].tail].next = chan[c].new]
  /\ fifo' = [fifo EXCEPT ![c] = Append(@, chan[c].new)]
  /\ chan' = [chan EXCEPT ![c].sub = "chained"]
  /\ UNCHANGED <<ctlrState, pool, hw, ctx, out>>

\* Mutant: the hardware is restarted although it did not stop.
MisqueuedWithoutEoq(c, p) ==
  "OWNER" \notin desc[p].mode /\ chan[c].state = "ACTIVE"

\* The hardware stopped at descriptor p before it saw the new link.
Misqueued(c, p) ==
  /\ "EOQ" \in desc[p].mode
  /\ "OWNER" \notin desc[p].mode
  /\ chan[c].state = "ACTIVE"

\* Mutant: a chained descriptor is not counted.
FinishChainUncounted(c) ==
  LET d == chan[c].new
      prev == chan[c].tail
      h == [hw[c] EXCEPT !.rxfree = @ + Credit(c)] IN
  /\ chan[c].sub = "chained"
  /\ IF Misqueued(c, prev)
       THEN /\ desc' = [desc EXCEPT ![prev].mode = @ \ {"EOQ"}]
            /\ hw' = [hw EXCEPT ![c] = StartedOn(h, d)]
       ELSE UNCHANGED desc /\ hw' = [hw EXCEPT ![c] = h]
  /\ chan' = [chan EXCEPT ![c].tail = d, ![c].sub = "none", ![c].new = NULL]
  /\ UNCHANGED <<ctlrState, pool, ctx, out, fifo>>

\* The end of __cpdma_chan_submit: if EOQ was triggered already, clear it
\* and restart the hardware on the new descriptor; then the accounting.
FinishChain(c) ==
  LET d == chan[c].new
      prev == chan[c].tail
      h == [hw[c] EXCEPT !.rxfree = @ + Credit(c)] IN
  /\ chan[c].sub = "chained"
  /\ IF Misqueued(c, prev)
       THEN /\ desc' = [desc EXCEPT ![prev].mode = @ \ {"EOQ"}]
            /\ hw' = [hw EXCEPT ![c] = StartedOn(h, d)]
       ELSE UNCHANGED desc /\ hw' = [hw EXCEPT ![c] = h]
  /\ chan' = [chan EXCEPT ![c].tail = d, ![c].count = @ + 1,
                          ![c].sub = "none", ![c].new = NULL]
  /\ UNCHANGED <<ctlrState, pool, ctx, out, fifo>>
-----------------------------------------------------------------------------
(* Reclaiming: __cpdma_chan_process and __cpdma_chan_free.                 *)

\* The oldest descriptor exists and the hardware has given it back.
HeadCompleted(c) ==
  chan[c].head # NULL /\ "OWNER" \notin desc[chan[c].head].mode

\* Context x unlinks the head of c; the handler will return to place r.
Unlink(x, c, r) ==
  /\ chan' = [chan EXCEPT ![c].head = desc[@].next, ![c].count = @ - 1]
  /\ fifo' = [fifo EXCEPT ![c] = Tail(@)]
  /\ ctx' = [ctx EXCEPT ![x].pc = "free", ![x].cur = chan[c].head,
                        ![x].ret = r]

\* Mutant: nobody restarts the hardware after an EOQ.
NoRequeue(d) == FALSE

\* The hardware reached the end of the queue on d although d has a successor.
Requeue(d) == "EOQ" \in d.mode /\ d.next # NULL

\* __cpdma_chan_process finds a completed descriptor: unlink it, write CP
\* and, if the hardware reached the end of the queue on it, restart it on
\* the rest.
Process(x, c, r) ==
  LET d == desc[chan[c].head]
      h == [hw[c] EXCEPT !.cpTd = FALSE] IN
  /\ ~Locked(c)
  /\ HeadCompleted(c)
  /\ Unlink(x, c, r)
  /\ hw' = [hw EXCEPT ![c] = IF Requeue(d) THEN StartedOn(h, d.next) ELSE h]
  /\ UNCHANGED <<ctlrState, desc, pool, out>>

\* __cpdma_chan_process returns -ENOENT or -EBUSY.
NothingToProcess(c) == ~Locked(c) /\ ~HeadCompleted(c)

\* __cpdma_chan_free up to the handler: read the token, free the descriptor.
Free(x) ==
  LET d == ctx[x].cur IN
  /\ ctx[x].pc = "free"
  /\ pool' = pool \cup {d}
  /\ ctx' = [ctx EXCEPT ![x].pc = "call", ![x].cur = NULL,
                        ![x].tok = desc[d].token]
  /\ UNCHANGED <<ctlrState, chan, desc, hw, out, fifo>>

\* Mutant: cpdma_chan_stop frees the remaining descriptors without calling
\* the handler.
CallUnlessCleanUp(x) ==
  /\ ctx[x].pc = "call"
  /\ out' = IF ctx[x].ret = "clean" THEN out ELSE out \ {ctx[x].tok}
  /\ ctx' = [ctx EXCEPT ![x].pc = ctx[x].ret, ![x].tok = NULL,
                        ![x].ret = "idle",
                        ![x].ch = IF ctx[x].ret = "idle" THEN NULL ELSE @]
  /\ UNCHANGED <<ctlrState, chan, desc, pool, hw, fifo>>

\* chan->handler gives the token back to the upper layer.
Call(x) ==
  /\ ctx[x].pc = "call"
  /\ out' = out \ {ctx[x].tok}
  /\ ctx' = [ctx EXCEPT ![x].pc = ctx[x].ret, ![x].tok = NULL,
                        ![x].ret = "idle",
                        ![x].ch = IF ctx[x].ret = "idle" THEN NULL ELSE @]
  /\ UNCHANGED <<ctlrState, chan, desc, pool, hw, fifo>>
-----------------------------------------------------------------------------
(* Polling: cpdma_chan_process, called by a NAPI context.                  *)

\* napi_disable in ndo_stop waits for the pollers and keeps them out until
\* the next ndo_open.
NapiEnabled == ctx[Rtnl].pc \in {"idle", "ctlron", "inton"}

LocalStep == UNCHANGED <<ctlrState, chan, desc, pool, hw, out, fifo>>

\* The state check, made once and without the lock.
PollStart(x, c) ==
  /\ ctx[x].pc = "idle"
  /\ NapiEnabled
  /\ PollerOf[c] = x
  /\ chan[c].state = "ACTIVE"
  /\ ctx' = [ctx EXCEPT ![x].pc = "poll", ![x].ch = c]
  /\ LocalStep

\* One round of the loop; the quota may be used up after it.
PollProcess(x) ==
  /\ ctx[x].pc = "poll"
  /\ \E r \in {"poll", "idle"} : Process(x, ctx[x].ch, r)

PollEnd(x) ==
  /\ ctx[x].pc = "poll"
  /\ NothingToProcess(ctx[x].ch)
  /\ ctx' = [ctx EXCEPT ![x].pc = "idle", ![x].ch = NULL]
  /\ LocalStep
-----------------------------------------------------------------------------
(* Stopping: cpdma_chan_stop, called for each channel in todo by the       *)
(* watchdog ("txloop") and by cpdma_ctlr_stop ("ctlrstop").                *)

\* Mark the channel, mask its interrupt and request the teardown.
StopBegin(x, c) ==
  /\ ctx[x].pc \in {"txloop", "ctlrstop"}
  /\ c \in ctx[x].todo
  /\ ~Locked(c)
  /\ chan[c].state # "TEARDOWN"
  /\ chan' = [chan EXCEPT ![c].state = "TEARDOWN", ![c].inten = FALSE]
  /\ hw' = [hw EXCEPT ![c].td = TRUE]
  /\ ctx' = [ctx EXCEPT ![x].pc = "tdwait", ![x].ch = c, ![x].todo = @ \ {c}]
  /\ UNCHANGED <<ctlrState, desc, pool, out, fifo>>

\* Another context is stopping the channel: -EINVAL, which the watchdog
\* ignores.  (cpdma_ctlr_stop never meets one: the watchdogs are off.)
StopRefused(x, c) ==
  /\ ctx[x].pc = "txloop"
  /\ c \in ctx[x].todo
  /\ ~Locked(c)
  /\ chan[c].state = "TEARDOWN"
  /\ ctx' = [ctx EXCEPT ![x].pc = "chanon", ![x].ch = c, ![x].todo = @ \ {c}]
  /\ LocalStep

\* The teardown is complete, or the wait for it timed out: acknowledge.
StopAck(x) ==
  /\ ctx[x].pc = "tdwait"
  /\ hw[ctx[x].ch].cpTd \/ TdTimeouts
  /\ hw' = [hw EXCEPT ![ctx[x].ch].cpTd = FALSE]
  /\ Goto(x, "drain")
  /\ UNCHANGED <<ctlrState, chan, desc, pool, out, fifo>>

\* Handle the completed packets, up to the one that carries TD_COMPLETE.
DrainProcess(x) ==
  LET c == ctx[x].ch IN
  /\ ctx[x].pc = "drain"
  /\ HeadCompleted(c)
  /\ Process(x, c, IF "TD" \in desc[chan[c].head].mode
                     THEN "clean" ELSE "drain")

DrainEnd(x) ==
  /\ ctx[x].pc = "drain"
  /\ NothingToProcess(ctx[x].ch)
  /\ Goto(x, "clean")
  /\ LocalStep

\* Clean up what the hardware has not handled.
CleanUp(x) ==
  LET c == ctx[x].ch IN
  /\ ctx[x].pc = "clean"
  /\ ~Locked(c)
  /\ chan[c].head # NULL
  /\ Unlink(x, c, "clean")
  /\ UNCHANGED <<ctlrState, desc, pool, hw, out>>

\* Mutant: the channel stays in the teardown state.
StopEndInTeardown(x) ==
  /\ ctx[x].pc = "clean"
  /\ ~Locked(ctx[x].ch)
  /\ chan[ctx[x].ch].head = NULL
  /\ Goto(x, IF x = Rtnl THEN "ctlrstop" ELSE "chanon")
  /\ LocalStep

\* Every descriptor is handled or cleaned up: the channel is idle.
StopEnd(x) ==
  LET c == ctx[x].ch IN
  /\ ctx[x].pc = "clean"
  /\ ~Locked(c)
  /\ chan[c].head = NULL
  /\ chan' = [chan EXCEPT ![c].state = "IDLE"]
  /\ Goto(x, IF x = Rtnl THEN "ctlrstop" ELSE "chanon")
  /\ UNCHANGED <<ctlrState, desc, pool, hw, out, fifo>>
-----------------------------------------------------------------------------
(* Starting a channel: cpdma_chan_on.                                      *)

\* The channel's state, interrupt, head register and RX credit.
TurnOn(c) ==
  IF chan[c].state = "IDLE" /\ ctlrState = "ACTIVE"
    THEN /\ chan' = [chan EXCEPT ![c].state = "ACTIVE", ![c].inten = TRUE]
         /\ hw' = IF chan[c].head = NULL THEN hw
                  ELSE [hw EXCEPT ![c] = WithCredit(c,
                          StartedOn(@, chan[c].head), chan[c].count)]
    ELSE UNCHANGED <<chan, hw>>

\* cpdma_chan_start in the watchdog: -EBUSY and -EINVAL are ignored.
ChanStart(x) ==
  /\ ctx[x].pc = "chanon"
  /\ ~Locked(ctx[x].ch)
  /\ TurnOn(ctx[x].ch)
  /\ Goto(x, "txloop")
  /\ UNCHANGED <<ctlrState, desc, pool, out, fifo>>
-----------------------------------------------------------------------------
(* Interrupt masks: cpdma_ctlr_int_ctrl, at "intoff" to disable and at     *)
(* "inton" to enable.                                                      *)

\* cpdma_chan_int_ctrl: a channel that is not active is left as it is.
ChanIntCtrl(x, c) ==
  /\ ctx[x].pc \in {"intoff", "inton"}
  /\ c \in ctx[x].todo
  /\ ~Locked(c)
  /\ chan' = IF chan[c].state # "ACTIVE" THEN chan
             ELSE [chan EXCEPT ![c].inten = (ctx[x].pc = "inton")]
  /\ ctx' = [ctx EXCEPT ![x].todo = @ \ {c}]
  /\ UNCHANGED <<ctlrState, desc, pool, hw, out, fifo>>

\* The loop of cpdma_ctlr_int_ctrl is over.  Who enabled is done.
IntOnEnd(x) ==
  /\ ctx[x].pc = "inton"
  /\ ctx[x].todo = {}
  /\ Goto(x, "idle")
  /\ LocalStep
-----------------------------------------------------------------------------
(* The watchdog: cpsw_ndo_tx_timeout.                                      *)

\* A transmit queue timed out: cpsw_intr_disable.  The watchdogs run only
\* while the interface is up.
TxTimeout(w) ==
  /\ w \in Watchdogs
  /\ ctx[w].pc = "idle"
  /\ ctlrState = "ACTIVE"
  /\ ctx[Rtnl].pc \in {"idle", "inton"}
  /\ ~CtlrLocked
  /\ GotoLoop(w, "intoff", Chans)
  /\ LocalStep

\* Interrupts are off: stop and start every TX channel.
TxLoop(w) ==
  /\ w \in Watchdogs
  /\ ctx[w].pc = "intoff"
  /\ ctx[w].todo = {}
  /\ GotoLoop(w, "txloop", TxChans)
  /\ LocalStep

\* Every TX channel was stopped and started: cpsw_intr_enable.
TxLoopEnd(w) ==
  /\ ctx[w].pc = "txloop"
  /\ ctx[w].todo = {}
  /\ ~CtlrLocked
  /\ GotoLoop(w, "inton", Chans)
  /\ LocalStep
-----------------------------------------------------------------------------
(* Opening and stopping the interface: cpdma_ctlr_start, cpdma_ctlr_stop.  *)

\* The soft reset, the cleared HDP and CP registers and the cleared masks.
CtlrStart ==
  /\ ctx[Rtnl].pc = "idle"
  /\ ctlrState = "IDLE"
  /\ ctlrState' = "ACTIVE"
  /\ hw' = [c \in Chans |-> HwReset]
  /\ chan' = [c \in Chans |-> [chan[c] EXCEPT !.inten = FALSE]]
  /\ GotoLoop(Rtnl, "ctlron", Chans)
  /\ UNCHANGED <<desc, pool, out, fifo>>

\* The loop of cpdma_ctlr_start over the channels.
CtlrChanOn(c) ==
  /\ ctx[Rtnl].pc = "ctlron"
  /\ c \in ctx[Rtnl].todo
  /\ ~Locked(c)
  /\ TurnOn(c)
  /\ ctx' = [ctx EXCEPT ![Rtnl].todo = @ \ {c}]
  /\ UNCHANGED <<ctlrState, desc, pool, out, fifo>>

\* cpsw_intr_enable, after cpdma_ctlr_start.
CtlrStartEnd ==
  /\ ctx[Rtnl].pc = "ctlron"
  /\ ctx[Rtnl].todo = {}
  /\ GotoLoop(Rtnl, "inton", Chans)
  /\ LocalStep

\* The second netdev of a dual EMAC opens: cpdma_ctlr_start returns -EBUSY,
\* which ndo_open ignores, and cpsw_intr_enable runs again.
SecondOpen ==
  /\ ctx[Rtnl].pc = "idle"
  /\ ctlrState = "ACTIVE"
  /\ ~CtlrLocked
  /\ GotoLoop(Rtnl, "inton", Chans)
  /\ LocalStep

\* The last netdev stops: the watchdogs and pollers are off (dev_deactivate,
\* napi_disable), then cpsw_intr_disable.
LastStop ==
  /\ ctlrState = "ACTIVE"
  /\ \A x \in Contexts : ctx[x].pc = "idle"
  /\ GotoLoop(Rtnl, "intoff", Chans)
  /\ LocalStep

\* cpdma_ctlr_stop goes on to stop every channel.
CtlrStop ==
  /\ ctx[Rtnl].pc = "intoff"
  /\ ctx[Rtnl].todo = {}
  /\ ctlrState' = "TEARDOWN"
  /\ GotoLoop(Rtnl, "ctlrstop", Chans)
  /\ UNCHANGED <<chan, desc, pool, hw, out, fifo>>

\* The end of cpdma_ctlr_stop: masks cleared, DMA off.
CtlrStopEnd ==
  /\ ctx[Rtnl].pc = "ctlrstop"
  /\ ctx[Rtnl].todo = {}
  /\ ctlrState' = "IDLE"
  /\ chan' = [c \in Chans |-> [chan[c] EXCEPT !.inten = FALSE]]
  /\ GotoLoop(Rtnl, "idle", {})
  /\ UNCHANGED <<desc, pool, hw, out, fifo>>
-----------------------------------------------------------------------------
(* The hardware, as the driver relies on it.  It runs while the DMA is     *)
(* enabled: between cpdma_ctlr_start and the end of cpdma_ctlr_stop.       *)

HwStep ==
  ctlrState # "IDLE" /\ UNCHANGED <<ctlrState, chan, pool, ctx, out, fifo>>

\* The DMA reads hw_next of the descriptor it works on.
HwFetch(c) ==
  /\ hw[c].hdp # NULL
  /\ hw[c].latch = Unread
  /\ hw' = [hw EXCEPT ![c].latch = desc[hw[c].hdp].next]
  /\ UNCHANGED desc
  /\ HwStep

\* The packet is transferred: the descriptor is given back, with EOQ if
\* there was no next one, else the DMA moves to the next.
HwComplete(c) ==
  LET next == hw[c].latch IN
  /\ hw[c].hdp # NULL
  /\ next # Unread
  /\ desc' = [desc EXCEPT ![hw[c].hdp].mode =
                (@ \ {"OWNER"}) \cup (IF next = NULL THEN {"EOQ"} ELSE {})]
  /\ hw' = [hw EXCEPT ![c] = WithCredit(c, StartedOn(@, next), @.rxfree - 1)]
  /\ HwStep

\* Teardown, at a packet boundary: the next descriptor, if any, is given
\* back unused with TD_COMPLETE.
HwTeardown(c) ==
  LET d == hw[c].hdp IN
  /\ hw[c].td
  /\ hw[c].latch = Unread
  /\ desc' = IF d = NULL THEN desc ELSE [desc EXCEPT ![d].mode = {"TD"}]
  /\ hw' = [hw EXCEPT ![c].hdp = NULL, ![c].td = FALSE, ![c].cpTd = TRUE]
  /\ HwStep
-----------------------------------------------------------------------------
SubmitSteps(c) ==
  MapFails(c) \/ SubmitFirst(c) \/ Chain(c) \/ FinishChain(c)

HwTransfer(c) == HwFetch(c) \/ HwComplete(c)

\* What a context does inside a call, in the driver's order.
PollSteps(x) == PollProcess(x) \/ PollEnd(x) \/ Free(x) \/ Call(x)

IntCtrlSteps(x) == IntOnEnd(x) \/ \E c \in Chans : ChanIntCtrl(x, c)

OpenSteps == CtlrStartEnd \/ \E c \in Chans : CtlrChanOn(c)

StopSteps(x) ==
  \/ \E c \in Chans : StopBegin(x, c) \/ StopRefused(x, c)
  \/ StopAck(x) \/ DrainProcess(x) \/ DrainEnd(x) \/ CleanUp(x) \/ StopEnd(x)
  \/ ChanStart(x) \/ TxLoop(x) \/ TxLoopEnd(x)

CtlrStopSteps == CtlrStop \/ CtlrStopEnd

\* Traffic on an interface that is opened once and stays up, without
\* transmit timeouts.
TrafficNext ==
  \/ \E c \in Chans : Submit(c) \/ IdleSubmit(c) \/ SubmitSteps(c)
                      \/ HwTransfer(c)
  \/ \E x \in Contexts : PollSteps(x) \/ IntCtrlSteps(x)
  \/ \E x \in Pollers, c \in Chans : PollStart(x, c)
  \/ CtlrStart \/ OpenSteps

\* Transmit timeouts, further opens and stops.
StopNext ==
  \/ \E x \in Contexts : StopSteps(x)
  \/ \E c \in Chans : HwTeardown(c)
  \/ \E w \in Watchdogs : TxTimeout(w)
  \/ SecondOpen \/ LastStop \/ CtlrStopSteps

Next == TrafficNext \/ StopNext

Spec == Init /\ [][Next]_vars
TrafficSpec == Init /\ [][TrafficNext]_vars
-----------------------------------------------------------------------------
(* Safety.                                                                 *)

Elements(s) == {s[i] : i \in 1..Len(s)}
Distinct(s) == \A i, j \in 1..Len(s) : s[i] = s[j] => i = j

\* The descriptor a submission has allocated and not linked.
Building(c) == IF chan[c].sub = "alloc" THEN {chan[c].new} ELSE {}

Attached(c) == Building(c) \cup Elements(fifo[c])

\* Every descriptor is in exactly one place: free in the pool, being filled
\* by a submission, linked once in one channel's list, or unlinked by one
\* context that will free it.  A leak empties the pool for good; a double
\* free or a descriptor in two lists corrupts the DMA chain (the users of
\* cpdma_desc_alloc and cpdma_desc_free).
DescConserved ==
  /\ \A d \in Desc :
       \/ d \in pool
       \/ \E c \in Chans : d \in Attached(c)
       \/ \E x \in Contexts : ctx[x].cur = d
  /\ \A c \in Chans :
       /\ pool \cap Attached(c) = {}
       /\ Building(c) \cap Elements(fifo[c]) = {}
       /\ Distinct(fifo[c])
       /\ \A e \in Chans \ {c} : Attached(c) \cap Attached(e) = {}
  /\ \A x \in Contexts : ctx[x].cur # NULL =>
       /\ ctx[x].cur \notin pool
       /\ \A c \in Chans : ctx[x].cur \notin Attached(c)
       /\ \A y \in Contexts \ {x} : ctx[y].cur # ctx[x].cur

\* The number of descriptors linked and not yet counted.
Linking(c) == IF chan[c].sub = "chained" THEN 1 ELSE 0

\* The linked list of channel c, walked over hw_next from chan->head, is the
\* sequence of descriptors linked and not unlinked, chan->tail is its last
\* element, it ends with a null hw_next, and chan->count is its length.
ListShapeOf(c) ==
  LET n == Len(fifo[c]) IN
  /\ chan[c].head = IF n = 0 THEN NULL ELSE fifo[c][1]
  /\ n > 0 => chan[c].tail = fifo[c][n - Linking(c)]
  /\ \A i \in 1..n :
       desc[fifo[c][i]].next = IF i = n THEN NULL ELSE fifo[c][i + 1]
  /\ chan[c].count = n - Linking(c)
  /\ Linking(c) = 1 => n > 1 /\ chan[c].new = fifo[c][n]

\* Every channel's list is well formed, although the submitter extends it at
\* the tail, several contexts unlink its head, and a teardown cuts it short.
ListShape == \A c \in Chans : ListShapeOf(c)

\* A channel never holds more descriptors than its share of the pool, so
\* that it cannot starve the other channels.
WithinQuota == \A c \in Chans : Len(fifo[c]) <= DescNum[c]

\* The tokens of the descriptors not in the pool, and those about to be
\* passed to a handler, are exactly the tokens handed over, each once: no
\* skb or page is lost or completed twice, although __cpdma_chan_free frees
\* the descriptor (which another CPU may refill) before it calls the handler.
TokensConserved ==
  /\ out = {desc[d].token : d \in Desc \ pool} \cup
           ({ctx[x].tok : x \in Contexts} \ {NULL})
  /\ \A d, e \in Desc \ pool : desc[d].token = desc[e].token => d = e
  /\ \A x \in Contexts : ctx[x].tok # NULL =>
       /\ \A d \in Desc \ pool : desc[d].token # ctx[x].tok
       /\ \A y \in Contexts \ {x} : ctx[y].tok # ctx[x].tok

\* The positions in the list of c that the hardware still owns.
Owned(c) == {i \in 1..Len(fifo[c]) : "OWNER" \in desc[fifo[c][i]].mode}

\* Without teardowns, the hardware works only on a descriptor it owns,
\* linked in the channel's list; it has given back what precedes it and owns
\* what follows: HDP is never written while the DMA is running, although
\* both the submitter and the reclaimer restart it after an EOQ.
HwFollowsList ==
  \A c \in Chans :
    /\ \A i \in Owned(c) : i..Len(fifo[c]) \subseteq Owned(c)
    /\ hw[c].hdp # NULL =>
         \E i \in Owned(c) : hw[c].hdp = fifo[c][i] /\ i - 1 \notin Owned(c)

\* Without teardowns, an idle DMA with work queued has someone who will
\* restart it: the list still holds a descriptor completed with EOQ, at
\* which __cpdma_chan_process will write HDP.
NotStalled ==
  \A c \in Chans : chan[c].state = "ACTIVE" /\ hw[c].hdp = NULL =>
    \A i \in Owned(c) :
      \E j \in 1..(i - 1) : desc[fifo[c][j]].mode = {"EOQ"}

\* Without teardowns, the free-buffer credit of an active RX channel is the
\* number of its counted buffers that the hardware has not filled: cpdma_chan_on
\* and every submission after it account for each buffer once.
CreditMatches ==
  \A c \in RxChans : chan[c].state = "ACTIVE" =>
    hw[c].rxfree = Cardinality(Owned(c)) - Linking(c)

\* Once no watchdog and no open or stop is in progress on a running
\* controller, every channel is active with its interrupt enabled, however
\* the timeouts of two netdevs interleaved (one's cpdma_chan_stop or
\* cpdma_chan_on may be refused because of the other's).
ChannelsRestored ==
  (ctlrState = "ACTIVE" /\ \A x \in Contexts \ Pollers : ctx[x].pc = "idle")
    => \A c \in Chans : chan[c].state = "ACTIVE" /\ chan[c].inten

\* What cpdma_chan_stop says of the descriptors it cleans up ("remaining
\* packets haven't been tx/rx'ed"): the hardware neither handled them nor is
\* working on them when they are unlinked to be freed.
CleansUpOnlyUnsent ==
  [][\A x \in Contexts : ctx[x].pc = "clean" /\ ctx'[x].pc = "free" =>
       /\ "OWNER" \in desc[ctx'[x].cur].mode
       /\ hw[ctx[x].ch].hdp # ctx'[x].cur]_vars

-----------------------------------------------------------------------------
(* Refinement.                                                             *)

\* The descriptors reached from head over the hw_next of descs.
Walk(head, descs) ==
  LET nth[i \in 1..Cardinality(Desc)] ==
        IF i = 1 THEN head
        ELSE IF nth[i - 1] = NULL THEN NULL ELSE descs[nth[i - 1]].next
      n == Cardinality({i \in 1..Cardinality(Desc) : nth[i] # NULL})
  IN [i \in 1..n |-> nth[i]]

\* The list of channel c as the driver finds it, from chan->head.
ListOf(c) == Walk(chan[c].head, desc)

\* A token is accepted when its descriptor is reachable in the list, taken
\* back when the descriptor is unlinked, returned by the handler.
Accepted ==
  [c \in Chans |-> LET l == ListOf(c) IN
                     [i \in 1..Len(l) |-> desc[l[i]].token]]

Returning ==
  {desc[ctx[x].cur].token : x \in {y \in Contexts : ctx[y].pc = "free"}}
    \cup ({ctx[x].tok : x \in Contexts} \ {NULL})

Queue == INSTANCE DmaQueue WITH accepted <- Accepted, returning <- Returning

\* The linked lists, the shared pool and the concurrent contexts implement
\* the abstract queue of tokens.
ImplementsQueue == Queue!Spec
-----------------------------------------------------------------------------
(* Liveness.  The hardware transmits (nothing promises a packet to         *)
(* receive) and answers a teardown; lock holders run on; NAPI is scheduled *)
(* while a completed descriptor waits, because the interrupt stays         *)
(* asserted until CP is acknowledged; a context inside a call goes on, and *)
(* one that waits for a lock gets it although others take it too, because  *)
(* spinlocks are queued.                                                   *)

Fairness ==
  /\ \A c \in Chans :
       /\ WF_vars(SubmitSteps(c))
       /\ WF_vars(HwTeardown(c) \/ (c \in TxChans /\ HwTransfer(c)))
       /\ \A x \in Pollers : WF_vars(HeadCompleted(c) /\ PollStart(x, c))
  /\ \A x \in Contexts :
       SF_vars(PollSteps(x) \/ IntCtrlSteps(x) \/ StopSteps(x))
  /\ SF_vars(OpenSteps \/ CtlrStopSteps)

FairSpec == Spec /\ Fairness

\* No transmission is forgotten: on an interface that stays up and has no
\* transmit timeout, a token queued for transmission comes back, although
\* descriptors are chained while the hardware decides that it has reached
\* the end of the queue.
TransmissionEnds ==
  [](\A x \in Contexts : ctx[x].pc # "intoff") =>
    \A t \in Token : t \in out ~> t \notin out

\* A transmit timeout is over some time: cpdma_chan_stop does not hang or
\* loop forever, whatever pollers and the other watchdog do meanwhile to the
\* channel or to descriptors the hardware was restarted on.
TimeoutEnds ==
  \A w \in Watchdogs : ctx[w].pc = "intoff" ~> ctx[w].pc = "idle"
=============================================================================

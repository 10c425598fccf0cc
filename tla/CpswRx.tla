------------------------------- MODULE CpswRx -------------------------------
(***************************************************************************)
(* Where the pages of the CPSW receive path are: own_cpsw.c's              *)
(* cpsw_rx_handler, and priv.c's page pool, XDP and filling code.          *)
(*                                                                         *)
(* One RX channel is filled with pages of one page pool; a received page   *)
(* goes to the network stack, to an XDP program and from there to the TX   *)
(* channel or to another device, and a page takes its place in the ring.   *)
(* The RX and the TX channel share the descriptors.  What the channels do  *)
(* with their lists is Cpdma's; here a list is the sequence of what was    *)
(* linked.  The driver runs in dual EMAC mode, both netdevs on one ring.   *)
(***************************************************************************)
EXTENDS Naturals, Sequences, FiniteSets

CONSTANTS Netdevs,      \* the netdevs of the switch's slaves
          Pages,        \* the system's pages
          RxQuota,      \* chan->desc_num of the RX channel
          TxQuota,      \* chan->desc_num of the TX channel
          NoPage        \* the null pointer

ASSUME QuotaAssumption == RxQuota \in Nat \ {0} /\ TxQuota \in Nat \ {0}
ASSUME NoPageAssumption == NoPage \notin Pages
ASSUME NetdevsAssumption == Netdevs # {}

\* The pool has a descriptor for everything that the quotas allow
\* (CpdmaResources: the shares add up).
PoolSize == RxQuota + TxQuota

\* A TX entry that carries no page of this driver: an skb, or a frame that
\* another device redirected here.
Foreign == "foreign"
ASSUME ForeignAssumption == Foreign \notin Pages

\* Units of a received frame's length: the VLAN encapsulation header, and a
\* frame that has it, header included.
EncapHdr == 1
FrameLen == 2

VARIABLES
  smp,       \* do softirqs and processes of several CPUs interleave?
  phase,     \* the channels: "closed", "active", waiting in napi_disable
             \* ("disabling"), in teardown ("drain"), RX cleaned up ("cleanup")
  running,   \* netif_running of the netdevs
  prog,      \* the netdevs with an XDP program attached
  ring,      \* the pages linked in the RX channel, oldest first
  txq,       \* the entries linked in the TX channel, oldest first
  free,      \* free descriptors in the shared pool
  cache,     \* pages held by the page pool
  stack,     \* pages that became skbs
  away,      \* pages redirected to another device
  rx,        \* the packet that cpsw_rx_handler is working on
  tx         \* the entry that the TX poll has unlinked

vars == <<smp, phase, running, prog, ring, txq, free, cache, stack, away, rx, tx>>

RxIdle == [pc |-> "idle", page |-> NoPage, ndev |-> CHOOSE n \in Netdevs : TRUE,
           encap |-> FALSE, new |-> NoPage, off |-> 0, len |-> 0]
TxIdle == [pc |-> "idle", entry |-> Foreign]

Handled == {rx.page, rx.new} \ {NoPage}
PagesOf(q) == {q[i] : i \in DOMAIN q} \ {Foreign}
InTx == PagesOf(txq) \cup ({tx.entry} \ {Foreign})

\* The pages the system may still give to the page pool.
SystemPages ==
  Pages \ (PagesOf(ring) \cup InTx \cup cache \cup stack \cup away \cup Handled)

-----------------------------------------------------------------------------
Init ==
  /\ smp \in BOOLEAN
  /\ phase = "closed" /\ running = {} /\ prog = {}
  /\ ring = <<>> /\ txq = <<>> /\ free = PoolSize
  /\ cache = {} /\ stack = {} /\ away = {}
  /\ rx = RxIdle /\ tx = TxIdle

\* On one CPU a softirq runs to its end before a process, or the other
\* softirq, goes on.
Alone == smp \/ (rx.pc = "idle" /\ tx.pc = "idle")

\* The channels are ACTIVE, and polled, until napi_disable has returned.
Polling == phase \in {"active", "disabling"}

\* A channel takes a new entry while it is below its quota and the shared pool
\* has a descriptor (cpdma_chan_submit_si); a channel in teardown takes none.
TxHasRoom == Polling /\ Len(txq) < TxQuota /\ free > 0
RxHasRoom == Polling /\ Len(ring) < RxQuota /\ free > 0

-----------------------------------------------------------------------------
\* Opening and closing the netdevs, under the rtnl lock.

\* ndo_open of the first netdev: a fresh page pool, and a page for each buffer
\* of the ring.  (The failures of the filling are CpswLifecycle's.)
OpenFirst(n) ==
  /\ phase = "closed"
  /\ \E fill \in [1 .. RxQuota -> SystemPages] :
       /\ \A i, j \in 1 .. RxQuota : fill[i] = fill[j] => i = j
       /\ ring' = fill
  /\ free' = free - RxQuota
  /\ phase' = "active" /\ running' = {n}
  /\ UNCHANGED <<smp, prog, txq, cache, stack, away, rx, tx>>

OpenSecond(n) ==
  /\ phase = "active" /\ n \notin running
  /\ Alone
  /\ running' = running \cup {n}
  /\ UNCHANGED <<smp, phase, prog, ring, txq, free, cache, stack, away, rx, tx>>

\* dev_close clears netif_running; the last user takes the hardware down and
\* begins by waiting in napi_disable.
Close(n) ==
  /\ phase = "active" /\ n \in running
  /\ Alone
  /\ running' = running \ {n}
  /\ phase' = IF running = {n} THEN "disabling" ELSE phase
  /\ UNCHANGED <<smp, prog, ring, txq, free, cache, stack, away, rx, tx>>

NapiDisabled ==
  /\ phase = "disabling" /\ rx.pc = "idle" /\ tx.pc = "idle"
  /\ phase' = "drain"
  /\ UNCHANGED <<smp, running, prog, ring, txq, free, cache, stack, away, rx, tx>>

\* Mutant: the cleanup of the teardown forgets the descriptor.
DrainTxLeaking ==
  /\ phase = "drain" /\ txq # <<>>
  /\ cache' = cache \cup ({Head(txq)} \ {Foreign})
  /\ txq' = Tail(txq)
  /\ UNCHANGED <<smp, phase, running, prog, ring, free, stack, away, rx, tx>>

\* cpdma_ctlr_stop empties the TX channels, then the RX channels.  A packet
\* received before the teardown goes through the handler with its status
\* (RxUnlink); any other is handed back with a negative one, and its page goes
\* to the pool.
DrainTx ==
  /\ phase = "drain" /\ txq # <<>>
  /\ cache' = cache \cup ({Head(txq)} \ {Foreign})
  /\ txq' = Tail(txq) /\ free' = free + 1
  /\ UNCHANGED <<smp, phase, running, prog, ring, stack, away, rx, tx>>

DrainRx ==
  /\ phase \in {"drain", "cleanup"} /\ rx.pc = "idle" /\ txq = <<>> /\ ring # <<>>
  /\ phase' = "cleanup"
  /\ cache' = cache \cup {Head(ring)}
  /\ ring' = Tail(ring) /\ free' = free + 1
  /\ UNCHANGED <<smp, running, prog, txq, stack, away, rx, tx>>

\* cpsw_destroy_xdp_rxqs: the page pool gives its pages back.
DestroyPools ==
  /\ phase \in {"drain", "cleanup"} /\ rx.pc = "idle" /\ txq = <<>> /\ ring = <<>>
  /\ phase' = "closed" /\ cache' = {}
  /\ UNCHANGED <<smp, running, prog, ring, txq, free, stack, away, rx, tx>>

\* cpsw_xdp_prog_setup: the program is exchanged while packets are handled.
XdpSetup(n) ==
  /\ phase \in {"closed", "active"} /\ Alone
  /\ prog' = IF n \in prog THEN prog \ {n} ELSE prog \cup {n}
  /\ UNCHANGED <<smp, phase, running, ring, txq, free, cache, stack, away, rx, tx>>

-----------------------------------------------------------------------------
\* Reception.

\* __cpdma_chan_process unlinks the oldest page, received on n's port.
RxUnlink(n) ==
  /\ rx.pc = "idle" /\ ring # <<>>
  /\ \/ Polling /\ Alone
     \/ phase = "drain" /\ txq = <<>>
  /\ \E encap \in BOOLEAN :
       rx' = [RxIdle EXCEPT !.pc = "free", !.page = Head(ring), !.ndev = n,
                            !.encap = encap, !.len = FrameLen]
  /\ ring' = Tail(ring)
  /\ UNCHANGED <<smp, phase, running, prog, txq, free, cache, stack, away, tx>>

\* __cpdma_chan_free gives the descriptor back before it calls the handler.
RxFree ==
  /\ rx.pc = "free"
  /\ free' = free + 1
  /\ rx' = [rx EXCEPT !.pc = "handler"]
  /\ UNCHANGED <<smp, phase, running, prog, ring, txq, cache, stack, away, tx>>

\* The packet's netdev is down but another is up, or the interface is going
\* down: the page is its own replacement.
RxNotRunning ==
  /\ rx.pc = "handler" /\ rx.ndev \notin running
  /\ rx' = [rx EXCEPT !.pc = "requeue", !.new = rx.page, !.page = NoPage]
  /\ UNCHANGED <<smp, phase, running, prog, ring, txq, free, cache, stack, away, tx>>

\* Mutants: the handler goes on with the page it keeps; it forgets to requeue it.
RxNoPageBuilds ==
  /\ rx.pc = "handler" /\ rx.ndev \in running
  /\ rx' = [rx EXCEPT !.pc = "build", !.new = rx.page]
  /\ UNCHANGED <<smp, phase, running, prog, ring, txq, free, cache, stack, away, tx>>

RxNoPageDrops ==
  /\ rx.pc = "handler" /\ rx.ndev \in running
  /\ cache' = cache \cup {rx.page}
  /\ rx' = RxIdle
  /\ UNCHANGED <<smp, phase, running, prog, ring, txq, free, stack, away, tx>>

\* page_pool_dev_alloc_pages fails: the packet is dropped, its page stays.
RxNoPage ==
  /\ rx.pc = "handler" /\ rx.ndev \in running
  /\ rx' = [rx EXCEPT !.pc = "requeue", !.new = rx.page, !.page = NoPage]
  /\ UNCHANGED <<smp, phase, running, prog, ring, txq, free, cache, stack, away, tx>>

\* The replacement comes from the page pool, or through it from the system.  If
\* a program is attached, the frame's bounds leave out the encapsulation header.
RxAlloc ==
  /\ rx.pc = "handler" /\ rx.ndev \in running
  /\ \E new \in IF cache # {} THEN cache ELSE SystemPages :
       /\ cache' = cache \ {new}
       /\ rx' = IF rx.ndev \in prog
                THEN [rx EXCEPT !.pc = "xdp", !.new = new,
                                !.off = IF rx.encap THEN EncapHdr ELSE 0]
                ELSE [rx EXCEPT !.pc = "build", !.new = new]
  /\ UNCHANGED <<smp, phase, running, prog, ring, txq, free, stack, away, tx>>

\* cpsw_run_xdp reads the program again, and finds none: XDP_PASS, with the
\* length the handler was called with.
XdpGone ==
  /\ rx.pc = "xdp" /\ rx.ndev \notin prog
  /\ rx' = [rx EXCEPT !.pc = "build", !.encap = FALSE]
  /\ UNCHANGED <<smp, phase, running, prog, ring, txq, free, cache, stack, away, tx>>

\* Mutant: the length does not follow the bounds.
XdpPassFullLength ==
  /\ rx.pc = "xdp" /\ rx.ndev \in prog
  /\ rx' = [rx EXCEPT !.pc = "build", !.encap = FALSE]
  /\ UNCHANGED <<smp, phase, running, prog, ring, txq, free, cache, stack, away, tx>>

\* The program runs and passes the frame: the length is taken from its bounds,
\* and the encapsulation header is not used any more.
XdpPass ==
  /\ rx.pc = "xdp" /\ rx.ndev \in prog
  /\ rx' = [rx EXCEPT !.pc = "build", !.encap = FALSE, !.len = FrameLen - rx.off]
  /\ UNCHANGED <<smp, phase, running, prog, ring, txq, free, cache, stack, away, tx>>

\* XDP_DROP, XDP_ABORTED, an unknown verdict, or a redirection that failed.
XdpDrop ==
  /\ rx.pc = "xdp" /\ rx.ndev \in prog
  /\ cache' = cache \cup {rx.page}
  /\ rx' = [rx EXCEPT !.pc = "requeue", !.page = NoPage]
  /\ UNCHANGED <<smp, phase, running, prog, ring, txq, free, stack, away, tx>>

\* XDP_TX: the page itself is queued for transmission, or returned to its pool
\* if the TX channel does not take it (cpsw_xdp_tx_frame).
XdpTx ==
  /\ rx.pc = "xdp" /\ rx.ndev \in prog
  /\ \/ /\ TxHasRoom
        /\ txq' = Append(txq, rx.page) /\ free' = free - 1
        /\ UNCHANGED cache
     \/ /\ ~TxHasRoom
        /\ cache' = cache \cup {rx.page}
        /\ UNCHANGED <<txq, free>>
  /\ rx' = [rx EXCEPT !.pc = "requeue", !.page = NoPage]
  /\ UNCHANGED <<smp, phase, running, prog, ring, stack, away, tx>>

XdpRedirect ==
  /\ rx.pc = "xdp" /\ rx.ndev \in prog
  /\ away' = away \cup {rx.page}
  /\ rx' = [rx EXCEPT !.pc = "requeue", !.page = NoPage]
  /\ UNCHANGED <<smp, phase, running, prog, ring, txq, free, cache, stack, tx>>

\* The other device is done with the page: back to the page pool, or to the
\* system if the pool has been destroyed.
RedirectReturns ==
  /\ \E p \in away :
       /\ away' = away \ {p}
       /\ cache' = IF phase = "closed" THEN cache ELSE cache \cup {p}
  /\ UNCHANGED <<smp, phase, running, prog, ring, txq, free, stack, rx, tx>>

\* build_skb takes the page out of the pool's hands, or fails and the page is
\* recycled.
RxBuild ==
  /\ rx.pc = "build"
  /\ \/ stack' = stack \cup {rx.page} /\ UNCHANGED cache
     \/ cache' = cache \cup {rx.page} /\ UNCHANGED stack
  /\ rx' = [rx EXCEPT !.pc = "requeue", !.page = NoPage]
  /\ UNCHANGED <<smp, phase, running, prog, ring, txq, free, away, tx>>

StackFrees ==
  /\ \E p \in stack : stack' = stack \ {p}
  /\ UNCHANGED <<smp, phase, running, prog, ring, txq, free, cache, away, rx, tx>>

\* The replacement is submitted; a page the channel does not take is recycled.
RxRequeue ==
  /\ rx.pc = "requeue"
  /\ \/ /\ RxHasRoom
        /\ ring' = Append(ring, rx.new) /\ free' = free - 1
        /\ UNCHANGED cache
     \/ /\ ~RxHasRoom
        /\ cache' = cache \cup {rx.new}
        /\ UNCHANGED <<ring, free>>
  /\ rx' = RxIdle
  /\ UNCHANGED <<smp, phase, running, prog, txq, stack, away, tx>>

-----------------------------------------------------------------------------
\* Transmission, as far as it takes descriptors and pages.

Xmit ==
  /\ phase = "active" /\ TxHasRoom /\ Alone
  /\ txq' = Append(txq, Foreign) /\ free' = free - 1
  /\ UNCHANGED <<smp, phase, running, prog, ring, cache, stack, away, rx, tx>>

TxUnlink ==
  /\ Polling /\ tx.pc = "idle" /\ txq # <<>> /\ Alone
  /\ tx' = [pc |-> "free", entry |-> Head(txq)]
  /\ txq' = Tail(txq)
  /\ UNCHANGED <<smp, phase, running, prog, ring, free, cache, stack, away, rx>>

\* Mutant: the entry is freed again by the next poll.
TxFreeTwice ==
  /\ tx.pc = "free"
  /\ free' = free + 1
  /\ \E pc \in {"free", "handler"} : tx' = [tx EXCEPT !.pc = pc]
  /\ UNCHANGED <<smp, phase, running, prog, ring, txq, cache, stack, away, rx>>

TxFree ==
  /\ tx.pc = "free"
  /\ free' = free + 1
  /\ tx' = [tx EXCEPT !.pc = "handler"]
  /\ UNCHANGED <<smp, phase, running, prog, ring, txq, cache, stack, away, rx>>

\* cpsw_tx_handler: an XDP frame's page returns to its pool.
TxHandler ==
  /\ tx.pc = "handler"
  /\ cache' = cache \cup ({tx.entry} \ {Foreign})
  /\ tx' = TxIdle
  /\ UNCHANGED <<smp, phase, running, prog, ring, txq, free, stack, away, rx>>

-----------------------------------------------------------------------------
Control == \/ \E n \in Netdevs : OpenFirst(n) \/ OpenSecond(n) \/ Close(n) \/ XdpSetup(n)
           \/ NapiDisabled \/ DrainTx \/ DrainRx \/ DestroyPools

Reception == \/ \E n \in Netdevs : RxUnlink(n)
             \/ RxFree \/ RxNotRunning \/ RxNoPage \/ RxAlloc
             \/ XdpGone \/ XdpPass \/ XdpDrop \/ XdpTx \/ XdpRedirect
             \/ RedirectReturns \/ RxBuild \/ StackFrees \/ RxRequeue

Transmission == Xmit \/ TxUnlink \/ TxFree \/ TxHandler

Next == Control \/ Reception \/ Transmission

Spec == Init /\ [][Next]_vars

-----------------------------------------------------------------------------
RxRecord ==
  [pc : {"idle", "free", "handler", "xdp", "build", "requeue"},
   page : Pages \cup {NoPage}, ndev : Netdevs, encap : BOOLEAN,
   new : Pages \cup {NoPage}, off : Nat, len : Nat]

TxRecord == [pc : {"idle", "free", "handler"}, entry : Pages \cup {Foreign}]

\* The state is well typed: places hold pages, counters stay in their ranges.
TypeOK ==
  /\ smp \in BOOLEAN /\ phase \in {"closed", "active", "disabling", "drain", "cleanup"}
  /\ running \subseteq Netdevs /\ prog \subseteq Netdevs
  /\ ring \in Seq(Pages) /\ txq \in Seq(Pages \cup {Foreign})
  /\ free \in 0 .. PoolSize
  /\ cache \subseteq Pages /\ stack \subseteq Pages /\ away \subseteq Pages
  /\ rx \in RxRecord /\ tx \in TxRecord

\* No page has two owners: along every path of cpsw_rx_handler and of
\* cpsw_run_xdp, failures and teardown included, a page is in one place only,
\* and once in a list.
PagesConserved ==
  LET places == <<PagesOf(ring), InTx, cache, stack, away, Handled>>
      Distinct(q) == \A i, j \in DOMAIN q : q[i] = q[j] => i = j \/ q[i] = Foreign
  IN /\ \A i, j \in DOMAIN places : i # j => places[i] \cap places[j] = {}
     /\ Distinct(ring) /\ Distinct(txq)
     /\ tx.entry # Foreign => tx.entry \notin PagesOf(txq)
     /\ rx.page = rx.new => rx.page = NoPage

\* After the last close nothing is left in the rings: every descriptor is free,
\* and the destroyed page pool waits only for pages redirected elsewhere.
PoolDrains ==
  phase = "closed" =>
    /\ ring = <<>> /\ txq = <<>> /\ free = PoolSize
    /\ cache = {} /\ Handled = {} /\ InTx = {}

\* What WARN_ON(ret == -ENOMEM) in cpsw_rx_handler asserts: the buffer that was
\* just taken off the ring can be replaced.
ReplacementFits ==
  phase = "active" /\ rx.pc = "requeue" => Len(ring) < RxQuota /\ free > 0

\* On one CPU the ring never loses a buffer, whatever XDP and transmission do:
\* between two packets it is full.
RingStaysFull ==
  ~smp /\ phase = "active" /\ rx.pc = "idle" => Len(ring) = RxQuota

\* On one CPU the frame that becomes an skb ends where the received frame ended,
\* with and without an XDP program and the encapsulation header.
FrameEndsRight == ~smp /\ rx.pc = "build" => rx.off + rx.len = FrameLen
=============================================================================

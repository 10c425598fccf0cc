---------------------------- MODULE CpswTxQueue ----------------------------
(***************************************************************************)
(* Flow control of transmission: cpsw_ndo_start_xmit stops a netdev queue  *)
(* when the DMA channel behind it has no descriptor left, and              *)
(* cpsw_tx_handler wakes the queue of the packet it completes.  All        *)
(* netdevs share the channels, and all channels share the pool.            *)
(*                                                                         *)
(* The channel is what module Cpdma makes of it: descriptors are unlinked  *)
(* in order under the channel's lock, freed later, and then the handler    *)
(* runs.  Three kinds of contexts are concurrent: the transmitter of each  *)
(* queue (at most one, the queue's xmit lock), the TX NAPI context, and    *)
(* one watchdog per netdev, named by its netdev.                           *)
(***************************************************************************)
EXTENDS Integers, Sequences

CONSTANTS
  Netdevs,   \* two in dual EMAC mode
  Chans,     \* TX channels; a netdev has one queue for each
  XdpChan,   \* txv[0], on which XDP frames are sent
  DescNum,   \* DescNum[c]: chan->desc_num
  PoolSize,  \* the descriptors that the channels share
  Napi,      \* the TX NAPI context
  NULL

ASSUME ConstantsAssumption ==
  /\ XdpChan \in Chans
  /\ DescNum \in [Chans -> Nat]
  /\ PoolSize \in Nat
  /\ Napi \notin Netdevs
  /\ NULL \notin Netdevs \cup Chans

Reclaimers == Netdevs \cup {Napi}

VARIABLES
  link,     \* link[n]: the carrier of n is on
  stopped,  \* stopped[n][c]: the queue is stopped (netif_tx_stop_queue)
  state,    \* state[c]: chan->state
  queue,    \* queue[c]: the netdevs of the packets linked in c, oldest first
  free,     \* the number of descriptors in the pool
  xmit,     \* xmit[n][c]: where start_xmit is on that queue
  rec       \* what a reclaimer has unlinked and not completed

vars == <<link, stopped, state, queue, free, xmit, rec>>

RecRecord ==
  [pc : {"idle", "free", "call", "timeout", "drain", "start"},
   ch : Chans \cup {NULL},       \* the channel it works on
   pkt : Netdevs \cup {NULL},    \* the netdev of the packet in its hands
   todo : SUBSET Chans]          \* channels the watchdog has yet to restart

TypeOK ==
  /\ link \in [Netdevs -> BOOLEAN]
  /\ stopped \in [Netdevs -> [Chans -> BOOLEAN]]
  /\ state \in [Chans -> {"IDLE", "ACTIVE", "TEARDOWN"}]
  /\ queue \in [Chans -> Seq(Netdevs)]
  /\ free \in 0..PoolSize
  /\ xmit \in [Netdevs -> [Chans -> {"idle", "check", "stop", "recheck"}]]
  /\ rec \in [Reclaimers -> RecRecord]

\* The interface is up: channels run, nothing is queued, no link yet.
Init ==
  /\ link = [n \in Netdevs |-> FALSE]
  /\ stopped = [n \in Netdevs |-> [c \in Chans |-> FALSE]]
  /\ state = [c \in Chans |-> "ACTIVE"]
  /\ queue = [c \in Chans |-> <<>>]
  /\ free = PoolSize
  /\ xmit = [n \in Netdevs |-> [c \in Chans |-> "idle"]]
  /\ rec = [r \in Reclaimers |->
              [pc |-> "idle", ch |-> NULL, pkt |-> NULL, todo |-> {}]]
-----------------------------------------------------------------------------
(* Transmission.                                                           *)

\* Mutant: only the channel's share is asked, not the pool.
ShareHasFree(c) == Len(queue[c]) < DescNum[c]

\* cpdma_check_free_tx_desc, and what a submission needs.
HasFree(c) == Len(queue[c]) < DescNum[c] /\ free > 0

\* cpdma_chan_submit succeeds: a packet of n is linked in c.
Link(n, c) ==
  /\ state[c] = "ACTIVE"
  /\ HasFree(c)
  /\ queue' = [queue EXCEPT ![c] = Append(@, n)]
  /\ free' = free - 1

\* The stack transmits on a queue that is not stopped, unless the watchdog
\* has frozen the queues of the netdev.
MayXmit(n, c) ==
  xmit[n][c] = "idle" /\ ~stopped[n][c] /\ rec[n].pc = "idle"

\* The packet is queued; start_xmit goes on to look for a free descriptor.
XmitQueued(n, c) ==
  /\ MayXmit(n, c)
  /\ Link(n, c)
  /\ xmit' = [xmit EXCEPT ![n][c] = "check"]
  /\ UNCHANGED <<link, stopped, state, rec>>

\* The submission fails: no room, the channel is not active, or the packet
\* cannot be mapped.  The stack keeps it (NETDEV_TX_BUSY).
XmitFails(n, c) ==
  /\ MayXmit(n, c)
  /\ xmit' = [xmit EXCEPT ![n][c] = "stop"]
  /\ UNCHANGED <<link, stopped, state, queue, free, rec>>

\* After a submission: the queue is stopped if nothing is left.
XmitCheck(n, c) ==
  /\ xmit[n][c] = "check"
  /\ xmit' = [xmit EXCEPT ![n][c] = IF HasFree(c) THEN "idle" ELSE "stop"]
  /\ UNCHANGED <<link, stopped, state, queue, free, rec>>

\* netif_tx_stop_queue, visible to the other CPUs before the next look.
XmitStop(n, c) ==
  /\ xmit[n][c] = "stop"
  /\ stopped' = [stopped EXCEPT ![n][c] = TRUE]
  /\ xmit' = [xmit EXCEPT ![n][c] = "recheck"]
  /\ UNCHANGED <<link, state, queue, free, rec>>

\* Mutant: the queue is not looked at again once it is stopped.
XmitNoRecheck(n, c) ==
  /\ xmit[n][c] = "recheck"
  /\ xmit' = [xmit EXCEPT ![n][c] = "idle"]
  /\ UNCHANGED <<link, stopped, state, queue, free, rec>>

\* A descriptor may have come back before the queue was stopped.
XmitRecheck(n, c) ==
  /\ xmit[n][c] = "recheck"
  /\ stopped' = [stopped EXCEPT ![n][c] = @ /\ ~HasFree(c)]
  /\ xmit' = [xmit EXCEPT ![n][c] = "idle"]
  /\ UNCHANGED <<link, state, queue, free, rec>>

\* cpsw_xdp_tx_frame: no queue is stopped for an XDP frame; one that cannot
\* be queued is dropped.
XdpXmit(n) ==
  /\ Link(n, XdpChan)
  /\ UNCHANGED <<link, stopped, state, xmit, rec>>
-----------------------------------------------------------------------------
(* Completion: __cpdma_chan_process, __cpdma_chan_free, cpsw_tx_handler.   *)

\* Reclaimer r unlinks the oldest packet of c.
Unlink(r, c) ==
  /\ queue[c] # <<>>
  /\ queue' = [queue EXCEPT ![c] = Tail(@)]
  /\ rec' = [rec EXCEPT ![r].pc = "free", ![r].ch = c,
                        ![r].pkt = Head(queue[c])]
  /\ UNCHANGED <<link, stopped, state, free, xmit>>

\* The NAPI context finds a completed packet.
NapiProcess(c) == rec[Napi].pc = "idle" /\ Unlink(Napi, c)

FreeDesc(r) ==
  /\ rec[r].pc = "free"
  /\ free' = free + 1
  /\ rec' = [rec EXCEPT ![r].pc = "call"]
  /\ UNCHANGED <<link, stopped, state, queue, xmit>>

\* Mutant: the queue of the packet's netdev is woken only if the channel
\* has become empty.
TxHandlerWhenEmpty(r) ==
  LET c == rec[r].ch
      n == rec[r].pkt IN
  /\ rec[r].pc = "call"
  /\ stopped' = [stopped EXCEPT ![n][c] = @ /\ queue[c] # <<>>]
  /\ rec' = [rec EXCEPT ![r].pc = IF r = Napi THEN "idle" ELSE "drain",
                        ![r].ch = IF r = Napi THEN NULL ELSE @,
                        ![r].pkt = NULL]
  /\ UNCHANGED <<link, state, queue, free, xmit>>

\* cpsw_tx_handler: wake the queue of the packet's netdev if it is stopped.
TxHandler(r) ==
  LET c == rec[r].ch
      n == rec[r].pkt IN
  /\ rec[r].pc = "call"
  /\ stopped' = [stopped EXCEPT ![n][c] = FALSE]
  /\ rec' = [rec EXCEPT ![r].pc = IF r = Napi THEN "idle" ELSE "drain",
                        ![r].ch = IF r = Napi THEN NULL ELSE @,
                        ![r].pkt = NULL]
  /\ UNCHANGED <<link, state, queue, free, xmit>>
-----------------------------------------------------------------------------
(* The watchdog of netdev n: cpsw_ndo_tx_timeout.                          *)

\* A queue has been stopped for too long.  Transmission on n is frozen.
TxTimeout(n) ==
  /\ rec[n].pc = "idle"
  /\ link[n]
  /\ \E c \in Chans : stopped[n][c]
  /\ \A c \in Chans : xmit[n][c] = "idle"
  /\ rec' = [rec EXCEPT ![n].pc = "timeout", ![n].todo = Chans]
  /\ UNCHANGED <<link, stopped, state, queue, free, xmit>>

\* cpdma_chan_stop, refused while another watchdog tears the channel down.
ChanStop(n, c) ==
  /\ rec[n].pc = "timeout"
  /\ c \in rec[n].todo
  /\ state' = [state EXCEPT ![c] = "TEARDOWN"]
  /\ rec' = [rec EXCEPT ![n].pc = IF state[c] = "TEARDOWN" THEN "start"
                                  ELSE "drain",
                        ![n].ch = c, ![n].todo = @ \ {c}]
  /\ UNCHANGED <<link, stopped, queue, free, xmit>>

\* Every packet of the channel is handled or cleaned up.
ChanDrain(n) == rec[n].pc = "drain" /\ Unlink(n, rec[n].ch)

ChanStopEnd(n) ==
  /\ rec[n].pc = "drain"
  /\ queue[rec[n].ch] = <<>>
  /\ state' = [state EXCEPT ![rec[n].ch] = "IDLE"]
  /\ rec' = [rec EXCEPT ![n].pc = "start"]
  /\ UNCHANGED <<link, stopped, queue, free, xmit>>

\* cpdma_chan_start, refused unless the channel is idle.
ChanStart(n) ==
  /\ rec[n].pc = "start"
  /\ state' = [state EXCEPT ![rec[n].ch] = IF @ = "IDLE" THEN "ACTIVE" ELSE @]
  /\ rec' = [rec EXCEPT ![n].pc = "timeout", ![n].ch = NULL]
  /\ UNCHANGED <<link, stopped, queue, free, xmit>>

\* netif_tx_wake_all_queues.
WakeAll(n) ==
  /\ rec[n].pc = "timeout"
  /\ rec[n].todo = {}
  /\ stopped' = [stopped EXCEPT ![n] = [c \in Chans |-> FALSE]]
  /\ rec' = [rec EXCEPT ![n].pc = "idle"]
  /\ UNCHANGED <<link, state, queue, free, xmit>>
-----------------------------------------------------------------------------
(* The PHY reports a change: cpsw_adjust_link.                             *)

LinkUp(n) ==
  /\ ~link[n]
  /\ link' = [link EXCEPT ![n] = TRUE]
  /\ stopped' = [stopped EXCEPT ![n] = [c \in Chans |-> FALSE]]
  /\ UNCHANGED <<state, queue, free, xmit, rec>>

LinkDown(n) ==
  /\ link[n]
  /\ link' = [link EXCEPT ![n] = FALSE]
  /\ stopped' = [stopped EXCEPT ![n] = [c \in Chans |-> TRUE]]
  /\ UNCHANGED <<state, queue, free, xmit, rec>>
-----------------------------------------------------------------------------
XmitSteps(n, c) == XmitCheck(n, c) \/ XmitStop(n, c) \/ XmitRecheck(n, c)

TimeoutSteps(n) ==
  \/ \E c \in Chans : ChanStop(n, c)
  \/ ChanDrain(n) \/ ChanStopEnd(n) \/ ChanStart(n) \/ WakeAll(n)

CompleteSteps(r) == FreeDesc(r) \/ TxHandler(r)

Next ==
  \/ \E n \in Netdevs, c \in Chans :
       XmitQueued(n, c) \/ XmitFails(n, c) \/ XmitSteps(n, c)
  \/ \E n \in Netdevs :
       \/ XdpXmit(n) \/ TxTimeout(n) \/ TimeoutSteps(n)
       \/ LinkUp(n) \/ LinkDown(n)
  \/ \E c \in Chans : NapiProcess(c)
  \/ \E r \in Reclaimers : CompleteSteps(r)

Spec == Init /\ [][Next]_vars
-----------------------------------------------------------------------------
(* Safety.                                                                 *)

\* A completion that will wake the queue of n on c is outstanding.
HasWaker(n, c) ==
  \/ \E i \in 1..Len(queue[c]) : queue[c][i] = n
  \/ \E r \in Reclaimers : rec[r].ch = c /\ rec[r].pkt = n

\* What cpsw_tx_handler says ("if the queue is stopped then start the queue
\* as we have free desc for tx"): a queue of a netdev with a link that is
\* stopped has a packet whose completion will wake it, unless its
\* transmitter is about to look again or its watchdog to wake it.  No order
\* of stopping, freeing and completing leaves it stopped for good.
StoppedHasWaker ==
  \A n \in Netdevs, c \in Chans : link[n] /\ stopped[n][c] =>
    HasWaker(n, c) \/ xmit[n][c] = "recheck" \/ rec[n].pc # "idle"
-----------------------------------------------------------------------------
(* Liveness.  start_xmit and the handlers run on; every completed channel  *)
(* is polled in turn; a watchdog that has begun goes on.  No timeout need  *)
(* ever happen.                                                            *)

Fairness ==
  /\ \A n \in Netdevs : WF_vars(TimeoutSteps(n))
  /\ \A n \in Netdevs, c \in Chans : WF_vars(XmitSteps(n, c))
  /\ \A r \in Reclaimers : WF_vars(CompleteSteps(r))
  /\ \A c \in Chans : SF_vars(NapiProcess(c))

FairSpec == Spec /\ Fairness

\* A queue that is stopped while the link is up is woken, by completions
\* alone: nobody has to wait for the watchdog to restart the DMA.
QueuesWoken ==
  \A n \in Netdevs, c \in Chans :
    link[n] /\ stopped[n][c] ~> ~link[n] \/ ~stopped[n][c]
=============================================================================

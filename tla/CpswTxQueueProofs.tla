------------------------- MODULE CpswTxQueueProofs -------------------------
(***************************************************************************)
(* Proofs about CpswTxQueue: every descriptor is accounted for and no      *)
(* channel takes more than its share, whatever the netdevs do; and a       *)
(* stopped queue of a single netdev has a packet that will wake it.        *)
(***************************************************************************)
EXTENDS CpswTxQueue, FiniteSetTheorems, TLAPS

-----------------------------------------------------------------------------
(* The inductive invariant.                                                *)

\* Where the packets are that are linked, and who has unlinked one and not
\* yet freed its descriptor.
Linked == {p \in Chans \X Nat : p[2] \in 1..Len(queue[p[1]])}
Freeing == {r \in Reclaimers : rec[r].pc = "free"}

\* The pool has every other descriptor.
PoolCounted ==
  /\ IsFiniteSet(Linked) /\ IsFiniteSet(Freeing)
  /\ free + Cardinality(Linked) + Cardinality(Freeing) = PoolSize

\* Before a channel takes a descriptor it compares its count with its share.
SharesKept == \A c \in Chans : Len(queue[c]) <= DescNum[c]

\* A reclaimer knows the channel and the packet it is working on.
HandsInv ==
  \A r \in Reclaimers :
    /\ IF rec[r].pc \in {"free", "call"} THEN rec[r].pkt \in Netdevs ELSE rec[r].pkt = NULL
    /\ rec[r].pc \in {"free", "call", "drain", "start"} => rec[r].ch \in Chans
    /\ r = Napi => rec[r].pc \in {"idle", "free", "call"}

IInv == TypeOK /\ PoolCounted /\ SharesKept /\ HandsInv
-----------------------------------------------------------------------------
(* Steps on the queues and on the pool.                                    *)

\* The steps that leave the descriptors where they are keep the count.
LEMMA SameCount ==
  ASSUME PoolCounted, queue' = queue, free' = free, Freeing' = Freeing
  PROVE  PoolCounted'
BY DEF PoolCounted, Linked

\* A queue and its positions when a packet is linked, and when one is unlinked.
LEMMA Longer ==
  ASSUME TypeOK, NEW c \in Chans, NEW n \in Netdevs,
         queue' = [queue EXCEPT ![c] = Append(@, n)]
  PROVE  /\ queue' \in [Chans -> Seq(Netdevs)]
         /\ Len(queue[c]) \in Nat /\ Len(queue'[c]) = Len(queue[c]) + 1
         /\ \A e \in Chans \ {c} : queue'[e] = queue[e]
         /\ Linked' = Linked \cup {<<c, Len(queue[c]) + 1>>}
         /\ <<c, Len(queue[c]) + 1>> \notin Linked
<1>1. queue[c] \in Seq(Netdevs) /\ Len(queue[c]) \in Nat
  BY DEF TypeOK
<1>2. /\ queue'[c] = Append(queue[c], n)
      /\ Append(queue[c], n) \in Seq(Netdevs) /\ Len(Append(queue[c], n)) = Len(queue[c]) + 1
      /\ \A e \in Chans \ {c} : queue'[e] = queue[e]
      /\ queue' \in [Chans -> Seq(Netdevs)]
  BY <1>1 DEF TypeOK
<1>3. ASSUME NEW p \in Chans \X Nat
      PROVE  p[2] \in 1..Len(queue'[p[1]])
               <=> p[2] \in 1..Len(queue[p[1]]) \/ p = <<c, Len(queue[c]) + 1>>
  <2>1. CASE p[1] = c
    <3>1. p = <<c, p[2]>> /\ p[2] \in Nat
      BY <2>1
    <3> QED BY <1>1, <1>2, <2>1, <3>1
  <2>2. CASE p[1] # c
    BY <1>2, <2>2
  <2> QED BY <2>1, <2>2
<1>4. <<c, Len(queue[c]) + 1>> \in Chans \X Nat
  BY <1>1
<1>5. Linked' = Linked \cup {<<c, Len(queue[c]) + 1>>}
  BY <1>3, <1>4 DEF Linked
<1>6. <<c, Len(queue[c]) + 1>> \notin Linked
  BY <1>1 DEF Linked
<1> QED BY <1>1, <1>2, <1>5, <1>6

\* And when one is unlinked.
LEMMA Shorter ==
  ASSUME TypeOK, NEW c \in Chans, queue[c] # <<>>,
         queue' = [queue EXCEPT ![c] = Tail(@)]
  PROVE  /\ queue' \in [Chans -> Seq(Netdevs)]
         /\ Head(queue[c]) \in Netdevs
         /\ Len(queue[c]) \in Nat \ {0} /\ Len(queue'[c]) = Len(queue[c]) - 1
         /\ \A i \in 1..(Len(queue[c]) - 1) : queue'[c][i] = queue[c][i + 1]
         /\ \A e \in Chans \ {c} : queue'[e] = queue[e]
         /\ Linked' = Linked \ {<<c, Len(queue[c])>>}
         /\ <<c, Len(queue[c])>> \in Linked
<1>1. queue[c] \in Seq(Netdevs) /\ Len(queue[c]) \in Nat \ {0}
  BY DEF TypeOK
<1>2. /\ queue'[c] = Tail(queue[c]) /\ Head(queue[c]) \in Netdevs
      /\ Tail(queue[c]) \in Seq(Netdevs) /\ Len(Tail(queue[c])) = Len(queue[c]) - 1
      /\ \A i \in 1..(Len(queue[c]) - 1) : Tail(queue[c])[i] = queue[c][i + 1]
      /\ \A e \in Chans \ {c} : queue'[e] = queue[e]
      /\ queue' \in [Chans -> Seq(Netdevs)]
  BY <1>1 DEF TypeOK
<1>3. ASSUME NEW p \in Chans \X Nat
      PROVE  p[2] \in 1..Len(queue'[p[1]])
               <=> p[2] \in 1..Len(queue[p[1]]) /\ p # <<c, Len(queue[c])>>
  <2>1. CASE p[1] = c
    <3>1. p = <<c, p[2]>> /\ p[2] \in Nat
      BY <2>1
    <3> QED BY <1>1, <1>2, <2>1, <3>1
  <2>2. CASE p[1] # c
    BY <1>2, <2>2
  <2> QED BY <2>1, <2>2
<1>4. <<c, Len(queue[c])>> \in Linked
  BY <1>1 DEF Linked
<1>5. Linked' = Linked \ {<<c, Len(queue[c])>>}
  BY <1>3 DEF Linked
<1> QED BY <1>1, <1>2, <1>4, <1>5

\* One queue of one netdev changes.
LEMMA OneQueue ==
  ASSUME NEW S, NEW f \in [Netdevs -> [Chans -> S]], NEW n \in Netdevs, NEW c \in Chans,
         NEW v \in S
  PROVE  LET g == [f EXCEPT ![n][c] = v]
         IN  /\ g \in [Netdevs -> [Chans -> S]] /\ g[n][c] = v
             /\ \A m \in Netdevs, e \in Chans : m # n \/ e # c => g[m][e] = f[m][e]
<1>1. f[n] \in [Chans -> S] /\ [f[n] EXCEPT ![c] = v] \in [Chans -> S]
  OBVIOUS
<1> QED BY <1>1

\* The same of stopped.
LEMMA QueueStops ==
  ASSUME TypeOK, NEW n \in Netdevs, NEW c \in Chans, NEW v \in BOOLEAN,
         stopped' = [stopped EXCEPT ![n][c] = v]
  PROVE  /\ stopped' \in [Netdevs -> [Chans -> BOOLEAN]] /\ stopped'[n][c] = v
         /\ \A e \in Chans \ {c} : stopped'[n][e] = stopped[n][e]
<1>1. stopped \in [Netdevs -> [Chans -> BOOLEAN]] /\ stopped[n] \in [Chans -> BOOLEAN]
  BY DEF TypeOK
<1>2. stopped'[n] = [stopped[n] EXCEPT ![c] = v] /\ [stopped[n] EXCEPT ![c] = v] \in [Chans -> BOOLEAN]
  BY <1>1
<1>3. \A e \in Chans \ {c} : stopped'[n][e] = stopped[n][e]
  BY <1>1, <1>2
<1> QED BY <1>1, <1>2, <1>3

\* A submission takes a descriptor of the pool and of the channel's share.
LEMMA LinkKeepsCount ==
  ASSUME IInv, NEW n \in Netdevs, NEW c \in Chans, Link(n, c), rec' = rec
  PROVE  /\ queue' \in [Chans -> Seq(Netdevs)] /\ free' \in 0..PoolSize
         /\ PoolCounted' /\ SharesKept'
<1>1. queue' = [queue EXCEPT ![c] = Append(@, n)] /\ free' = free - 1
      /\ free > 0 /\ Len(queue[c]) < DescNum[c] /\ TypeOK
  BY DEF Link, HasFree, IInv
<1>2. free \in 0..PoolSize /\ PoolSize \in Nat /\ DescNum[c] \in Nat
  BY <1>1, ConstantsAssumption DEF TypeOK
<1>3. /\ Linked' = Linked \cup {<<c, Len(queue[c]) + 1>>} /\ <<c, Len(queue[c]) + 1>> \notin Linked
      /\ Len(queue[c]) \in Nat /\ Len(queue'[c]) = Len(queue[c]) + 1
      /\ queue' \in [Chans -> Seq(Netdevs)]
      /\ \A e \in Chans \ {c} : queue'[e] = queue[e]
  BY <1>1, Longer
<1>4. IsFiniteSet(Linked') /\ Cardinality(Linked') = Cardinality(Linked) + 1
  BY <1>3, FS_AddElement DEF IInv, PoolCounted
<1>5. Freeing' = Freeing /\ IsFiniteSet(Freeing)
  BY DEF Freeing, IInv, PoolCounted
<1>6. Cardinality(Linked) \in Nat /\ Cardinality(Freeing) \in Nat
  BY FS_CardinalityType DEF IInv, PoolCounted
<1>7. PoolCounted'
  BY <1>1, <1>2, <1>4, <1>5, <1>6 DEF PoolCounted, IInv
<1>8. SharesKept'
  BY <1>1, <1>2, <1>3 DEF SharesKept, IInv
<1> QED BY <1>1, <1>2, <1>3, <1>7, <1>8

\* What a record with another program counter is.
LEMMA RecSteps ==
  ASSUME TypeOK, NEW r \in Reclaimers, NEW v \in RecRecord, rec' = [rec EXCEPT ![r] = v]
  PROVE  /\ rec' \in [Reclaimers -> RecRecord] /\ rec'[r] = v
         /\ \A s \in Reclaimers \ {r} : rec'[s] = rec[s]
BY DEF TypeOK

\* A step of a reclaimer that neither begins nor ends between unlinking and freeing.
LEMMA StillFreeing ==
  ASSUME NEW r \in Reclaimers, \A s \in Reclaimers \ {r} : rec'[s] = rec[s],
         rec[r].pc # "free", rec'[r].pc # "free"
  PROVE  Freeing' = Freeing
BY DEF Freeing
-----------------------------------------------------------------------------
(* One lemma for each kind of step.                                        *)

\* The transmitters, the link, and XDP.
LEMMA XmitIInv ==
  ASSUME IInv, NEW n \in Netdevs, NEW c \in Chans,
         XmitQueued(n, c) \/ XmitFails(n, c) \/ XmitSteps(n, c)
  PROVE  IInv'
<1>1. rec' = rec /\ link' = link /\ state' = state
  BY DEF XmitQueued, XmitFails, XmitSteps, XmitCheck, XmitStop, XmitRecheck
<1>2. xmit' \in [Netdevs -> [Chans -> {"idle", "check", "stop", "recheck"}]]
  <2>1. PICK v \in {"idle", "check", "stop", "recheck"} : xmit' = [xmit EXCEPT ![n][c] = v]
    BY DEF XmitQueued, XmitFails, XmitSteps, XmitCheck, XmitStop, XmitRecheck
  <2> QED BY <2>1, OneQueue DEF IInv, TypeOK
<1>3. stopped' \in [Netdevs -> [Chans -> BOOLEAN]]
  <2>1. stopped \in [Netdevs -> [Chans -> BOOLEAN]] /\ stopped[n][c] \in BOOLEAN
    BY DEF IInv, TypeOK
  <2>2. CASE XmitRecheck(n, c)
    <3>1. stopped' = [stopped EXCEPT ![n][c] = stopped[n][c] /\ ~HasFree(c)]
      BY <2>2 DEF XmitRecheck
    <3>2. (stopped[n][c] /\ ~HasFree(c)) \in BOOLEAN
      OBVIOUS
    <3> QED BY <2>1, <3>1, <3>2, OneQueue
  <2>3. CASE XmitStop(n, c)
    <3>1. stopped' = [stopped EXCEPT ![n][c] = TRUE]
      BY <2>3 DEF XmitStop
    <3> QED BY <2>1, <3>1, OneQueue
  <2>4. CASE XmitQueued(n, c) \/ XmitFails(n, c) \/ XmitCheck(n, c)
    BY <2>1, <2>4 DEF XmitQueued, XmitFails, XmitCheck
  <2> QED BY <2>2, <2>3, <2>4 DEF XmitSteps
<1>4. HandsInv'
  BY <1>1 DEF IInv, HandsInv
<1>5. CASE XmitQueued(n, c)
  <2>1. /\ queue' \in [Chans -> Seq(Netdevs)] /\ free' \in 0..PoolSize
        /\ PoolCounted' /\ SharesKept'
    BY <1>1, <1>5, LinkKeepsCount DEF XmitQueued
  <2> QED BY <1>1, <1>2, <1>3, <1>4, <2>1 DEF IInv, TypeOK
<1>6. CASE ~XmitQueued(n, c)
  <2>1. queue' = queue /\ free' = free
    BY <1>6 DEF XmitFails, XmitSteps, XmitCheck, XmitStop, XmitRecheck
  <2>2. Freeing' = Freeing
    BY <1>1 DEF Freeing
  <2>3. PoolCounted'
    BY <2>1, <2>2, SameCount DEF IInv
  <2>4. SharesKept'
    BY <2>1 DEF IInv, SharesKept
  <2> QED BY <1>1, <1>2, <1>3, <1>4, <2>1, <2>3, <2>4 DEF IInv, TypeOK
<1> QED BY <1>5, <1>6

\* Link changes touch no descriptor, and an XDP frame takes one.
LEMMA NetdevIInv ==
  ASSUME IInv, NEW n \in Netdevs, XdpXmit(n) \/ LinkUp(n) \/ LinkDown(n)
  PROVE  IInv'
<1>1. rec' = rec /\ state' = state /\ xmit' = xmit /\ XdpChan \in Chans
  BY ConstantsAssumption DEF XdpXmit, LinkUp, LinkDown
<1>2. /\ link' \in [Netdevs -> BOOLEAN]
      /\ stopped' \in [Netdevs -> [Chans -> BOOLEAN]]
  <2>1. \A v \in BOOLEAN : [c \in Chans |-> v] \in [Chans -> BOOLEAN]
    OBVIOUS
  <2>2. /\ link \in [Netdevs -> BOOLEAN]
        /\ stopped \in [Netdevs -> [Chans -> BOOLEAN]]
    BY DEF IInv, TypeOK
  <2>3. CASE XdpXmit(n)
    BY <2>2, <2>3 DEF XdpXmit
  <2>4. CASE LinkUp(n)
    BY <2>1, <2>2, <2>4 DEF LinkUp
  <2>5. CASE LinkDown(n)
    BY <2>1, <2>2, <2>5 DEF LinkDown
  <2> QED BY <2>3, <2>4, <2>5
<1>3. HandsInv'
  BY <1>1 DEF IInv, HandsInv
<1>4. CASE XdpXmit(n)
  <2>1. /\ queue' \in [Chans -> Seq(Netdevs)] /\ free' \in 0..PoolSize
        /\ PoolCounted' /\ SharesKept'
    BY <1>1, <1>4, LinkKeepsCount DEF XdpXmit
  <2> QED BY <1>1, <1>2, <1>3, <2>1 DEF IInv, TypeOK
<1>5. CASE LinkUp(n) \/ LinkDown(n)
  <2>1. queue' = queue /\ free' = free
    BY <1>5 DEF LinkUp, LinkDown
  <2>2. Freeing' = Freeing
    BY <1>1 DEF Freeing
  <2>3. PoolCounted'
    BY <2>1, <2>2, SameCount DEF IInv
  <2>4. SharesKept'
    BY <2>1 DEF IInv, SharesKept
  <2> QED BY <1>1, <1>2, <1>3, <2>1, <2>3, <2>4 DEF IInv, TypeOK
<1> QED BY <1>4, <1>5

\* A packet leaves its queue for the hands of a reclaimer that had none.
LEMMA UnlinkIInv ==
  ASSUME IInv, NEW r \in Reclaimers, NEW c \in Chans, Unlink(r, c),
         rec[r].pc \in {"idle", "drain"}
  PROVE  IInv'
<1> DEFINE new == [rec[r] EXCEPT !.pc = "free", !.ch = c, !.pkt = Head(queue[c])]
<1>1. /\ queue[c] # <<>> /\ queue' = [queue EXCEPT ![c] = Tail(@)]
      /\ link' = link /\ stopped' = stopped /\ state' = state /\ free' = free /\ xmit' = xmit
  BY DEF Unlink
<1>2. /\ queue' \in [Chans -> Seq(Netdevs)] /\ Head(queue[c]) \in Netdevs
      /\ Len(queue[c]) \in Nat \ {0} /\ Len(queue'[c]) = Len(queue[c]) - 1
      /\ \A e \in Chans \ {c} : queue'[e] = queue[e]
      /\ Linked' = Linked \ {<<c, Len(queue[c])>>} /\ <<c, Len(queue[c])>> \in Linked
  BY <1>1, Shorter DEF IInv
<1>3. rec[r] \in RecRecord /\ TypeOK
  BY DEF IInv, TypeOK
<1>4. /\ new \in RecRecord /\ new.pc = "free" /\ new.ch = c /\ new.pkt = Head(queue[c])
  BY <1>2, <1>3 DEF RecRecord
<1>5. rec' = [rec EXCEPT ![r] = new]
  BY DEF Unlink
<1>6. /\ rec' \in [Reclaimers -> RecRecord] /\ rec'[r] = new
      /\ \A s \in Reclaimers \ {r} : rec'[s] = rec[s]
  BY <1>3, <1>4, <1>5, RecSteps
<1> HIDE DEF new
<1>7. Freeing' = Freeing \cup {r} /\ r \notin Freeing
  BY <1>4, <1>6 DEF Freeing
<1>8. IsFiniteSet(Linked) /\ IsFiniteSet(Freeing)
  BY DEF IInv, PoolCounted
<1>9. IsFiniteSet(Linked') /\ Cardinality(Linked') = Cardinality(Linked) - 1
  <2>1. /\ IsFiniteSet(Linked \ {<<c, Len(queue[c])>>})
        /\ Cardinality(Linked \ {<<c, Len(queue[c])>>}) =
             IF <<c, Len(queue[c])>> \in Linked THEN Cardinality(Linked) - 1 ELSE Cardinality(Linked)
    BY <1>8, FS_RemoveElement
  <2>2. Linked' = Linked \ {<<c, Len(queue[c])>>} /\ <<c, Len(queue[c])>> \in Linked
    BY <1>2
  <2> QED BY <2>1, <2>2
<1>10. IsFiniteSet(Freeing') /\ Cardinality(Freeing') = Cardinality(Freeing) + 1
  BY <1>7, <1>8, FS_AddElement
<1>11. PoolCounted'
  <2>1. Cardinality(Linked) \in Nat /\ Cardinality(Freeing) \in Nat /\ free \in Nat
    BY <1>8, FS_CardinalityType, ConstantsAssumption DEF IInv, TypeOK
  <2> QED BY <1>1, <1>9, <1>10, <2>1 DEF IInv, PoolCounted
<1>12. SharesKept'
  <2>1. ASSUME NEW e \in Chans PROVE Len(queue'[e]) <= DescNum[e]
    <3>1. DescNum[e] \in Nat /\ Len(queue[e]) <= DescNum[e]
      BY ConstantsAssumption DEF IInv, SharesKept
    <3> QED BY <1>2, <3>1
  <2> QED BY <2>1 DEF SharesKept
<1>13. HandsInv'
  BY <1>2, <1>4, <1>6 DEF IInv, HandsInv
<1> QED BY <1>1, <1>2, <1>3, <1>6, <1>11, <1>12, <1>13 DEF IInv, TypeOK

\* Its descriptor returns to the pool.
LEMMA FreeIInv ==
  ASSUME IInv, NEW r \in Reclaimers, FreeDesc(r)
  PROVE  IInv'
<1> DEFINE new == [rec[r] EXCEPT !.pc = "call"]
<1>1. /\ rec[r].pc = "free" /\ free' = free + 1 /\ rec' = [rec EXCEPT ![r] = new]
      /\ link' = link /\ stopped' = stopped /\ state' = state /\ queue' = queue /\ xmit' = xmit
  BY DEF FreeDesc
<1>2. rec[r] \in RecRecord /\ TypeOK
  BY DEF IInv, TypeOK
<1>3. new \in RecRecord /\ new.pc = "call" /\ new.ch = rec[r].ch /\ new.pkt = rec[r].pkt
  BY <1>2 DEF RecRecord
<1>4. /\ rec' \in [Reclaimers -> RecRecord] /\ rec'[r] = new
      /\ \A s \in Reclaimers \ {r} : rec'[s] = rec[s]
  BY <1>1, <1>2, <1>3, RecSteps
<1> HIDE DEF new
<1>5. Freeing' = Freeing \ {r} /\ r \in Freeing
  BY <1>1, <1>3, <1>4 DEF Freeing
<1>6. IsFiniteSet(Linked) /\ IsFiniteSet(Freeing) /\ Linked' = Linked
  BY <1>1 DEF IInv, PoolCounted, Linked
<1>7. IsFiniteSet(Freeing') /\ Cardinality(Freeing') = Cardinality(Freeing) - 1
  BY <1>5, <1>6, FS_RemoveElement
<1>8. Cardinality(Linked) \in Nat /\ Cardinality(Freeing) \in Nat /\ Cardinality(Freeing') \in Nat
      /\ free \in Nat /\ PoolSize \in Nat
  BY <1>6, <1>7, FS_CardinalityType, ConstantsAssumption DEF IInv, TypeOK
<1>9. PoolCounted' /\ free' \in 0..PoolSize
  BY <1>1, <1>6, <1>7, <1>8 DEF IInv, PoolCounted
<1>10. SharesKept'
  BY <1>1 DEF IInv, SharesKept
<1>11. HandsInv'
  BY <1>1, <1>3, <1>4 DEF IInv, HandsInv
<1> QED BY <1>1, <1>2, <1>4, <1>9, <1>10, <1>11 DEF IInv, TypeOK

\* The other steps of reclaimers leave the descriptors where they are.
LEMMA HandsIInv ==
  ASSUME IInv, NEW r \in Reclaimers, NEW new \in RecRecord,
         rec' = [rec EXCEPT ![r] = new],
         queue' = queue, free' = free, link' = link, xmit' = xmit,
         stopped' \in [Netdevs -> [Chans -> BOOLEAN]],
         state' \in [Chans -> {"IDLE", "ACTIVE", "TEARDOWN"}],
         rec[r].pc # "free",
         new.pc \in {"idle", "timeout", "drain", "start"}, new.pkt = NULL,
         new.pc \in {"drain", "start"} => new.ch \in Chans,
         r = Napi => new.pc = "idle"
  PROVE  IInv'
<1>1. /\ rec' \in [Reclaimers -> RecRecord] /\ rec'[r] = new
      /\ \A s \in Reclaimers \ {r} : rec'[s] = rec[s]
  BY RecSteps DEF IInv
<1>2. Freeing' = Freeing
  BY <1>1, StillFreeing
<1>3. PoolCounted'
  BY <1>2, SameCount DEF IInv
<1>4. SharesKept'
  BY DEF IInv, SharesKept
<1>5. HandsInv'
  BY <1>1 DEF IInv, HandsInv
<1> QED BY <1>1, <1>3, <1>4, <1>5 DEF IInv, TypeOK

\* cpsw_tx_handler leaves the reclaimer with no packet.
LEMMA HandlerIInv ==
  ASSUME IInv, NEW r \in Reclaimers, TxHandler(r)
  PROVE  IInv'
<1> DEFINE new == [rec[r] EXCEPT !.pc = IF r = Napi THEN "idle" ELSE "drain",
                                 !.ch = IF r = Napi THEN NULL ELSE @,
                                 !.pkt = NULL]
<1>1. /\ rec[r].pc = "call" /\ rec' = [rec EXCEPT ![r] = new]
      /\ stopped' = [stopped EXCEPT ![rec[r].pkt][rec[r].ch] = FALSE]
      /\ link' = link /\ state' = state /\ queue' = queue /\ free' = free /\ xmit' = xmit
  BY DEF TxHandler
<1>2. rec[r] \in RecRecord /\ rec[r].pkt \in Netdevs /\ rec[r].ch \in Chans
  BY <1>1 DEF IInv, TypeOK, HandsInv
<1>3. /\ new \in RecRecord /\ new.pkt = NULL /\ new.pc = (IF r = Napi THEN "idle" ELSE "drain")
      /\ r # Napi => new.ch = rec[r].ch
  BY <1>2 DEF RecRecord
<1>4. stopped' \in [Netdevs -> [Chans -> BOOLEAN]]
  <2>1. stopped \in [Netdevs -> [Chans -> BOOLEAN]]
    BY DEF IInv, TypeOK
  <2> QED BY <1>1, <1>2, <2>1, OneQueue
<1>5. state' \in [Chans -> {"IDLE", "ACTIVE", "TEARDOWN"}]
  BY <1>1 DEF IInv, TypeOK
<1> HIDE DEF new
<1> QED BY <1>1, <1>2, <1>3, <1>4, <1>5, HandsIInv

\* The watchdog's other steps.
LEMMA WatchdogIInv ==
  ASSUME IInv, NEW n \in Netdevs, NEW c \in Chans,
         TxTimeout(n) \/ ChanStop(n, c) \/ ChanStopEnd(n) \/ ChanStart(n) \/ WakeAll(n)
  PROVE  IInv'
<1>1. n \in Reclaimers /\ n # Napi /\ rec[n] \in RecRecord /\ rec \in [Reclaimers -> RecRecord]
  BY ConstantsAssumption DEF Reclaimers, IInv, TypeOK
<1>2. /\ stopped \in [Netdevs -> [Chans -> BOOLEAN]]
      /\ state \in [Chans -> {"IDLE", "ACTIVE", "TEARDOWN"}]
  BY DEF IInv, TypeOK
<1>3. queue' = queue /\ free' = free /\ link' = link /\ xmit' = xmit
  BY DEF TxTimeout, ChanStop, ChanStopEnd, ChanStart, WakeAll
<1>4. CASE TxTimeout(n)
  <2> DEFINE new == [rec[n] EXCEPT !.pc = "timeout", !.todo = Chans]
  <2>1. rec' = [rec EXCEPT ![n] = new] /\ rec[n].pc = "idle" /\ stopped' = stopped /\ state' = state
    BY <1>4 DEF TxTimeout
  <2>2. new \in RecRecord /\ new.pc = "timeout" /\ new.pkt = NULL
    BY <1>1, <2>1 DEF RecRecord, IInv, HandsInv
  <2> HIDE DEF new
  <2> QED BY <1>1, <1>2, <1>3, <2>1, <2>2, HandsIInv
<1>5. CASE ChanStop(n, c)
  <2> DEFINE new == [rec[n] EXCEPT !.pc = IF state[c] = "TEARDOWN" THEN "start" ELSE "drain",
                                   !.ch = c, !.todo = @ \ {c}]
  <2>1. /\ rec' = [rec EXCEPT ![n] = new] /\ rec[n].pc = "timeout" /\ stopped' = stopped
        /\ state' = [state EXCEPT ![c] = "TEARDOWN"]
    BY <1>5 DEF ChanStop
  <2>2. new \in RecRecord /\ new.pc \in {"start", "drain"} /\ new.ch = c /\ new.pkt = NULL
    BY <1>1, <2>1 DEF RecRecord, IInv, HandsInv
  <2>3. state' \in [Chans -> {"IDLE", "ACTIVE", "TEARDOWN"}]
    BY <1>2, <2>1
  <2> HIDE DEF new
  <2> QED BY <1>1, <1>2, <1>3, <2>1, <2>2, <2>3, HandsIInv
<1>6. CASE ChanStopEnd(n)
  <2> DEFINE new == [rec[n] EXCEPT !.pc = "start"]
  <2>1. /\ rec' = [rec EXCEPT ![n] = new] /\ rec[n].pc = "drain" /\ stopped' = stopped
        /\ state' = [state EXCEPT ![rec[n].ch] = "IDLE"]
    BY <1>6 DEF ChanStopEnd
  <2>2. rec[n].ch \in Chans
    BY <1>1, <2>1 DEF IInv, HandsInv
  <2>3. new \in RecRecord /\ new.pc = "start" /\ new.ch = rec[n].ch /\ new.pkt = NULL
    BY <1>1, <2>1 DEF RecRecord, IInv, HandsInv
  <2>4. state' \in [Chans -> {"IDLE", "ACTIVE", "TEARDOWN"}]
    BY <1>2, <2>1, <2>2
  <2> HIDE DEF new
  <2> QED BY <1>1, <1>2, <1>3, <2>1, <2>2, <2>3, <2>4, HandsIInv
<1>7. CASE ChanStart(n)
  <2> DEFINE new == [rec[n] EXCEPT !.pc = "timeout", !.ch = NULL]
  <2>1. /\ rec' = [rec EXCEPT ![n] = new] /\ rec[n].pc = "start" /\ stopped' = stopped
        /\ state' = [state EXCEPT ![rec[n].ch] = IF @ = "IDLE" THEN "ACTIVE" ELSE @]
    BY <1>7 DEF ChanStart
  <2>2. rec[n].ch \in Chans
    BY <1>1, <2>1 DEF IInv, HandsInv
  <2>3. new \in RecRecord /\ new.pc = "timeout" /\ new.pkt = NULL
    BY <1>1, <2>1 DEF RecRecord, IInv, HandsInv
  <2>4. state' \in [Chans -> {"IDLE", "ACTIVE", "TEARDOWN"}]
    BY <1>2, <2>1, <2>2
  <2> HIDE DEF new
  <2> QED BY <1>1, <1>2, <1>3, <2>1, <2>3, <2>4, HandsIInv
<1>8. CASE WakeAll(n)
  <2> DEFINE new == [rec[n] EXCEPT !.pc = "idle"]
  <2>1. /\ rec' = [rec EXCEPT ![n] = new] /\ rec[n].pc = "timeout" /\ state' = state
        /\ stopped' = [stopped EXCEPT ![n] = [e \in Chans |-> FALSE]]
    BY <1>8 DEF WakeAll
  <2>2. new \in RecRecord /\ new.pc = "idle" /\ new.pkt = NULL
    BY <1>1, <2>1 DEF RecRecord, IInv, HandsInv
  <2>3. [e \in Chans |-> FALSE] \in [Chans -> BOOLEAN]
    OBVIOUS
  <2>4. stopped' \in [Netdevs -> [Chans -> BOOLEAN]]
    BY <1>2, <2>1, <2>3
  <2> HIDE DEF new
  <2> QED BY <1>1, <1>2, <1>3, <2>1, <2>2, <2>4, HandsIInv
<1> QED BY <1>4, <1>5, <1>6, <1>7, <1>8
-----------------------------------------------------------------------------
(* Every channel is empty at first.                                        *)
LEMMA InitIInv == ASSUME Init PROVE IInv
<1>1. Linked = {} /\ Freeing = {}
  BY DEF Init, Linked, Freeing
<1>2. IsFiniteSet({}) /\ Cardinality({}) = 0
  BY FS_EmptySet
<1>3. free = PoolSize /\ PoolSize \in Nat
  BY ConstantsAssumption DEF Init
<1>4. PoolCounted
  BY <1>1, <1>2, <1>3 DEF PoolCounted
<1>5. SharesKept
  BY ConstantsAssumption DEF Init, SharesKept
<1>6. HandsInv
  BY DEF Init, HandsInv
<1>7. TypeOK
  <2>1. [pc |-> "idle", ch |-> NULL, pkt |-> NULL, todo |-> {}] \in RecRecord
    BY DEF RecRecord
  <2>2. rec \in [Reclaimers -> RecRecord]
    BY <2>1 DEF Init
  <2>3. queue \in [Chans -> Seq(Netdevs)]
    BY DEF Init
  <2>4. free \in 0..PoolSize
    BY <1>3
  <2>5. link \in [Netdevs -> BOOLEAN] /\ stopped \in [Netdevs -> [Chans -> BOOLEAN]]
    BY DEF Init
  <2>6. /\ state \in [Chans -> {"IDLE", "ACTIVE", "TEARDOWN"}]
        /\ xmit \in [Netdevs -> [Chans -> {"idle", "check", "stop", "recheck"}]]
    BY DEF Init
  <2> QED BY <2>2, <2>3, <2>4, <2>5, <2>6 DEF TypeOK
<1> QED BY <1>4, <1>5, <1>6, <1>7 DEF IInv

\* The steps of Next, one kind at a time.
LEMMA NextCases ==
  ASSUME IInv, Next
  PROVE  \/ \E n \in Netdevs, c \in Chans :
              XmitQueued(n, c) \/ XmitFails(n, c) \/ XmitSteps(n, c)
         \/ \E n \in Netdevs : XdpXmit(n) \/ LinkUp(n) \/ LinkDown(n)
         \/ \E r \in Reclaimers, c \in Chans :
              Unlink(r, c) /\ rec[r].pc = (IF r = Napi THEN "idle" ELSE "drain")
         \/ \E r \in Reclaimers : FreeDesc(r) \/ TxHandler(r)
         \/ \E n \in Netdevs, c \in Chans :
              TxTimeout(n) \/ ChanStop(n, c) \/ ChanStopEnd(n) \/ ChanStart(n) \/ WakeAll(n)
<1>1. XdpChan \in Chans /\ Napi \in Reclaimers
  BY ConstantsAssumption DEF Reclaimers
<1>2. ASSUME NEW c \in Chans, NapiProcess(c)
      PROVE  Unlink(Napi, c) /\ rec[Napi].pc = "idle"
  BY <1>2 DEF NapiProcess
<1>3. ASSUME NEW n \in Netdevs, ChanDrain(n)
      PROVE  /\ n \in Reclaimers /\ n # Napi /\ rec[n].ch \in Chans
             /\ Unlink(n, rec[n].ch) /\ rec[n].pc = "drain"
  BY <1>3, ConstantsAssumption DEF ChanDrain, Reclaimers, IInv, HandsInv
<1>4. CASE \E n \in Netdevs, c \in Chans :
             XmitQueued(n, c) \/ XmitFails(n, c) \/ XmitSteps(n, c)
  BY <1>4
<1>5. CASE \E n \in Netdevs : XdpXmit(n) \/ TxTimeout(n) \/ TimeoutSteps(n) \/ LinkUp(n) \/ LinkDown(n)
  <2>1. PICK n \in Netdevs : XdpXmit(n) \/ TxTimeout(n) \/ TimeoutSteps(n) \/ LinkUp(n) \/ LinkDown(n)
    BY <1>5
  <2>2. CASE XdpXmit(n) \/ LinkUp(n) \/ LinkDown(n)
    BY <2>2
  <2>3. CASE ChanDrain(n)
    BY <1>3, <2>3
  <2>4. CASE TxTimeout(n) \/ ChanStopEnd(n) \/ ChanStart(n) \/ WakeAll(n)
    BY <1>1, <2>4
  <2>5. CASE \E c \in Chans : ChanStop(n, c)
    BY <2>5
  <2> QED BY <2>1, <2>2, <2>3, <2>4, <2>5 DEF TimeoutSteps
<1>6. CASE \E c \in Chans : NapiProcess(c)
  BY <1>1, <1>2, <1>6
<1>7. CASE \E r \in Reclaimers : CompleteSteps(r)
  BY <1>7 DEF CompleteSteps
<1> QED BY <1>4, <1>5, <1>6, <1>7 DEF Next

\* Every step keeps the inductive invariant.
LEMMA NextIInv == ASSUME IInv, [Next]_vars PROVE IInv'
<1>1. CASE Next
  <2>1. CASE \E n \in Netdevs, c \in Chans :
               XmitQueued(n, c) \/ XmitFails(n, c) \/ XmitSteps(n, c)
    BY <2>1, XmitIInv
  <2>2. CASE \E n \in Netdevs : XdpXmit(n) \/ LinkUp(n) \/ LinkDown(n)
    BY <2>2, NetdevIInv
  <2>3. CASE \E r \in Reclaimers, c \in Chans :
               Unlink(r, c) /\ rec[r].pc = (IF r = Napi THEN "idle" ELSE "drain")
    BY <2>3, UnlinkIInv
  <2>4. CASE \E r \in Reclaimers : FreeDesc(r) \/ TxHandler(r)
    BY <2>4, FreeIInv, HandlerIInv
  <2>5. CASE \E n \in Netdevs, c \in Chans :
               TxTimeout(n) \/ ChanStop(n, c) \/ ChanStopEnd(n) \/ ChanStart(n) \/ WakeAll(n)
    BY <2>5, WatchdogIInv
  <2> QED BY <1>1, <2>1, <2>2, <2>3, <2>4, <2>5, NextCases
<1>2. CASE UNCHANGED vars
  <2>1. Freeing' = Freeing /\ Linked' = Linked
    BY <1>2 DEF vars, Freeing, Linked
  <2> QED BY <1>2, <2>1 DEF vars, IInv, TypeOK, PoolCounted, SharesKept, HandsInv
<1> QED BY <1>1, <1>2

\* The invariant holds in every reachable state.
THEOREM Invariance == Spec => []IInv
<1> QED BY InitIInv, NextIInv, PTL DEF Spec

\* The state is well typed: the pool never has more descriptors than there are, and
\* never less than none.
THEOREM TypeCorrect == Spec => []TypeOK
<1>1. IInv => TypeOK
  BY DEF IInv
<1> QED BY <1>1, Invariance, PTL

\* Whatever transmitters, XDP, handlers and watchdogs do at once, no descriptor is lost or
\* counted twice, and no channel has more linked than its share.
THEOREM DescriptorsAddUp == Spec => [](PoolCounted /\ SharesKept)
<1>1. IInv => PoolCounted /\ SharesKept
  BY DEF IInv
<1> QED BY <1>1, Invariance, PTL
-----------------------------------------------------------------------------
(* A single netdev.                                                        *)

\* The descriptors that the channels but c can have linked.
OthersShare(c) == {p \in Chans \X Nat : p[1] # c /\ p[2] \in 1..DescNum[p[1]]}

\* One netdev, and two descriptors left for each channel when the others have
\* linked their shares: one may be unlinked and not yet free.
SingleEmac ==
  /\ \E n \in Netdevs : Netdevs = {n}
  /\ \A c \in Chans : /\ DescNum[c] > 0
                      /\ IsFiniteSet(OthersShare(c))
                      /\ Cardinality(OthersShare(c)) + 2 <= PoolSize

\* A channel of a single netdev that has no descriptor left has linked a packet,
\* unless the watchdog is at work.
LEMMA FullHasPacket ==
  ASSUME SingleEmac, IInv, NEW n \in Netdevs, NEW c \in Chans, ~HasFree(c), rec[n].pc = "idle"
  PROVE  queue[c] # <<>>
<1> SUFFICES ASSUME queue[c] = <<>> PROVE FALSE
  OBVIOUS
<1>1. free = 0 /\ DescNum[c] > 0
  BY ConstantsAssumption DEF HasFree, SingleEmac, IInv, TypeOK
<1>2. Linked \subseteq OthersShare(c)
  <2> SUFFICES ASSUME NEW p \in Linked PROVE p \in OthersShare(c)
    OBVIOUS
  <2>1. p \in Chans \X Nat /\ p[1] \in Chans /\ p[2] \in 1..Len(queue[p[1]])
    BY DEF Linked
  <2>2. p[1] # c
    BY <2>1
  <2>3. Len(queue[p[1]]) \in Nat /\ Len(queue[p[1]]) <= DescNum[p[1]] /\ DescNum[p[1]] \in Nat
    BY <2>1, ConstantsAssumption DEF IInv, TypeOK, SharesKept
  <2>4. p[2] \in 1..DescNum[p[1]]
    BY <2>1, <2>3
  <2> QED BY <2>1, <2>2, <2>4 DEF OthersShare
<1>3. Cardinality(Linked) <= Cardinality(OthersShare(c))
  BY <1>2, FS_Subset DEF SingleEmac
<1>4. Freeing \subseteq {Napi}
  BY DEF Freeing, Reclaimers, SingleEmac
<1>5. Cardinality(Freeing) <= 1
  <2>1. IsFiniteSet({Napi}) /\ Cardinality({Napi}) = 1
    BY FS_Singleton
  <2> QED BY <1>4, <2>1, FS_Subset
<1>6. /\ Cardinality(Linked) \in Nat /\ Cardinality(Freeing) \in Nat
      /\ Cardinality(OthersShare(c)) \in Nat /\ PoolSize \in Nat
  BY FS_CardinalityType, ConstantsAssumption DEF IInv, PoolCounted, SingleEmac
<1>7. free + Cardinality(Linked) + Cardinality(Freeing) = PoolSize
      /\ Cardinality(OthersShare(c)) + 2 <= PoolSize
  BY DEF IInv, PoolCounted, SingleEmac
<1> QED BY <1>1, <1>3, <1>5, <1>6, <1>7

\* What every state owes to queue c of netdev n.
Woken(n, c) ==
  link[n] /\ stopped[n][c] => HasWaker(n, c) \/ xmit[n][c] = "recheck" \/ rec[n].pc # "idle"

\* A step that neither stops the queue nor touches its packets.
LEMMA StillWoken ==
  ASSUME NEW n \in Netdevs, NEW c \in Chans, Woken(n, c),
         queue'[c] = queue[c], rec' = rec,
         link'[n] => link[n], stopped'[n][c] => stopped[n][c],
         xmit[n][c] = "recheck" => xmit'[n][c] = "recheck"
  PROVE  Woken(n, c)'
BY DEF Woken, HasWaker

\* The transmitter stops its queue, and starts it again if there is a descriptor.
LEMMA XmitWoken ==
  ASSUME SingleEmac, IInv, NEW n \in Netdevs, NEW c \in Chans, Woken(n, c), NEW e \in Chans,
         XmitQueued(n, e) \/ XmitFails(n, e) \/ XmitSteps(n, e)
  PROVE  Woken(n, c)'
<1>1. /\ stopped \in [Netdevs -> [Chans -> BOOLEAN]]
      /\ xmit \in [Netdevs -> [Chans -> {"idle", "check", "stop", "recheck"}]]
      /\ queue \in [Chans -> Seq(Netdevs)] /\ TypeOK
  BY DEF IInv, TypeOK
<1>2. rec' = rec /\ link' = link
  BY DEF XmitQueued, XmitFails, XmitSteps, XmitCheck, XmitStop, XmitRecheck
<1>3. CASE XmitQueued(n, e)
  <2>1. queue' = [queue EXCEPT ![e] = Append(@, n)] /\ stopped' = stopped
        /\ xmit' = [xmit EXCEPT ![n][e] = "check"] /\ xmit[n][e] = "idle"
    BY <1>3 DEF XmitQueued, Link, MayXmit
  <2>2. CASE e = c
    <3>1. queue'[c] = Append(queue[c], n) /\ queue[c] \in Seq(Netdevs)
      BY <1>1, <2>1, <2>2
    <3>2. Len(queue[c]) + 1 \in 1..Len(queue'[c]) /\ queue'[c][Len(queue[c]) + 1] = n
      BY <3>1
    <3> QED BY <3>2 DEF Woken, HasWaker
  <2>3. CASE e # c
    <3>1. queue'[c] = queue[c] /\ xmit'[n][c] = xmit[n][c]
      BY <1>1, <2>1, <2>3, OneQueue
    <3> QED BY <1>2, <2>1, <3>1, StillWoken
  <2> QED BY <2>2, <2>3
<1>4. CASE XmitFails(n, e) \/ XmitCheck(n, e)
  <2>1. PICK v \in {"idle", "stop"} : xmit' = [xmit EXCEPT ![n][e] = v]
    BY <1>4 DEF XmitFails, XmitCheck
  <2>2. queue' = queue /\ stopped' = stopped /\ xmit[n][e] # "recheck"
    BY <1>4 DEF XmitFails, XmitCheck, MayXmit
  <2>3. e # c => xmit'[n][c] = xmit[n][c]
    BY <1>1, <2>1, OneQueue
  <2> QED BY <1>2, <2>2, <2>3, StillWoken
<1>5. CASE XmitStop(n, e)
  <2>1. /\ queue' = queue /\ stopped' = [stopped EXCEPT ![n][e] = TRUE]
        /\ xmit' = [xmit EXCEPT ![n][e] = "recheck"]
    BY <1>5 DEF XmitStop
  <2>2. CASE e = c
    <3>1. xmit'[n][c] = "recheck"
      BY <1>1, <2>1, <2>2, OneQueue
    <3> QED BY <3>1 DEF Woken
  <2>3. CASE e # c
    <3>1. xmit'[n][c] = xmit[n][c]
      BY <1>1, <2>1, <2>3, OneQueue
    <3>2. stopped'[n][c] = stopped[n][c]
      BY <1>1, <2>1, <2>3, QueueStops
    <3> QED BY <1>2, <2>1, <3>1, <3>2, StillWoken
  <2> QED BY <2>2, <2>3
<1>6. CASE XmitRecheck(n, e)
  <2>1. /\ queue' = queue /\ stopped' = [stopped EXCEPT ![n][e] = stopped[n][e] /\ ~HasFree(e)]
        /\ xmit' = [xmit EXCEPT ![n][e] = "idle"]
    BY <1>6 DEF XmitRecheck
  <2>2. (stopped[n][e] /\ ~HasFree(e)) \in BOOLEAN
    OBVIOUS
  <2>3. CASE e = c
    <3> SUFFICES ASSUME stopped'[n][c], rec[n].pc = "idle" PROVE HasWaker(n, c)'
      BY <1>2 DEF Woken
    <3>1. ~HasFree(c)
      <4>1. stopped'[n][c] = (stopped[n][c] /\ ~HasFree(c))
        BY <1>1, <2>1, <2>2, <2>3, QueueStops
      <4> QED BY <4>1
    <3>2. queue[c] # <<>> /\ queue[c] \in Seq(Netdevs)
      BY <1>1, <3>1, FullHasPacket
    <3>3. 1 \in 1..Len(queue[c]) /\ queue[c][1] \in Netdevs
      BY <3>2
    <3>4. queue[c][1] = n
      BY <3>3 DEF SingleEmac
    <3> QED BY <2>1, <3>3, <3>4 DEF HasWaker
  <2>4. CASE e # c
    <3>1. xmit'[n][c] = xmit[n][c] /\ stopped'[n][c] = stopped[n][c]
      BY <1>1, <2>1, <2>2, <2>4, OneQueue
    <3> QED BY <1>2, <2>1, <3>1, StillWoken
  <2> QED BY <2>3, <2>4
<1> QED BY <1>3, <1>4, <1>5, <1>6 DEF XmitSteps

\* A change of the link wakes the queue or excuses it, and an XDP frame only adds a packet.
LEMMA NetdevWoken ==
  ASSUME SingleEmac, IInv, NEW n \in Netdevs, NEW c \in Chans, Woken(n, c),
         XdpXmit(n) \/ LinkUp(n) \/ LinkDown(n)
  PROVE  Woken(n, c)'
<1>1. /\ stopped \in [Netdevs -> [Chans -> BOOLEAN]] /\ link \in [Netdevs -> BOOLEAN]
      /\ queue \in [Chans -> Seq(Netdevs)]
  BY DEF IInv, TypeOK
<1>2. CASE XdpXmit(n)
  <2>1. /\ queue' = [queue EXCEPT ![XdpChan] = Append(@, n)]
        /\ rec' = rec /\ link' = link /\ stopped' = stopped /\ xmit' = xmit
    BY <1>2 DEF XdpXmit, Link
  <2>2. CASE XdpChan = c
    <3>1. queue'[c] = Append(queue[c], n) /\ queue[c] \in Seq(Netdevs)
      BY <1>1, <2>1, <2>2
    <3>2. Len(queue[c]) + 1 \in 1..Len(queue'[c]) /\ queue'[c][Len(queue[c]) + 1] = n
      BY <3>1
    <3> QED BY <3>2 DEF Woken, HasWaker
  <2>3. CASE XdpChan # c
    BY <1>1, <2>1, <2>3, StillWoken
  <2> QED BY <2>2, <2>3
<1>3. CASE LinkUp(n)
  BY <1>1, <1>3 DEF LinkUp, Woken
<1>4. CASE LinkDown(n)
  BY <1>1, <1>4 DEF LinkDown, Woken
<1> QED BY <1>2, <1>3, <1>4

\* An unlinked packet is in the reclaimer's hands.
LEMMA UnlinkWoken ==
  ASSUME SingleEmac, IInv, NEW n \in Netdevs, NEW c \in Chans, Woken(n, c),
         NEW r \in Reclaimers, NEW e \in Chans, Unlink(r, e),
         rec[r].pc = (IF r = Napi THEN "idle" ELSE "drain")
  PROVE  Woken(n, c)'
<1> DEFINE new == [rec[r] EXCEPT !.pc = "free", !.ch = e, !.pkt = Head(queue[e])]
<1>1. /\ queue[e] # <<>> /\ queue' = [queue EXCEPT ![e] = Tail(@)]
      /\ rec' = [rec EXCEPT ![r] = new]
      /\ link' = link /\ stopped' = stopped /\ xmit' = xmit /\ TypeOK
  BY DEF Unlink, IInv
<1>2. /\ Len(queue[e]) \in Nat \ {0} /\ Len(queue'[e]) = Len(queue[e]) - 1
      /\ Head(queue[e]) \in Netdevs
      /\ \A i \in 1..(Len(queue[e]) - 1) : queue'[e][i] = queue[e][i + 1]
      /\ \A d \in Chans \ {e} : queue'[d] = queue[d]
  BY <1>1, Shorter
<1>3. new.pc = "free" /\ new.ch = e /\ new.pkt = Head(queue[e]) /\ new \in RecRecord
  <2>1. rec[r] \in RecRecord
    BY <1>1 DEF TypeOK
  <2> QED BY <1>2, <2>1 DEF RecRecord
<1> HIDE DEF new
<1>4. rec'[r] = new /\ \A s \in Reclaimers \ {r} : rec'[s] = rec[s]
  BY <1>1, <1>3, RecSteps
<1>5. n \in Reclaimers /\ n # NULL
  BY ConstantsAssumption DEF Reclaimers
<1>6. CASE r = n
  BY <1>3, <1>4, <1>6 DEF Woken
<1>7. CASE r # n
  <2> SUFFICES ASSUME HasWaker(n, c) PROVE HasWaker(n, c)'
    BY <1>1, <1>4, <1>5, <1>7 DEF Woken
  <2>1. CASE \E i \in 1..Len(queue[c]) : queue[c][i] = n
    <3>1. PICK i \in 1..Len(queue[c]) : queue[c][i] = n
      BY <2>1
    <3>2. CASE c # e
      BY <1>2, <2>1, <3>2 DEF HasWaker
    <3>3. CASE c = e
      <4>1. Head(queue[e]) = n
        BY <1>2 DEF SingleEmac
      <4> QED BY <1>3, <1>4, <3>3, <4>1 DEF HasWaker
    <3> QED BY <3>2, <3>3
  <2>2. CASE \E s \in Reclaimers : rec[s].ch = c /\ rec[s].pkt = n
    <3>1. PICK s \in Reclaimers : rec[s].ch = c /\ rec[s].pkt = n
      BY <2>2
    <3>2. s # r
      BY <1>5, <3>1 DEF IInv, HandsInv
    <3> QED BY <1>4, <3>1, <3>2 DEF HasWaker
  <2> QED BY <2>1, <2>2 DEF HasWaker
<1> QED BY <1>6, <1>7

\* The handler of a completed packet wakes the queue that the packet came from.
LEMMA CompleteWoken ==
  ASSUME SingleEmac, IInv, NEW n \in Netdevs, NEW c \in Chans, Woken(n, c),
         NEW r \in Reclaimers, FreeDesc(r) \/ TxHandler(r)
  PROVE  Woken(n, c)'
<1>1. /\ rec[r] \in RecRecord /\ rec \in [Reclaimers -> RecRecord] /\ TypeOK
      /\ rec[r].pc \in {"free", "call"} => rec[r].pkt \in Netdevs /\ rec[r].ch \in Chans
      /\ stopped \in [Netdevs -> [Chans -> BOOLEAN]]
  BY DEF IInv, TypeOK, HandsInv
<1>2. n \in Reclaimers /\ \A m \in Netdevs : m = n
  BY DEF Reclaimers, SingleEmac
<1>3. queue' = queue /\ link' = link /\ xmit' = xmit
  BY DEF FreeDesc, TxHandler
<1>4. PICK new \in RecRecord :
         /\ rec' = [rec EXCEPT ![r] = new]
         /\ r = n => new.pc # "idle"
         /\ FreeDesc(r) => new.ch = rec[r].ch /\ new.pkt = rec[r].pkt
  <2>1. CASE FreeDesc(r)
    <3>1. [rec[r] EXCEPT !.pc = "call"] \in RecRecord
      BY <1>1 DEF RecRecord
    <3> QED BY <1>1, <2>1, <3>1 DEF FreeDesc, RecRecord
  <2>2. CASE ~FreeDesc(r)
    <3> DEFINE v == [rec[r] EXCEPT !.pc = IF r = Napi THEN "idle" ELSE "drain",
                                   !.ch = IF r = Napi THEN NULL ELSE @, !.pkt = NULL]
    <3>1. rec' = [rec EXCEPT ![r] = v]
      BY <2>2 DEF TxHandler
    <3>2. v \in RecRecord /\ v.pc = (IF r = Napi THEN "idle" ELSE "drain")
      BY <1>1 DEF RecRecord
    <3>3. n # Napi
      BY ConstantsAssumption
    <3> HIDE DEF v
    <3> QED BY <2>2, <3>1, <3>2, <3>3
  <2> QED BY <2>1, <2>2
<1>5. rec'[r] = new /\ \A s \in Reclaimers \ {r} : rec'[s] = rec[s]
  BY <1>1, <1>4, RecSteps
<1>6. CASE FreeDesc(r)
  <2>1. stopped' = stopped
    BY <1>6 DEF FreeDesc
  <2>2. HasWaker(n, c) => HasWaker(n, c)'
    BY <1>3, <1>4, <1>5, <1>6 DEF HasWaker
  <2>3. rec[n].pc # "idle" => rec'[n].pc # "idle"
    BY <1>2, <1>4, <1>5
  <2> QED BY <1>3, <2>1, <2>2, <2>3 DEF Woken
<1>7. CASE TxHandler(r)
  <2>1. rec[r].pkt = n /\ rec[r].ch \in Chans
    BY <1>1, <1>2, <1>7 DEF TxHandler
  <2>2. stopped' = [stopped EXCEPT ![n][rec[r].ch] = FALSE]
    BY <1>7, <2>1 DEF TxHandler
  <2>3. CASE rec[r].ch = c
    <3>1. ~stopped'[n][c]
      BY <1>1, <2>1, <2>2, <2>3, OneQueue
    <3> QED BY <3>1 DEF Woken
  <2>4. CASE rec[r].ch # c
    <3>1. stopped'[n][c] = stopped[n][c]
      <4>1. PICK e \in Chans : e = rec[r].ch
        BY <2>1
      <4>2. stopped' = [stopped EXCEPT ![n][e] = FALSE] /\ c \in Chans \ {e} /\ FALSE \in BOOLEAN
        BY <2>2, <2>4, <4>1
      <4> QED BY <1>1, <4>2, QueueStops
    <3>2. HasWaker(n, c) => HasWaker(n, c)'
      BY <1>3, <1>5, <2>4 DEF HasWaker
    <3>3. rec[n].pc # "idle" => rec'[n].pc # "idle"
      BY <1>2, <1>4, <1>5
    <3> QED BY <1>3, <3>1, <3>2, <3>3 DEF Woken
  <2> QED BY <2>3, <2>4
<1> QED BY <1>6, <1>7

\* The watchdog is at work until it wakes every queue.
LEMMA WatchdogWoken ==
  ASSUME IInv, NEW n \in Netdevs, NEW c \in Chans, Woken(n, c), NEW e \in Chans,
         TxTimeout(n) \/ ChanStop(n, e) \/ ChanStopEnd(n) \/ ChanStart(n) \/ WakeAll(n)
  PROVE  Woken(n, c)'
<1>1. /\ rec[n] \in RecRecord /\ rec \in [Reclaimers -> RecRecord] /\ n \in Reclaimers
      /\ stopped \in [Netdevs -> [Chans -> BOOLEAN]]
  BY DEF IInv, TypeOK, Reclaimers
<1>2. CASE WakeAll(n)
  BY <1>1, <1>2 DEF WakeAll, Woken
<1>3. CASE TxTimeout(n) \/ ChanStop(n, e) \/ ChanStopEnd(n) \/ ChanStart(n)
  <2>1. rec'[n].pc # "idle"
    BY <1>1, <1>3 DEF TxTimeout, ChanStop, ChanStopEnd, ChanStart, RecRecord
  <2> QED BY <2>1 DEF Woken
<1> QED BY <1>2, <1>3

\* A single netdev with room for all its channels: a stopped queue has a packet whose
\* completion will wake it, unless somebody is about to, in every order of stopping,
\* unlinking, freeing and completing.
THEOREM StoppedQueuesAreWoken == ASSUME SingleEmac PROVE Spec => []StoppedHasWaker
<1> DEFINE WokenInv == IInv /\ \A n \in Netdevs, c \in Chans : Woken(n, c)
<1>1. ASSUME Init PROVE WokenInv
  <2>1. \A n \in Netdevs, c \in Chans : Woken(n, c)
    BY <1>1 DEF Init, Woken
  <2> QED BY <1>1, <2>1, InitIInv
<1>2. ASSUME WokenInv, [Next]_vars PROVE WokenInv'
  <2>1. IInv'
    BY <1>2, NextIInv
  <2>2. ASSUME NEW n \in Netdevs, NEW c \in Chans PROVE Woken(n, c)'
    <3>1. Woken(n, c) /\ \A m \in Netdevs : m = n
      BY <1>2 DEF SingleEmac
    <3>2. CASE UNCHANGED vars
      BY <3>1, <3>2 DEF vars, Woken, HasWaker
    <3>3. CASE \E m \in Netdevs, e \in Chans :
                 XmitQueued(m, e) \/ XmitFails(m, e) \/ XmitSteps(m, e)
      BY <1>2, <3>1, <3>3, XmitWoken
    <3>4. CASE \E m \in Netdevs : XdpXmit(m) \/ LinkUp(m) \/ LinkDown(m)
      BY <1>2, <3>1, <3>4, NetdevWoken
    <3>5. CASE \E r \in Reclaimers, e \in Chans :
                 Unlink(r, e) /\ rec[r].pc = (IF r = Napi THEN "idle" ELSE "drain")
      BY <1>2, <3>1, <3>5, UnlinkWoken
    <3>6. CASE \E r \in Reclaimers : FreeDesc(r) \/ TxHandler(r)
      BY <1>2, <3>1, <3>6, CompleteWoken
    <3>7. CASE \E m \in Netdevs, e \in Chans :
                 TxTimeout(m) \/ ChanStop(m, e) \/ ChanStopEnd(m) \/ ChanStart(m) \/ WakeAll(m)
      BY <1>2, <3>1, <3>7, WatchdogWoken
    <3> QED BY <1>2, <3>2, <3>3, <3>4, <3>5, <3>6, <3>7, NextCases
  <2> QED BY <2>1, <2>2
<1>3. WokenInv => StoppedHasWaker
  BY DEF StoppedHasWaker, Woken
<1> QED BY <1>1, <1>2, <1>3, PTL DEF Spec
=============================================================================

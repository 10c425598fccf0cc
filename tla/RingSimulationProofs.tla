------------------------ MODULE RingSimulationProofs ------------------------
(***************************************************************************)
(* Proofs about RingSimulation: in both programs the ring of owned         *)
(* descriptors is a queue, for every size of the ring and of the batches.  *)
(***************************************************************************)
EXTENDS RingSimulation, Integers, TLAPS

\* RING_SIZE, BATCH_SIZE and PACKETS_TO_SEND of the programs are positive.
Sizes == RingSize \in Nat \ {0} /\ BatchSize \in Nat /\ Packets \in Nat

-----------------------------------------------------------------------------
(* The inductive invariant.                                                *)

\* Packets that were written and are not yet processed.
Queued == Len(written) - Len(processed)

\* The k-th descriptor from the CPU's index on.
Ahead(k) == (cpu_index + k) % RingSize

\* The counters bound each other, and no more packets wait than fit.
Counters ==
  /\ batch <= Len(processed)
  /\ Len(processed) <= Len(written)
  /\ Len(written) <= pkt
  /\ Queued <= RingSize

\* The NIC writes right behind the packets that wait: it has not moved on yet
\* between the descriptor and the signal.
WriterFollows == (IF nic THEN Succ(hw_index) ELSE hw_index) = Ahead(Queued)

\* Only dma_simulation.c signals apart from its critical section.
SplitSteps == nic \/ cpu = "wait" => program = "dma_simulation"

\* The CPU's descriptors are the Queued ones from its index on.
PendingAhead ==
  \A j \in Slots : own[j] = Cpu <=> \E k \in 0 .. Queued - 1 : j = Ahead(k)

\* They hold the packets that were written last, in their order.
BuffersAhead ==
  \A k \in 0 .. Queued - 1 : buffer[Ahead(k)] = written[Len(processed) + k + 1]

\* What was processed is what was written first.
Copied == \A k \in 1 .. Len(processed) : processed[k] = written[k]

\* threaded_rx.c does not wait beside a packet.
Awake == program = "threaded_rx" /\ cpu = "waiting" => Queued = 0

IInv ==
  /\ TypeOK /\ Counters /\ WriterFollows /\ SplitSteps
  /\ PendingAhead /\ BuffersAhead /\ Copied /\ Awake
-----------------------------------------------------------------------------
(* The indices of a ring.                                                  *)

\* The remainder of a step of at most one round.
LEMMA Wrap ==
  ASSUME NEW R \in Nat \ {0}, NEW i \in 0 .. R - 1, NEW k \in 0 .. R
  PROVE  (i + k) % R = IF i + k < R THEN i + k ELSE i + k - R
OBVIOUS

\* From any index on, the ring is visited once before it repeats.
LEMMA RingVisited ==
  ASSUME Sizes, NEW i \in Slots
  PROVE  /\ Succ(i) \in Slots
         /\ \A k \in 0 .. RingSize : (i + k) % RingSize \in Slots
         /\ \A k, l \in 0 .. RingSize - 1 :
              (i + k) % RingSize = (i + l) % RingSize => k = l
         /\ \A j \in Slots : \E k \in 0 .. RingSize - 1 : j = (i + k) % RingSize
         /\ \A k \in 0 .. RingSize - 1 : (Succ(i) + k) % RingSize = (i + (k + 1)) % RingSize
         /\ \A k \in 0 .. RingSize - 1 : Succ((i + k) % RingSize) = (i + (k + 1)) % RingSize
<1>1. /\ RingSize \in Nat \ {0} /\ i \in 0 .. RingSize - 1
      /\ i \in Int /\ RingSize \in Int /\ 0 <= i /\ i < RingSize
  <2>1. RingSize \in Nat \ {0} /\ RingSize \in Int
    BY DEF Sizes
  <2>2. i \in 0 .. RingSize - 1
    BY DEF Slots
  <2> QED BY <2>1, <2>2
<1>2. ASSUME NEW h \in 0 .. RingSize - 1
      PROVE  Succ(h) = IF h + 1 < RingSize THEN h + 1 ELSE 0
  BY <1>1 DEF Succ
<1>3. Succ(i) \in Slots
  BY <1>1, <1>2 DEF Slots
<1>4. ASSUME NEW k \in 0 .. RingSize
      PROVE  /\ (i + k) % RingSize = IF i + k < RingSize THEN i + k ELSE i + k - RingSize
             /\ (i + k) % RingSize \in Slots
  <2>1. (i + k) % RingSize = IF i + k < RingSize THEN i + k ELSE i + k - RingSize
    BY <1>1, Wrap
  <2> QED BY <1>1, <2>1 DEF Slots
<1>5. ASSUME NEW k \in 0 .. RingSize - 1, NEW l \in 0 .. RingSize - 1,
             (i + k) % RingSize = (i + l) % RingSize
      PROVE  k = l
  <2>1. k \in 0 .. RingSize /\ l \in 0 .. RingSize
    BY <1>1
  <2>2. (i + k) % RingSize = IF i + k < RingSize THEN i + k ELSE i + k - RingSize
    BY <1>4, <2>1
  <2>3. (i + l) % RingSize = IF i + l < RingSize THEN i + l ELSE i + l - RingSize
    BY <1>4, <2>1
  <2> QED BY <1>1, <1>5, <2>2, <2>3
<1>6. ASSUME NEW j \in Slots
      PROVE  \E k \in 0 .. RingSize - 1 : j = (i + k) % RingSize
  <2>3. j \in Int /\ 0 <= j /\ j < RingSize
    BY <1>1 DEF Slots
  <2>1. CASE i <= j
    <3>1. j - i \in 0 .. RingSize - 1 /\ j - i \in 0 .. RingSize /\ i + (j - i) = j
      BY <1>1, <2>3, <2>1
    <3>2. (i + (j - i)) % RingSize = j
      BY <1>1, <1>4, <2>3, <3>1
    <3> QED BY <3>1, <3>2
  <2>2. CASE j < i
    <3>1. /\ j - i + RingSize \in 0 .. RingSize - 1 /\ j - i + RingSize \in 0 .. RingSize
          /\ i + (j - i + RingSize) = j + RingSize
      BY <1>1, <2>3, <2>2
    <3>2. (i + (j - i + RingSize)) % RingSize = j
      BY <1>1, <1>4, <2>3, <3>1
    <3> QED BY <3>1, <3>2
  <2> QED BY <1>1, <2>3, <2>1, <2>2
<1>7. ASSUME NEW k \in 0 .. RingSize - 1
      PROVE  /\ (Succ(i) + k) % RingSize = (i + (k + 1)) % RingSize
             /\ Succ((i + k) % RingSize) = (i + (k + 1)) % RingSize
  <2>1. k + 1 \in 0 .. RingSize /\ k \in 0 .. RingSize /\ k \in Int
    BY <1>1
  <2>2. (i + (k + 1)) % RingSize =
          IF i + (k + 1) < RingSize THEN i + (k + 1) ELSE i + (k + 1) - RingSize
    BY <1>4, <2>1
  <2>3. Succ(i) \in 0 .. RingSize - 1 /\ Succ(i) = IF i + 1 < RingSize THEN i + 1 ELSE 0
    BY <1>1, <1>2, <1>3 DEF Slots
  <2>4. (Succ(i) + k) % RingSize =
          IF Succ(i) + k < RingSize THEN Succ(i) + k ELSE Succ(i) + k - RingSize
    BY <1>1, <2>1, <2>3, Wrap
  <2>5. (Succ(i) + k) % RingSize = (i + (k + 1)) % RingSize
    BY <1>1, <2>1, <2>2, <2>3, <2>4
  <2>6. /\ (i + k) % RingSize \in 0 .. RingSize - 1
        /\ (i + k) % RingSize = IF i + k < RingSize THEN i + k ELSE i + k - RingSize
    BY <1>4, <2>1 DEF Slots
  <2>7. Succ((i + k) % RingSize) =
          IF ((i + k) % RingSize) + 1 < RingSize THEN ((i + k) % RingSize) + 1 ELSE 0
    BY <1>2, <2>6
  <2>8. Succ((i + k) % RingSize) = (i + (k + 1)) % RingSize
    BY <1>1, <2>1, <2>2, <2>6, <2>7
  <2> QED BY <2>5, <2>8
<1> QED BY <1>3, <1>4, <1>5, <1>6, <1>7

-----------------------------------------------------------------------------
(* Sequences of packets.                                                   *)

\* What Append does to the history of packets.
LEMMA Appended ==
  ASSUME NEW S, NEW q \in Seq(S), NEW e \in S
  PROVE  /\ Append(q, e) \in Seq(S)
         /\ Len(Append(q, e)) = Len(q) + 1
         /\ \A k \in 1 .. Len(q) : Append(q, e)[k] = q[k]
         /\ Append(q, e)[Len(q) + 1] = e
OBVIOUS

\* What the invariant says about the numbers.
LEMMA Numbers ==
  ASSUME Sizes, IInv
  PROVE  /\ Len(written) \in Nat /\ Len(processed) \in Nat /\ pkt \in Nat
         /\ Queued \in Nat /\ Queued <= RingSize
         /\ Len(written) = Len(processed) + Queued
         /\ Len(written) <= pkt /\ batch <= Len(processed) /\ batch \in Nat
         /\ RingSize \in Nat \ {0} /\ Packets \in Nat /\ BatchSize \in Nat
         /\ cpu_index \in Slots /\ hw_index \in Slots
<1>1. Len(written) \in Nat /\ Len(processed) \in Nat
  BY DEF IInv, TypeOK
<1>2. RingSize \in Nat \ {0} /\ Packets \in Nat /\ BatchSize \in Nat
  BY DEF Sizes
<1>3. pkt \in Nat /\ batch \in Nat
  BY <1>2 DEF IInv, TypeOK
<1>4. Queued \in Nat /\ Len(written) = Len(processed) + Queued
  BY <1>1 DEF IInv, Counters, Queued
<1> QED BY <1>1, <1>2, <1>3, <1>4 DEF IInv, Counters, TypeOK

\* The packets in order, from the parts of the invariant.
LEMMA PartsInOrder ==
  ASSUME Sizes, IInv
  PROVE  PacketsInOrder
<1>1. Len(processed) \in Nat /\ DOMAIN processed = 1 .. Len(processed)
  BY DEF IInv, TypeOK
<1>2. \A k \in 0 .. Queued - 1 : Ahead(k) \in Slots
  <2>1. \A k \in 0 .. Queued - 1 : k \in 0 .. RingSize
    BY Numbers
  <2> QED BY <2>1, Numbers, RingVisited DEF Ahead
<1>3. Pending = {Ahead(k) : k \in 0 .. Queued - 1}
  BY <1>2 DEF IInv, PendingAhead, Pending
<1>4. Queued = 0 => Pending = {}
  <2>1. Queued = 0 => 0 .. Queued - 1 = {}
    OBVIOUS
  <2> QED BY <1>3, <2>1
<1> QED BY <1>1, <1>3, <1>4 DEF IInv, PacketsInOrder, BuffersAhead, Copied, Awake, Ahead, Queued
-----------------------------------------------------------------------------
(* The steps.                                                              *)

\* The ring is empty and the NIC owns every descriptor.
LEMMA InitIInv == ASSUME Sizes, Init PROVE IInv
<1>1. RingSize \in Nat \ {0} /\ Packets \in Nat
  BY DEF Sizes
<1>2. 0 \in Slots /\ Queued = 0 /\ Ahead(0) = 0
  <2>1. cpu_index = 0 /\ Len(written) = 0 /\ Len(processed) = 0
    BY DEF Init
  <2>2. 0 \in Slots
    BY <1>1 DEF Slots
  <2>3. 0 % RingSize = 0
    BY <1>1
  <2> QED BY <2>1, <2>2, <2>3 DEF Queued, Ahead
<1>3. TypeOK
  BY <1>1, <1>2 DEF Init, TypeOK, Hardware, Cpu
<1>4. Counters /\ SplitSteps /\ WriterFollows
  BY <1>1, <1>2 DEF Init, Counters, SplitSteps, WriterFollows
<1>5. PendingAhead /\ BuffersAhead /\ Copied /\ Awake
  BY <1>2 DEF Init, PendingAhead, BuffersAhead, Copied, Awake, Hardware, Cpu
<1> QED BY <1>3, <1>4, <1>5 DEF IInv

\* A packet that finds the NIC's descriptor free is written behind the others.
LEMMA StoreIInv ==
  ASSUME Sizes, IInv, Arrive, own[hw_index] = Hardware
  PROVE  IInv'
<1> USE Numbers
<1>1. /\ pkt < Packets /\ ~nic /\ pkt' = pkt + 1
      /\ buffer' = [buffer EXCEPT ![hw_index] = pkt']
      /\ own' = [own EXCEPT ![hw_index] = Cpu]
      /\ written' = Append(written, pkt')
      /\ IF program = "dma_simulation"
         THEN nic' = TRUE /\ hw_index' = hw_index /\ cpu' = cpu
         ELSE /\ hw_index' = Succ(hw_index) /\ nic' = nic
              /\ cpu' = IF cpu = "waiting" THEN "scan" ELSE cpu
      /\ program' = program /\ cpu_index' = cpu_index
      /\ batch' = batch /\ processed' = processed
  BY DEF Arrive
<1>2. /\ own \in [Slots -> {Hardware, Cpu}] /\ buffer \in [Slots -> 0 .. Packets]
      /\ written \in Seq(1 .. Packets) /\ processed \in Seq(1 .. Packets)
      /\ cpu \in {"scan", "wait", "waiting", "batch"} /\ program \in Programs
      /\ batch \in 0 .. Packets
  BY DEF IInv, TypeOK
<1>3. hw_index = Ahead(Queued)
  BY <1>1 DEF IInv, WriterFollows
<1>4. Queued < RingSize
  <2>1. SUFFICES ASSUME Queued = RingSize PROVE FALSE
    OBVIOUS
  <2>2. Ahead(Queued) = Ahead(0)
    <3>1. cpu_index \in 0 .. RingSize - 1 /\ 0 \in 0 .. RingSize /\ RingSize \in 0 .. RingSize
      BY DEF Slots
    <3>2. (cpu_index + RingSize) % RingSize =
            IF cpu_index + RingSize < RingSize THEN cpu_index + RingSize
            ELSE cpu_index + RingSize - RingSize
      BY <3>1, Wrap
    <3>3. (cpu_index + 0) % RingSize =
            IF cpu_index + 0 < RingSize THEN cpu_index + 0 ELSE cpu_index + 0 - RingSize
      BY <3>1, Wrap
    <3> QED BY <3>1, <2>1, <3>2, <3>3 DEF Ahead
  <2>3. 0 \in 0 .. Queued - 1
    BY <2>1
  <2>4. own[hw_index] = Cpu
    BY <1>3, <2>2, <2>3 DEF IInv, PendingAhead
  <2> QED BY <2>4 DEF Hardware, Cpu
<1>5. pkt' \in 1 .. Packets /\ pkt' \in 0 .. Packets
  BY <1>1
<1>6. /\ written' \in Seq(1 .. Packets) /\ Len(written') = Len(written) + 1
      /\ \A k \in 1 .. Len(written) : written'[k] = written[k]
      /\ written'[Len(written) + 1] = pkt'
  BY <1>1, <1>2, <1>5, Appended
<1>7. Queued' = Queued + 1 /\ Len(processed') = Len(processed)
  <2>1. Queued' = Len(written') - Len(processed')
    BY DEF Queued
  <2> QED BY <1>1, <1>6, <2>1, SMTT(30)
<1>8. /\ \A k \in 0 .. RingSize : Ahead(k)' = Ahead(k) /\ Ahead(k) \in Slots
      /\ Succ(hw_index) \in Slots /\ Succ(hw_index) = Ahead(Queued + 1)
      /\ \A k \in 0 .. Queued - 1 : Ahead(k) # hw_index
  <2>1. Queued \in 0 .. RingSize - 1 /\ \A k \in 0 .. Queued - 1 : k \in 0 .. RingSize - 1 /\ k # Queued
    BY <1>4
  <2> QED BY <1>1, <1>3, <2>1, RingVisited DEF Ahead
<1>9. TypeOK'
  <2>1. own' \in [Slots -> {Hardware, Cpu}] /\ buffer' \in [Slots -> 0 .. Packets]
    BY <1>1, <1>2, <1>5
  <2>2. hw_index' \in Slots /\ nic' \in BOOLEAN
    <3>1. nic \in BOOLEAN
      BY DEF IInv, TypeOK
    <3> QED BY <1>1, <1>8, <3>1
  <2>3. cpu' \in {"scan", "wait", "waiting", "batch"}
    BY <1>1, <1>2
  <2> QED BY <1>1, <1>2, <1>5, <1>6, <2>1, <2>2, <2>3 DEF TypeOK
<1>10. Counters'
  BY <1>1, <1>4, <1>6, <1>7, SMTT(30) DEF Counters
<1>11. WriterFollows'
  <2>1. Queued + 1 \in 0 .. RingSize
    BY <1>4
  <2>2. Ahead(Queued)' = Ahead(Queued + 1)
    BY <1>1, <1>7 DEF Ahead
  <2>3. (IF nic' THEN Succ(hw_index') ELSE hw_index') = Succ(hw_index)
    BY <1>1
  <2>4. Succ(hw_index)' = Succ(hw_index')
    BY DEF Succ
  <2> QED BY <1>8, <2>2, <2>3, <2>4 DEF WriterFollows
<1>12. SplitSteps' /\ Awake'
  BY <1>1 DEF IInv, SplitSteps, Awake
<1>13. PendingAhead'
  <2>1. SUFFICES ASSUME NEW j \in Slots
                 PROVE  own'[j] = Cpu <=> \E k \in 0 .. Queued : j = Ahead(k)
    <3>1. \A k : Ahead(k)' = Ahead(k)
      BY <1>1 DEF Ahead
    <3>2. 0 .. Queued' - 1 = 0 .. Queued
      BY <1>7
    <3> QED BY <2>1, <3>1, <3>2 DEF PendingAhead
  <2>2. own[j] = Cpu <=> \E k \in 0 .. Queued - 1 : j = Ahead(k)
    BY DEF IInv, PendingAhead
  <2>3. own'[j] = Cpu <=> j = hw_index \/ own[j] = Cpu
    BY <1>1, <1>2
  <2>4. \A k \in Nat : k \in 0 .. Queued <=> k \in 0 .. Queued - 1 \/ k = Queued
    OBVIOUS
  <2> QED BY <1>3, <2>2, <2>3, <2>4
<1>14. BuffersAhead'
  <2>1. SUFFICES ASSUME NEW k \in 0 .. Queued
                 PROVE  buffer'[Ahead(k)] = written'[Len(processed) + k + 1]
    <3>1. \A k : Ahead(k)' = Ahead(k)
      BY <1>1 DEF Ahead
    <3>2. 0 .. Queued' - 1 = 0 .. Queued
      BY <1>7
    <3> QED BY <1>7, <2>1, <3>1, <3>2 DEF BuffersAhead
  <2>2. CASE k = Queued
    BY <1>1, <1>2, <1>3, <1>6, <2>2
  <2>3. CASE k \in 0 .. Queued - 1
    <3>1. buffer[Ahead(k)] = written[Len(processed) + k + 1]
      BY <2>3 DEF IInv, BuffersAhead
    <3>2. Len(processed) + k + 1 \in 1 .. Len(written)
      BY <2>3
    <3>3. Ahead(k) \in Slots /\ Ahead(k) # hw_index
      <4>1. k \in 0 .. RingSize
        BY <2>3
      <4> QED BY <1>8, <2>3, <4>1
    <3>4. buffer'[Ahead(k)] = buffer[Ahead(k)]
      BY <1>1, <1>2, <3>3
    <3> QED BY <1>6, <3>1, <3>2, <3>4
  <2> QED BY <2>2, <2>3
<1>15. Copied'
  <2>1. \A k \in 1 .. Len(processed) : k \in 1 .. Len(written)
    OBVIOUS
  <2> QED BY <1>1, <1>6, <1>7, <2>1 DEF IInv, Copied
<1> QED BY <1>9, <1>10, <1>11, <1>12, <1>13, <1>14, <1>15 DEF IInv

\* Steps that move no packet: what matters for the queue is unchanged.
LEMMA NoPacketMoves ==
  ASSUME Sizes, IInv, UNCHANGED <<own, buffer, cpu_index, written, processed>>
  PROVE  /\ Queued' = Queued /\ \A k : Ahead(k)' = Ahead(k)
         /\ PendingAhead' /\ BuffersAhead' /\ Copied'
<1>1. Queued' = Queued /\ \A k : Ahead(k)' = Ahead(k)
  BY DEF Queued, Ahead
<1>2. PendingAhead'
  BY <1>1 DEF IInv, PendingAhead
<1>3. BuffersAhead' /\ Copied'
  BY <1>1 DEF IInv, BuffersAhead, Copied
<1> QED BY <1>1, <1>2, <1>3
\* The NIC writes a packet into the descriptor at its index.
LEMMA ArriveIInv == ASSUME Sizes, IInv, Arrive PROVE IInv'
<1>1. CASE own[hw_index] = Hardware
  BY <1>1, StoreIInv
<1>2. CASE own[hw_index] # Hardware
  <2>1. /\ pkt < Packets /\ pkt' = pkt + 1
        /\ UNCHANGED <<program, own, buffer, hw_index, cpu_index, nic, cpu, batch,
                       written, processed>>
    BY <1>2 DEF Arrive
  <2>2. pkt' \in 0 .. Packets
    BY <2>1, Numbers
  <2>3. TypeOK'
    BY <2>1, <2>2 DEF IInv, TypeOK
  <2>4. Queued' = Queued /\ PendingAhead' /\ BuffersAhead' /\ Copied'
    BY <2>1, NoPacketMoves
  <2>5. Counters'
    BY <2>1, <2>4, Numbers DEF IInv, Counters
  <2>6. WriterFollows'
    BY <2>1 DEF IInv, WriterFollows, Ahead, Queued, Succ
  <2>7. SplitSteps' /\ Awake'
    BY <2>1, <2>4 DEF IInv, SplitSteps, Awake
  <2> QED BY <2>3, <2>4, <2>5, <2>6, <2>7 DEF IInv
<1> QED BY <1>1, <1>2

\* It signals the CPU and moves on.
LEMMA SignalIInv == ASSUME Sizes, IInv, Signal PROVE IInv'
<1>1. /\ nic /\ nic' = FALSE /\ hw_index' = Succ(hw_index)
      /\ cpu' = IF cpu = "waiting" THEN "batch" ELSE cpu
      /\ UNCHANGED <<program, own, buffer, cpu_index, pkt, batch, written, processed>>
  BY DEF Signal
<1>2. hw_index' \in Slots
  BY <1>1, Numbers, RingVisited
<1>3. TypeOK'
  BY <1>1, <1>2 DEF IInv, TypeOK
<1>4. /\ Queued' = Queued /\ Ahead(Queued)' = Ahead(Queued)
      /\ PendingAhead' /\ BuffersAhead' /\ Copied'
  BY <1>1, NoPacketMoves DEF Ahead
<1>5. Counters'
  BY <1>1, <1>4 DEF IInv, Counters
<1>6. WriterFollows'
  BY <1>1, <1>4 DEF IInv, WriterFollows
<1>7. SplitSteps' /\ Awake'
  BY <1>1, <1>4 DEF IInv, SplitSteps, Awake
<1> QED BY <1>3, <1>4, <1>5, <1>6, <1>7 DEF IInv

\* The steps of the CPU that move no packet.
LEMMA CpuMoves ==
  ASSUME Sizes, IInv,
         UNCHANGED <<program, own, buffer, hw_index, cpu_index, pkt, nic, written, processed>>,
         cpu' \in {"scan", "wait", "waiting", "batch"}, batch' = batch \/ batch' = 0,
         cpu' = "wait" => program = "dma_simulation",
         program = "threaded_rx" /\ cpu' = "waiting" => Queued = 0
  PROVE  IInv'
<1>1. batch' \in 0 .. Packets /\ batch' <= Len(processed)
  BY Numbers DEF IInv, TypeOK
<1>2. TypeOK'
  BY <1>1 DEF IInv, TypeOK
<1>3. /\ Queued' = Queued /\ Ahead(Queued)' = Ahead(Queued)
      /\ PendingAhead' /\ BuffersAhead' /\ Copied'
  BY NoPacketMoves DEF Ahead
<1>4. Counters'
  BY <1>1, <1>3 DEF IInv, Counters
<1>5. WriterFollows'
  BY <1>3 DEF IInv, WriterFollows, Succ
<1>6. SplitSteps' /\ Awake'
  BY <1>3 DEF IInv, SplitSteps, Awake
<1> QED BY <1>2, <1>3, <1>4, <1>5, <1>6 DEF IInv

\* The CPU looks for a packet.
LEMMA ScanIInv == ASSUME Sizes, IInv, Scan PROVE IInv'
<1>1. /\ batch' = 0 /\ cpu' \in {"wait", "waiting", "batch"}
      /\ UNCHANGED <<program, own, buffer, hw_index, cpu_index, pkt, nic, written, processed>>
      /\ cpu' = "wait" => program = "dma_simulation"
      /\ program = "threaded_rx" /\ cpu' = "waiting" => own[cpu_index] # Cpu
  BY DEF Scan, IInv, TypeOK, Programs
<1>2. own[cpu_index] # Cpu => Queued = 0
  <2>1. SUFFICES ASSUME Queued # 0 PROVE own[cpu_index] = Cpu
    OBVIOUS
  <2>2. cpu_index = Ahead(0)
    <3>1. cpu_index \in 0 .. RingSize - 1 /\ 0 \in 0 .. RingSize /\ cpu_index \in Int
      BY Numbers DEF Slots
    <3>2. (cpu_index + 0) % RingSize =
            IF cpu_index + 0 < RingSize THEN cpu_index + 0 ELSE cpu_index + 0 - RingSize
      BY <3>1, Numbers, Wrap
    <3> QED BY <3>1, <3>2, Numbers DEF Ahead
  <2>3. 0 \in 0 .. Queued - 1
    BY <2>1, Numbers
  <2> QED BY <2>2, <2>3, Numbers DEF IInv, PendingAhead
<1>3. cpu' \in {"scan", "wait", "waiting", "batch"}
  BY <1>1
<1> QED BY <1>1, <1>2, <1>3, CpuMoves

\* The CPU waits for a signal.
LEMMA WaitIInv == ASSUME Sizes, IInv, Wait PROVE IInv'
<1>1. /\ cpu = "wait" /\ cpu' = "waiting" /\ batch' = batch
      /\ UNCHANGED <<program, own, buffer, hw_index, cpu_index, pkt, nic, written, processed>>
  BY DEF Wait
<1>2. program # "threaded_rx"
  BY <1>1 DEF IInv, SplitSteps
<1> QED BY <1>1, <1>2, CpuMoves

\* The CPU ends a batch.
LEMMA EndBatchIInv == ASSUME Sizes, IInv, EndBatch PROVE IInv'
<1>1. /\ cpu' = "scan" /\ batch' = batch
      /\ UNCHANGED <<program, own, buffer, hw_index, cpu_index, pkt, nic, written, processed>>
  BY DEF EndBatch
<1> QED BY <1>1, CpuMoves

\* The first packet that waits is processed, and its descriptor given back.
LEMMA ProcessIInv == ASSUME Sizes, IInv, Process PROVE IInv'
<1> USE Numbers
<1>1. /\ cpu = "batch" /\ own[cpu_index] = Cpu
      /\ processed' = Append(processed, buffer[cpu_index])
      /\ own' = [own EXCEPT ![cpu_index] = Hardware]
      /\ cpu_index' = Succ(cpu_index) /\ batch' = batch + 1
      /\ program' = program /\ buffer' = buffer /\ hw_index' = hw_index /\ pkt' = pkt
      /\ nic' = nic /\ cpu' = cpu /\ written' = written
  BY DEF Process, MoreInBatch
<1>2. /\ own \in [Slots -> {Hardware, Cpu}] /\ buffer \in [Slots -> 0 .. Packets]
      /\ written \in Seq(1 .. Packets) /\ processed \in Seq(1 .. Packets)
      /\ pkt <= Packets
  BY DEF IInv, TypeOK
<1>3. Queued > 0
  <2>1. \E k \in 0 .. Queued - 1 : cpu_index = Ahead(k)
    BY <1>1 DEF IInv, PendingAhead
  <2> QED BY <2>1
<1>4. Ahead(0) = cpu_index
  <2>1. cpu_index \in 0 .. RingSize - 1 /\ 0 \in 0 .. RingSize /\ cpu_index \in Int
    BY DEF Slots
  <2>2. (cpu_index + 0) % RingSize =
          IF cpu_index + 0 < RingSize THEN cpu_index + 0 ELSE cpu_index + 0 - RingSize
    BY <2>1, Wrap
  <2> QED BY <2>1, <2>2 DEF Ahead
<1>5. buffer[cpu_index] = written[Len(processed) + 1]
  <2>1. 0 \in 0 .. Queued - 1
    BY <1>3
  <2>2. buffer[Ahead(0)] = written[Len(processed) + 0 + 1]
    BY <2>1 DEF IInv, BuffersAhead
  <2> QED BY <1>4, <2>2
<1>6. Len(processed) + 1 \in 1 .. Len(written)
  BY <1>3
<1>7. buffer[cpu_index] \in 1 .. Packets
  BY <1>2, <1>5, <1>6
<1>8. /\ processed' \in Seq(1 .. Packets) /\ Len(processed') = Len(processed) + 1
      /\ \A k \in 1 .. Len(processed) : processed'[k] = processed[k]
      /\ processed'[Len(processed) + 1] = buffer[cpu_index]
  BY <1>1, <1>2, <1>7, Appended
<1>9. Queued' = Queued - 1 /\ Len(written') = Len(written)
  <2>1. Queued' = Len(written') - Len(processed')
    BY DEF Queued
  <2> QED BY <1>1, <1>8, <2>1, SMTT(30)
<1>10. /\ Succ(cpu_index) \in Slots
       /\ \A k \in 0 .. RingSize - 1 : Ahead(k)' = Ahead(k + 1)
       /\ \A k \in 1 .. RingSize - 1 : Ahead(k) # cpu_index
  <2>1. Succ(cpu_index) \in Slots /\ \A k \in 0 .. RingSize - 1 : Ahead(k)' = Ahead(k + 1)
    BY <1>1, RingVisited DEF Ahead
  <2>2. \A k \in 1 .. RingSize - 1 : k \in 0 .. RingSize - 1 /\ 0 \in 0 .. RingSize - 1 /\ k # 0
    OBVIOUS
  <2>3. \A k, l \in 0 .. RingSize - 1 : Ahead(k) = Ahead(l) => k = l
    BY RingVisited DEF Ahead
  <2> QED BY <1>4, <2>1, <2>2, <2>3
<1>11. TypeOK'
  <2>1. batch' \in 0 .. Packets
    BY <1>1, <1>2, <1>6, SMTT(30)
  <2>2. own' \in [Slots -> {Hardware, Cpu}] /\ cpu_index' \in Slots
    BY <1>1, <1>2, <1>10
  <2> QED BY <1>1, <1>8, <2>1, <2>2 DEF IInv, TypeOK
<1>12. Counters'
  BY <1>1, <1>3, <1>8, <1>9, SMTT(30) DEF Counters
<1>13. WriterFollows'
  <2>1. Queued - 1 \in 0 .. RingSize - 1 /\ (Queued - 1) + 1 = Queued
    BY <1>3
  <2>2. \A k \in 0 .. RingSize - 1 : (cpu_index' + k) % RingSize = Ahead(k + 1)
    BY <1>10 DEF Ahead
  <2>3. Ahead(Queued)' = Ahead(Queued)
    <3>1. Ahead(Queued)' = (cpu_index' + (Queued - 1)) % RingSize
      BY <1>9 DEF Ahead
    <3> QED BY <2>1, <2>2, <3>1
  <2> QED BY <1>1, <2>3 DEF IInv, WriterFollows, Succ
<1>14. SplitSteps' /\ Awake'
  BY <1>1 DEF IInv, SplitSteps, Awake
<1>15. PendingAhead'
  <2>1. SUFFICES ASSUME NEW j \in Slots
                 PROVE  own'[j] = Cpu <=> \E k \in 0 .. Queued - 2 : j = Ahead(k)'
    <3>1. 0 .. Queued' - 1 = 0 .. Queued - 2
      BY <1>9
    <3> QED BY <2>1, <3>1 DEF PendingAhead
  <2>2. own[j] = Cpu <=> \E k \in 0 .. Queued - 1 : j = Ahead(k)
    BY DEF IInv, PendingAhead
  <2>3. own'[j] = Cpu <=> j # cpu_index /\ own[j] = Cpu
    BY <1>1, <1>2 DEF Hardware, Cpu
  <2>4. ASSUME own'[j] = Cpu PROVE \E k \in 0 .. Queued - 2 : j = Ahead(k)'
    <3>1. PICK k \in 0 .. Queued - 1 : j = Ahead(k)
      BY <2>2, <2>3, <2>4
    <3>2. k # 0
      BY <1>4, <2>3, <2>4, <3>1
    <3>3. k - 1 \in 0 .. Queued - 2 /\ k - 1 \in 0 .. RingSize - 1 /\ (k - 1) + 1 = k
      BY <3>2
    <3> QED BY <1>10, <3>1, <3>3
  <2>5. ASSUME NEW k \in 0 .. Queued - 2, j = Ahead(k)' PROVE own'[j] = Cpu
    <3>1. k \in 0 .. RingSize - 1 /\ k + 1 \in 1 .. RingSize - 1 /\ k + 1 \in 0 .. Queued - 1
      BY SMTT(30)
    <3>2. j = Ahead(k + 1) /\ j # cpu_index
      BY <1>10, <2>5, <3>1
    <3> QED BY <2>2, <2>3, <3>1, <3>2
  <2> QED BY <2>4, <2>5
<1>16. BuffersAhead'
  <2>1. SUFFICES ASSUME NEW k \in 0 .. Queued - 2
                 PROVE  buffer[Ahead(k)'] = written[Len(processed') + k + 1]
    <3>1. 0 .. Queued' - 1 = 0 .. Queued - 2
      BY <1>9
    <3> QED BY <1>1, <2>1, <3>1 DEF BuffersAhead
  <2>2. k \in 0 .. RingSize - 1 /\ k + 1 \in 0 .. Queued - 1
    BY SMTT(30)
  <2>3. buffer[Ahead(k + 1)] = written[Len(processed) + (k + 1) + 1]
    BY <2>2 DEF IInv, BuffersAhead
  <2>4. Len(processed') + k + 1 = Len(processed) + (k + 1) + 1
    BY <1>8
  <2> QED BY <1>10, <2>2, <2>3, <2>4
<1>17. Copied'
  <2>1. SUFFICES ASSUME NEW k \in 1 .. Len(processed')
                 PROVE  processed'[k] = written[k]
    BY <1>1 DEF Copied
  <2>2. k \in 1 .. Len(processed) \/ k = Len(processed) + 1
    BY <1>8
  <2> QED BY <1>5, <1>8, <2>2 DEF IInv, Copied
<1> QED BY <1>11, <1>12, <1>13, <1>14, <1>15, <1>16, <1>17 DEF IInv

\* Every step of every program keeps the inductive invariant.
LEMMA NextIInv == ASSUME Sizes, IInv, [Next]_vars PROVE IInv'
<1>1. CASE UNCHANGED vars
  BY <1>1 DEF vars, IInv, TypeOK, Counters, WriterFollows, SplitSteps, PendingAhead,
              BuffersAhead, Copied, Awake, Queued, Ahead, Succ
<1> QED BY <1>1, ArriveIInv, SignalIInv, ScanIInv, WaitIInv, ProcessIInv, EndBatchIInv DEF Next
-----------------------------------------------------------------------------
(* The theorems.                                                           *)

\* The inductive invariant holds for every size of the ring and of the batches, in
\* both programs.
THEOREM Invariance == ASSUME Sizes PROVE Spec => []IInv
<1>1. Init => IInv
  BY InitIInv
<1>2. IInv /\ [Next]_vars => IInv'
  BY NextIInv
<1> QED BY <1>1, <1>2, PTL DEF Spec

\* Indices stay in the ring, counters in their bounds, and only packets that have
\* arrived are written and processed.
THEOREM TypeCorrect == ASSUME Sizes PROVE Spec => []TypeOK
<1>1. IInv => TypeOK
  BY DEF IInv
<1> QED BY <1>1, Invariance, PTL

\* Whatever the interleaving of the NIC and the CPU, with the lock of threaded_rx.c
\* and without that of dma_simulation.c, the packets that the CPU processes and finds
\* ahead of its index are those that the NIC wrote, in their order and each once.  The
\* CPU of threaded_rx.c does not wait beside one; that of dma_simulation.c may.
THEOREM RingIsQueue == ASSUME Sizes PROVE Spec => []PacketsInOrder
<1>1. IInv => PacketsInOrder
  BY PartsInOrder
<1> QED BY <1>1, Invariance, PTL
=============================================================================

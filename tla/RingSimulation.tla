--------------------------- MODULE RingSimulation ---------------------------
(***************************************************************************)
(* The simulated receive rings of ethernet_driver/simulated_program that   *)
(* have two threads: a NIC writes packets into descriptors it owns, a CPU  *)
(* processes them and gives the descriptors back.                          *)
(*                                                                         *)
(* threaded_rx.c: both hold the lock, the CPU waits on a condition.        *)
(* dma_simulation.c: the NIC takes no lock, the CPU polls in batches.      *)
(***************************************************************************)
EXTENDS Naturals, Sequences

CONSTANTS RingSize,    \* RING_SIZE
          BatchSize,   \* BATCH_SIZE
          Packets      \* PACKETS_TO_SEND

Programs == {"threaded_rx", "dma_simulation"}
Hardware == 1
Cpu == 0
Slots == 0 .. RingSize - 1

VARIABLES
  program,    \* the program that runs
  own,        \* ring[i].own
  buffer,     \* ring[i].buffer: the number of a packet, 0 if none
  hw_index,   \* where the NIC writes
  cpu_index,  \* where the CPU reads (poll_index)
  pkt,        \* packets that have arrived
  nic,        \* the NIC has given a descriptor away, and not signalled yet
  cpu,        \* where the CPU thread is
  batch,      \* processed in this batch
  written,    \* packets that were written into the ring
  processed   \* packets that were processed

vars == <<program, own, buffer, hw_index, cpu_index, pkt, nic, cpu, batch,
          written, processed>>

\* Mutant: the index does not wrap.
SuccUnwrapped(i) == i + 1

Succ(i) == (i + 1) % RingSize

Init ==
  /\ program \in Programs
  /\ own = [i \in Slots |-> Hardware] /\ buffer = [i \in Slots |-> 0]
  /\ hw_index = 0 /\ cpu_index = 0 /\ pkt = 0
  /\ nic = FALSE /\ cpu = "scan" /\ batch = 0 /\ written = <<>> /\ processed = <<>>

-----------------------------------------------------------------------------
\* Mutant: the NIC does not look at the owner.
ArriveOverwriting ==
  /\ pkt < Packets /\ ~nic
  /\ program = "threaded_rx" => cpu # "batch"
  /\ pkt' = pkt + 1
  /\ buffer' = [buffer EXCEPT ![hw_index] = pkt']
  /\ own' = [own EXCEPT ![hw_index] = Cpu]
  /\ written' = Append(written, pkt')
  /\ hw_index' = Succ(hw_index)
  /\ cpu' = IF cpu = "waiting" THEN "scan" ELSE cpu
  /\ UNCHANGED <<program, cpu_index, nic, batch, processed>>

\* A packet arrives.  It is dropped if the CPU owns the descriptor.  In
\* threaded_rx.c this is one critical section, signal included, and not while the
\* CPU has the lock; in dma_simulation.c the CPU sees the descriptor before the
\* signal.
Arrive ==
  /\ pkt < Packets /\ ~nic
  /\ program = "threaded_rx" => cpu # "batch"
  /\ pkt' = pkt + 1
  /\ IF own[hw_index] = Hardware
     THEN /\ buffer' = [buffer EXCEPT ![hw_index] = pkt']
          /\ own' = [own EXCEPT ![hw_index] = Cpu]
          /\ written' = Append(written, pkt')
          /\ IF program = "dma_simulation"
             THEN nic' = TRUE /\ UNCHANGED <<hw_index, cpu>>
             ELSE /\ hw_index' = Succ(hw_index) /\ UNCHANGED nic
                  /\ cpu' = IF cpu = "waiting" THEN "scan" ELSE cpu
     ELSE UNCHANGED <<buffer, own, written, nic, hw_index, cpu>>
  /\ UNCHANGED <<program, cpu_index, batch, processed>>

\* dma_simulation.c's pthread_cond_signal: it wakes a poll thread that waits, and
\* is lost on one that does not wait yet.
Signal ==
  /\ nic /\ nic' = FALSE
  /\ hw_index' = Succ(hw_index)
  /\ cpu' = IF cpu = "waiting" THEN "batch" ELSE cpu
  /\ UNCHANGED <<program, own, buffer, cpu_index, pkt, batch, written, processed>>

-----------------------------------------------------------------------------
\* The CPU looks for a packet: threaded_rx.c at its index, and waits if there is
\* none, in one critical section; dma_simulation.c in the whole ring, while the
\* NIC goes on.
Scan ==
  /\ cpu = "scan"
  /\ cpu' = IF program = "threaded_rx"
            THEN IF own[cpu_index] = Cpu THEN "batch" ELSE "waiting"
            ELSE IF \E i \in Slots : own[i] = Cpu THEN "batch" ELSE "wait"
  /\ batch' = 0
  /\ UNCHANGED <<program, own, buffer, hw_index, cpu_index, pkt, nic, written, processed>>

Wait ==
  /\ cpu = "wait" /\ cpu' = "waiting"
  /\ UNCHANGED <<program, own, buffer, hw_index, cpu_index, pkt, nic, batch,
                 written, processed>>

MoreInBatch == own[cpu_index] = Cpu /\ (program = "dma_simulation" => batch < BatchSize)

\* The next descriptor of a batch.
Process ==
  /\ cpu = "batch" /\ MoreInBatch
  /\ processed' = Append(processed, buffer[cpu_index])
  /\ own' = [own EXCEPT ![cpu_index] = Hardware]
  /\ cpu_index' = Succ(cpu_index)
  /\ batch' = batch + 1
  /\ UNCHANGED <<program, buffer, hw_index, pkt, nic, cpu, written>>

EndBatch ==
  /\ cpu = "batch" /\ ~MoreInBatch
  /\ cpu' = "scan"
  /\ UNCHANGED <<program, own, buffer, hw_index, cpu_index, pkt, nic, batch,
                 written, processed>>

Next == Arrive \/ Signal \/ Scan \/ Wait \/ Process \/ EndBatch

Spec == Init /\ [][Next]_vars

-----------------------------------------------------------------------------
\* The state is well typed.
TypeOK ==
  /\ program \in Programs
  /\ own \in [Slots -> {Hardware, Cpu}] /\ buffer \in [Slots -> 0 .. Packets]
  /\ hw_index \in Slots /\ cpu_index \in Slots /\ pkt \in 0 .. Packets
  /\ nic \in BOOLEAN /\ cpu \in {"scan", "wait", "waiting", "batch"}
  /\ batch \in 0 .. Packets
  /\ written \in Seq(1 .. Packets) /\ processed \in Seq(1 .. Packets)

Pending == {i \in Slots : own[i] = Cpu}

\* In both programs, with the lock and without, what the CPU has processed and what
\* it will find from its index on are the packets that were written, each once and
\* in their order, also when packets are dropped because the ring is full.  In
\* threaded_rx.c the CPU never waits while there is one.  dma_simulation.c does not
\* have that: its signal can come between the scan and the wait, and the packet lies
\* there until the next one is written, for good if the ring is full by then, since
\* a packet that is dropped signals nothing.
PacketsInOrder ==
  LET n == Len(written) - Len(processed)
  IN /\ \A k \in DOMAIN processed : processed[k] = written[k]
     /\ Pending = {(cpu_index + k) % RingSize : k \in 0 .. n - 1}
     /\ \A k \in 0 .. n - 1 :
          buffer[(cpu_index + k) % RingSize] = written[Len(processed) + k + 1]
     /\ program = "threaded_rx" /\ cpu = "waiting" => Pending = {}
=============================================================================

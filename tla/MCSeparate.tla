----------------------------- MODULE MCSeparate -----------------------------
(***************************************************************************)
(* Components that share no state, in one run: `part' is chosen at the     *)
(* start, and only that component moves.  CpswRates is extended, the       *)
(* others are instantiated.                                                *)
(***************************************************************************)
EXTENDS CpswRates, TLC

CONSTANTS n1, n2, v1, v2, v3,
          Slopes, LinkSpeeds,
          Netdevs, Vids, Macs, Groups, Broadcast, Host,
          Readers, Writers, BufSize, MaxWrites,
          Callers, Inputs, None,
          RingSize, BatchSize, Packets

\* The VLANs of the two netdevs: each also asks for the other's reserved one.
PortVlan == n1 :> v1 @@ n2 :> v2
VidsOf == n1 :> {v2, v3} @@ n2 :> {v1}

\* Four traffic classes, and three of which the last has two priorities.
PrioMaps == {<<4, <<0, 1, 2, 3>>>>, <<3, <<0, 1, 2, 2>>>>}

VARIABLES
  part,
  up, other, phy, shp_cfg_speed, fifo_bw, send_pct, shape_en, rate_en, queue_type,
  num_tc, prio_tc, mqprio_hw, tx_pri_map,
  open, promisc, mac, vids, members, synced, vlan, ucast, mcast, bypass,
  device, faults, writes, flag, stored, keys, reader, writer, got, delivered,
  example, stage, step, source, queue, current, result, caller,
  program, own, buffer, hw_index, cpu_index, pkt, nic, cpu, batch, written, processed

shaping == <<up, other, phy, shp_cfg_speed, fifo_bw, send_pct, shape_en, rate_en,
             queue_type, num_tc, prio_tc, mqprio_hw, tx_pri_map>>
table == <<open, promisc, mac, vids, members, synced, vlan, ucast, mcast, bypass>>
blocking == <<device, faults, writes, flag, stored, keys, reader, writer, got,
              delivered>>
deferred == <<example, stage, step, source, queue, current, result,
              caller>>
rings == <<program, own, buffer, hw_index, cpu_index, pkt, nic, cpu, batch,
           written, processed>>

Shaper == INSTANCE CpswShaper
Ale == INSTANCE CpswAle
Blocking == INSTANCE BlockingDevices
Deferred == INSTANCE DeferredWork
Ring == INSTANCE RingSimulation

Parts == {"rates", "shaper", "ale", "blocking", "deferred", "ring"}

MCVars == <<part, vars, shaping, table, blocking, deferred, rings>>

\* What a component may choose at the start is fixed in those that do not move.
MCInit ==
  /\ part \in Parts
  /\ Init /\ (part # "rates" => ~racing)
  /\ Shaper!Init
  /\ Ale!Init
  /\ Blocking!Init /\ (part # "blocking" => device = "led" /\ ~faults)
  /\ Deferred!Init /\ (part # "deferred" => example = "tasklet")
  /\ Ring!Init /\ (part # "ring" => program = "threaded_rx")

MCNext ==
  /\ UNCHANGED part
  /\ \/ part = "rates" /\ Next
     \/ part # "rates" /\ UNCHANGED vars
  /\ \/ part = "shaper" /\ Shaper!Next
     \/ part # "shaper" /\ UNCHANGED shaping
  /\ \/ part = "ale" /\ Ale!Next
     \/ part # "ale" /\ UNCHANGED table
  /\ \/ part = "blocking" /\ Blocking!Next
     \/ part # "blocking" /\ UNCHANGED blocking
  /\ \/ part = "deferred" /\ Deferred!Next
     \/ part # "deferred" /\ UNCHANGED deferred
  /\ \/ part = "ring" /\ Ring!Next
     \/ part # "ring" /\ UNCHANGED rings

MCSpec == MCInit /\ [][MCNext]_MCVars

-----------------------------------------------------------------------------
\* The type invariants of the components.
TypesOK ==
  CASE part = "rates" -> TypeOK
    [] part = "shaper" -> Shaper!TypeOK
    [] part = "ale" -> Ale!TypeOK
    [] part = "blocking" -> Blocking!TypeOK
    [] part = "deferred" -> Deferred!TypeOK
    [] part = "ring" -> Ring!TypeOK

\* CpswShaper: the hardware shapes what was asked for and nothing else, and not
\* the whole bandwidth.
ShapersAgree == part = "shaper" => Shaper!ShapersAgree
\* CpswShaper: an open restores the shapers and the map that a reset has cleared.
RestoredOnOpen == Shaper!RestoredOnOpen
\* CpswAle: every open netdev is served on its VLANs.
VlansServed == part = "ale" => Ale!VlansServed
\* CpswAle: the multicast entries are those of the listeners.
MulticastExact == part = "ale" => Ale!MulticastExact
\* BlockingDevices: no change of the LED or of the buffer is swallowed.
ChangeSeen == part = "blocking" => Blocking!ChangeSeen
\* BlockingDevices: keys come in order, each once.
KeysInOrder == part = "blocking" => Blocking!KeysInOrder
\* BlockingDevices: no wake-up is lost.
NobodyOversleeps == part = "blocking" => Blocking!NobodyOversleeps
\* DeferredWork: no code of a module runs after its exit.
QuietWhenGone == part = "deferred" => Deferred!QuietWhenGone
\* DeferredWork: each ioctl of userdata.c gets its own result.
ResultIsOwn == part = "deferred" => Deferred!ResultIsOwn
\* RingSimulation: packets are processed once and in order.
PacketsInOrder == part = "ring" => Ring!PacketsInOrder
=============================================================================

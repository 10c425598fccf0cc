------------------------------ MODULE CpswAle ------------------------------
(***************************************************************************)
(* What own_cpsw.c puts into the switch's address lookup engine (ALE): the *)
(* VLANs, unicast and multicast addresses of two netdevs that share one    *)
(* table in dual EMAC mode, and the bypass they share for promiscuity.     *)
(*                                                                         *)
(* All operations run under the rtnl lock.  The table itself belongs to    *)
(* another driver: adding a VLAN replaces its members, deleting one with   *)
(* an empty mask frees the entry, and a full table refuses an entry.       *)
(***************************************************************************)
EXTENDS Naturals, FiniteSets

CONSTANTS Netdevs,        \* the netdevs of the slaves
          Vids,           \* VLAN ids in use, without the default VLAN
          PortVlan,       \* slave->port_vlan: the reserved VLAN of each netdev,
                          \* a different one for each
          VidsOf,         \* the VLANs that are asked for on each netdev
          Macs,           \* addresses of netdevs
          Groups,         \* multicast addresses
          Broadcast,
          Host            \* the host port; a netdev names its own port

VARIABLES
  open,      \* the open netdevs
  promisc,   \* the netdevs with IFF_PROMISC
  mac,       \* priv->mac_addr
  vids,      \* the VLANs registered on each netdev (vlan_for_each)
  members,   \* who listens to a group on a netdev: itself, or its VLANs
  synced,    \* the listeners at the last __hw_addr_ref_sync_dev
  vlan,      \* ALE: the members of each VLAN entry
  ucast,     \* ALE: unicast entries, pairs of an address and a VLAN
  mcast,     \* ALE: multicast entries, likewise
  bypass     \* ALE_BYPASS

vars == <<open, promisc, mac, vids, members, synced, vlan, ucast, mcast, bypass>>
table == <<vlan, ucast, mcast>>
stack == <<mac, vids, members, synced>>

Reserved == {PortVlan[n] : n \in Netdevs}
With(entries, vs, who) ==
  [w \in DOMAIN entries \cup vs |-> IF w \in vs THEN who ELSE entries[w]]
Without(entries, v) == [w \in DOMAIN entries \ {v} |-> entries[w]]
Nobody == [g \in Groups |-> {}]

Init ==
  /\ open = {} /\ promisc = {}
  /\ mac = CHOOSE m \in [Netdevs -> Macs] : \A n, o \in Netdevs : m[n] = m[o] => n = o
  /\ vids = [n \in Netdevs |-> {}]
  /\ members = [n \in Netdevs |-> Nobody] /\ synced = [n \in Netdevs |-> Nobody]
  /\ vlan = <<>> /\ ucast = {} /\ mcast = {} /\ bypass = FALSE

-----------------------------------------------------------------------------
\* Multicast: cpsw_add_mc_addr and cpsw_del_mc_addr are told how many listen to
\* the group (num), find those among the VLANs that are up, and take the rest for
\* the netdev itself, whose entries carry the port's VLAN.

Listening(n, g) == members'[n][g] \cap vids'[n]

\* Mutant: the netdev is added whenever its VLANs are.
AddMcAddrAlways(n, g, num) == {<<g, v>> : v \in Listening(n, g) \cup {PortVlan[n]}}

AddMcAddr(n, g, num) ==
  {<<g, v>> : v \in Listening(n, g)}
    \cup (IF Cardinality(Listening(n, g)) < num THEN {<<g, PortVlan[n]>>} ELSE {})

DelMcAddr(n, g, num) ==
  {<<g, v>> : v \in vids'[n] \ Listening(n, g)}
    \cup (IF Cardinality(Listening(n, g)) = num THEN {<<g, PortVlan[n]>>} ELSE {})

\* __hw_addr_ref_sync_dev compares the number of listeners with the last one.
RefSync(n, entries) ==
  LET num(g) == Cardinality(members'[n][g])
      more == {g \in Groups : num(g) > Cardinality(synced[n][g])}
      fewer == {g \in Groups : num(g) < Cardinality(synced[n][g])}
  IN (entries \ UNION {DelMcAddr(n, g, num(g)) : g \in fewer})
       \cup UNION {AddMcAddr(n, g, num(g)) : g \in more}

\* cpsw_set_promiscious: one interface makes the bypass common to both.
Bypass == promisc' # {}

\* cpsw_ndo_set_rx_mode on a table with the multicast entries given: a
\* promiscuous netdev leaves the multicast entries as they are.
SetRxMode(n, entries) ==
  /\ bypass' = Bypass
  /\ IF n \in promisc' THEN mcast' = entries /\ UNCHANGED synced
     ELSE mcast' = RefSync(n, entries) /\ synced' = [synced EXCEPT ![n] = members'[n]]

-----------------------------------------------------------------------------
\* The entries of a VLAN of netdev n (cpsw_add_vlan_ale_entry).
VlanMembers(n) == {n, Host}

\* Mutant: an open does not restore the registered VLANs.
OpenUnrestored(n) ==
  LET kept == IF open = {} THEN {} ELSE mcast
  IN /\ n \notin open /\ open' = open \cup {n}
     /\ UNCHANGED <<promisc, mac, vids, members>>
     /\ vlan' = With(IF open = {} THEN <<>> ELSE vlan, {PortVlan[n]}, VlanMembers(n))
     /\ ucast' = (IF open = {} THEN {} ELSE ucast) \cup {<<mac[n], PortVlan[n]>>}
     /\ SetRxMode(n, kept \cup {<<Broadcast, PortVlan[n]>>})

\* ndo_open.  The first user clears the table (cpsw_init_host_port); each puts in
\* its port's VLAN (cpsw_add_dual_emac_def_ale_entries) and its registered VLANs
\* (cpsw_restore_vlans); dev_open then calls ndo_set_rx_mode.
Open(n) ==
  LET old == IF open = {} THEN <<>> ELSE vlan
      mine == vids[n] \cup {PortVlan[n]}
      kept == IF open = {} THEN {} ELSE mcast
  IN /\ n \notin open /\ open' = open \cup {n}
     /\ UNCHANGED <<promisc, mac, vids, members>>
     /\ vlan' = With(old, mine, VlanMembers(n))
     /\ ucast' = (IF open = {} THEN {} ELSE ucast) \cup {<<mac[n], v>> : v \in mine}
     /\ SetRxMode(n, kept \cup {<<Broadcast, v>> : v \in mine})

\* ndo_stop purges the multicast entries of what was synced (cpsw_purge_all_mc).
\* Its VLANs go down with the netdev, and listen no more.
Purged(n) ==
  UNION {LET up == synced[n][g] \cap vids[n]
         IN {<<g, v>> : v \in up}
              \cup (IF Cardinality(up) < Cardinality(synced[n][g])
                    THEN {<<g, PortVlan[n]>>} ELSE {})
         : g \in {h \in Groups : synced[n][h] # {}}}

Stop(n) ==
  /\ n \in open /\ open' = open \ {n}
  /\ mcast' = mcast \ Purged(n)
  /\ synced' = [synced EXCEPT ![n] = Nobody]
  /\ members' = [members EXCEPT ![n] = [g \in Groups |-> members[n][g] \ vids[n]]]
  /\ UNCHANGED <<promisc, mac, vids, vlan, ucast, bypass>>

\* ndo_vlan_rx_add_vid.  The reserved VLANs of the two ports are refused.
AddVid(n, v) ==
  /\ v \in VidsOf[n] \ vids[n] /\ v \notin Reserved
  /\ vids' = [vids EXCEPT ![n] = @ \cup {v}]
  /\ vlan' = With(vlan, {v}, VlanMembers(n))
  /\ ucast' = ucast \cup {<<mac[n], v>>}
  /\ mcast' = mcast \cup {<<Broadcast, v>>}
  /\ UNCHANGED <<open, promisc, mac, members, synced, bypass>>

\* The table takes the VLAN, but not its unicast or not its broadcast entry: what
\* was added is taken out again, and the VLAN is not registered.
AddVidFails(n, v) ==
  /\ v \in VidsOf[n] \ vids[n] /\ v \notin Reserved
  /\ vlan' = Without(vlan, v)
  /\ \/ UNCHANGED ucast
     \/ ucast' = ucast \ {<<mac[n], v>>}
  /\ UNCHANGED <<open, promisc, stack, mcast, bypass>>

\* ndo_vlan_rx_kill_vid, once the VLAN's own netdev is down and gone; the flush
\* takes the multicast entries of the VLAN with it.
KillVid(n, v) ==
  /\ v \in vids[n] /\ \A g \in Groups : v \notin members[n][g]
  /\ vids' = [vids EXCEPT ![n] = @ \ {v}]
  /\ vlan' = Without(vlan, v)
  /\ ucast' = ucast \ {<<mac[n], v>>}
  /\ mcast' = {e \in mcast : e[2] # v}
  /\ UNCHANGED <<open, promisc, mac, members, synced, bypass>>

\* The netdev itself, or a VLAN of it, starts or ceases to listen to a group.
\* (Not while it is promiscuous: the counts that __hw_addr_ref_sync_dev compares
\* afterwards do not show that one listener took another's place.)
Listen(n, g, who) ==
  /\ who = n \/ (who \in vids[n] /\ n \in open)
  /\ n \notin promisc
  /\ members' = [members EXCEPT ![n][g] =
                   IF who \in @ THEN @ \ {who} ELSE @ \cup {who}]
  /\ UNCHANGED <<open, promisc, mac, vids, vlan, ucast>>
  /\ IF n \in open THEN SetRxMode(n, mcast) ELSE UNCHANGED <<synced, mcast, bypass>>

\* IFF_PROMISC changes; the driver hears of it while the netdev is open.
SetPromisc(n) ==
  /\ promisc' = IF n \in promisc THEN promisc \ {n} ELSE promisc \cup {n}
  /\ UNCHANGED <<open, mac, vids, members, vlan, ucast>>
  /\ IF n \in open THEN SetRxMode(n, mcast) ELSE UNCHANGED <<synced, mcast, bypass>>

\* ndo_set_mac_address replaces the entry of the port's VLAN.
SetMacAddress(n, m) ==
  /\ \A o \in Netdevs : mac[o] # m
  /\ ucast' = (ucast \ {<<mac[n], PortVlan[n]>>}) \cup {<<m, PortVlan[n]>>}
  /\ mac' = [mac EXCEPT ![n] = m]
  /\ UNCHANGED <<open, promisc, vids, members, synced, vlan, mcast, bypass>>

Next ==
  \E n \in Netdevs :
    \/ Open(n) \/ Stop(n) \/ SetPromisc(n)
    \/ \E v \in Vids : AddVid(n, v) \/ AddVidFails(n, v) \/ KillVid(n, v)
    \/ \E g \in Groups, who \in {n} \cup Vids : Listen(n, g, who)
    \/ \E m \in Macs : SetMacAddress(n, m)

Spec == Init /\ [][Next]_vars

-----------------------------------------------------------------------------
\* The state is well typed.
TypeOK ==
  /\ open \subseteq Netdevs /\ promisc \subseteq Netdevs
  /\ mac \in [Netdevs -> Macs] /\ vids \in [Netdevs -> SUBSET Vids]
  /\ \A n \in Netdevs, g \in Groups :
       members[n][g] \cup synced[n][g] \subseteq Vids \cup {n}
  /\ DOMAIN vlan \subseteq Vids
  /\ \A v \in DOMAIN vlan : vlan[v] \subseteq Netdevs \cup {Host}
  /\ ucast \subseteq Macs \X Vids
  /\ mcast \subseteq (Groups \cup {Broadcast}) \X Vids
  /\ bypass \in BOOLEAN

\* As long as the two netdevs use different VLANs, each open one is served on all
\* of its own, whatever the other opens, stops, adds, removes or fails to add; and
\* the reserved VLANs keep the two ports apart.
VlansServed ==
  \A n \in open :
    /\ PortVlan[n] \in DOMAIN vlan /\ vlan[PortVlan[n]] = VlanMembers(n)
    /\ <<mac[n], PortVlan[n]>> \in ucast
    /\ \A v \in vids[n] : /\ v \in DOMAIN vlan /\ vlan[v] = VlanMembers(n)
                          /\ <<Broadcast, v>> \in mcast

\* The multicast entries of an open netdev are those of its listeners: the counts
\* that the sync functions work with never confuse a VLAN with the netdev.
MulticastExact ==
  \A n \in open \ promisc, g \in Groups :
    /\ \A v \in vids[n] : (<<g, v>> \in mcast) = (v \in members[n][g])
    /\ (<<g, PortVlan[n]>> \in mcast) = (n \in members[n][g])
=============================================================================

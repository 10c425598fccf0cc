--------------------------- MODULE SeparateProofs ---------------------------
(***************************************************************************)
(* Proofs about the components of MCSeparate.  The invariants that are     *)
(* proved in the modules of single components hold in its specification,   *)
(* where these run side by side; those of CpswAle, CpswRates and           *)
(* CpswShaper are proved here, after lemmas about sums over finite sets.   *)
(***************************************************************************)
EXTENDS MCSeparate, FiniteSetTheorems, TLAPS

-----------------------------------------------------------------------------
(* CpswAle: what the theorems assume of the two netdevs and their VLANs.   *)

\* There is a reserved VLAN for each netdev, and an address; no VLAN but a
\* reserved one is asked for on both.
Ports ==
  /\ IsFiniteSet(Vids) /\ Netdevs \cap Vids = {} /\ Broadcast \notin Groups
  /\ PortVlan \in [Netdevs -> Vids]
  /\ \A n, o \in Netdevs : PortVlan[n] = PortVlan[o] => n = o
  /\ VidsOf \in [Netdevs -> SUBSET Vids]
  /\ \A n, o \in Netdevs : n # o => VidsOf[n] \cap VidsOf[o] \subseteq Ale!Reserved
  /\ \E m \in [Netdevs -> Macs] : \A n, o \in Netdevs : m[n] = m[o] => n = o

\* Whom a netdev hears of: itself and its registered VLANs.
Known(n, v) == {n} \cup v[n]

\* The functions of the network stack, and the VLANs of each netdev its own.
StackTyped ==
  /\ open \subseteq Netdevs
  /\ mac \in [Netdevs -> Macs]
  /\ vids \in [Netdevs -> SUBSET Vids]
  /\ \A n \in Netdevs : vids[n] \subseteq VidsOf[n] \ Ale!Reserved
  /\ members \in [Netdevs -> [Groups -> SUBSET (Netdevs \cup Vids)]]
  /\ synced \in [Netdevs -> [Groups -> SUBSET (Netdevs \cup Vids)]]
  /\ \A n \in Netdevs, g \in Groups : members[n][g] \subseteq Known(n, vids)

\* What has been synced is what is listened to now, or nothing yet: of a netdev
\* that is closed, or has been promiscuous since it opened.
SyncedUpToDate ==
  \A n \in Netdevs :
    \/ n \in open /\ synced[n] = members[n]
    \/ /\ n \notin open \/ n \in promisc
       /\ \A g \in Groups : synced[n][g] = {} /\ members[n][g] \subseteq {n}

\* The entries in E for the VLANs vs of netdev n are those of the listeners s.
Exact(n, vs, E, s) ==
  \A g \in Groups :
    /\ \A v \in vs : <<g, v>> \in E <=> v \in s[g]
    /\ <<g, PortVlan[n]>> \in E <=> n \in s[g]

\* Every multicast entry belongs to a netdev, and shows whom it has synced.
EntriesSynced ==
  /\ \A n \in Netdevs : Exact(n, vids[n], mcast, synced[n])
  /\ \A g \in Groups, v \in Vids :
       <<g, v>> \in mcast => v \in Ale!Reserved \/ \E n \in Netdevs : v \in vids[n]

AleInv == StackTyped /\ SyncedUpToDate /\ EntriesSynced /\ Ale!VlansServed

\* The cardinality that CpswAle takes is the one of the theorems.
LEMMA AleCardinality == \A S : Ale!Cardinality(S) = Cardinality(S)
  BY DEF Ale!Cardinality, Cardinality

\* How many of a netdev's listeners are VLANs tells whether it listens itself.
LEMMA CountTellsSelf ==
  ASSUME NEW n, NEW V, n \notin V, NEW S, S \subseteq {n} \cup V, IsFiniteSet(V)
  PROVE /\ (Cardinality(S \cap V) < Cardinality(S)) <=> n \in S
        /\ (Cardinality(S \cap V) = Cardinality(S)) <=> n \notin S
<1>1. IsFiniteSet(S \cap V) /\ Cardinality(S \cap V) \in Nat
  BY FS_Subset, FS_CardinalityType
<1>2. CASE n \in S
  <2>1. S = (S \cap V) \cup {n}
    BY <1>2
  <2>2. Cardinality(S) = Cardinality(S \cap V) + 1
    BY <1>1, <2>1, FS_AddElement
  <2> QED BY <1>1, <1>2, <2>2
<1>3. CASE n \notin S
  <2>1. S \cap V = S
    BY <1>3
  <2> QED BY <1>1, <1>3, <2>1
<1> QED BY <1>2, <1>3

\* __hw_addr_ref_sync_dev compares counts: it sees which of two sets is larger.
LEMMA CountTellsMore ==
  ASSUME NEW S, NEW T, IsFiniteSet(S), IsFiniteSet(T), S \subseteq T \/ T \subseteq S
  PROVE /\ Cardinality(S) > Cardinality(T) <=> T \subseteq S /\ S # T
        /\ Cardinality(S) < Cardinality(T) <=> S \subseteq T /\ S # T
<1>1. Cardinality(S) \in Nat /\ Cardinality(T) \in Nat
  BY FS_CardinalityType
<1>2. S \subseteq T /\ S # T => Cardinality(S) < Cardinality(T)
  BY FS_Subset, <1>1
<1>3. T \subseteq S /\ S # T => Cardinality(T) < Cardinality(S)
  BY FS_Subset, <1>1
<1> QED BY <1>1, <1>2, <1>3

\* The result of a synchronisation shows the listeners, and touches no entry of
\* another netdev, if no group has exchanged one listener for another.
LEMMA RefSyncIsExact ==
  ASSUME Ports, NEW n \in Netdevs, NEW E, vids' = vids,
         vids[n] \subseteq Vids \ {PortVlan[n]},
         \A g \in Groups : /\ members'[n][g] \subseteq Known(n, vids)
                           /\ synced[n][g] \subseteq Known(n, vids)
                           /\ \/ members'[n][g] \subseteq synced[n][g]
                              \/ synced[n][g] \subseteq members'[n][g],
         Exact(n, vids[n], E, synced[n])
  PROVE /\ Exact(n, vids[n], Ale!RefSync(n, E), members'[n])
        /\ \A g, v : g \notin Groups \/ v \notin vids[n] \cup {PortVlan[n]} =>
             (<<g, v>> \in Ale!RefSync(n, E) <=> <<g, v>> \in E)
<1> DEFINE num(g) == Ale!Cardinality(members'[n][g])
           more == {g \in Groups : num(g) > Ale!Cardinality(synced[n][g])}
           fewer == {g \in Groups : num(g) < Ale!Cardinality(synced[n][g])}
           Dels == UNION {Ale!DelMcAddr(n, g, num(g)) : g \in fewer}
           Adds == UNION {Ale!AddMcAddr(n, g, num(g)) : g \in more}
           R == (E \ Dels) \cup Adds
<1>1. Ale!RefSync(n, E) = R
  BY DEF Ale!RefSync
<1>2. IsFiniteSet(vids[n]) /\ IsFiniteSet(Known(n, vids)) /\ n \notin vids[n]
  <2>1. IsFiniteSet(vids[n])
    BY FS_Subset DEF Ports
  <2> QED BY <2>1, FS_AddElement DEF Known, Ports
<1>3. ASSUME NEW g \in Groups
      PROVE /\ Ale!Listening(n, g) = members'[n][g] \cap vids[n]
            /\ Ale!Cardinality(Ale!Listening(n, g)) < num(g) <=> n \in members'[n][g]
            /\ Ale!Cardinality(Ale!Listening(n, g)) = num(g) <=> n \notin members'[n][g]
            /\ g \in more <=> synced[n][g] \subseteq members'[n][g]
                              /\ synced[n][g] # members'[n][g]
            /\ g \in fewer <=> members'[n][g] \subseteq synced[n][g]
                               /\ synced[n][g] # members'[n][g]
  <2>1. Ale!Listening(n, g) = members'[n][g] \cap vids[n]
    BY DEF Ale!Listening
  <2>2. IsFiniteSet(members'[n][g]) /\ IsFiniteSet(synced[n][g])
    BY <1>2, FS_Subset
  <2>3. members'[n][g] \subseteq {n} \cup vids[n]
    BY DEF Known
  <2>4. /\ Ale!Cardinality(members'[n][g] \cap vids[n]) < num(g) <=> n \in members'[n][g]
        /\ Ale!Cardinality(members'[n][g] \cap vids[n]) = num(g) <=> n \notin members'[n][g]
    BY <1>2, <2>3, CountTellsSelf, AleCardinality
  <2>5. /\ g \in more <=> synced[n][g] \subseteq members'[n][g]
                          /\ synced[n][g] # members'[n][g]
        /\ g \in fewer <=> members'[n][g] \subseteq synced[n][g]
                           /\ synced[n][g] # members'[n][g]
    BY <2>2, CountTellsMore, AleCardinality
  <2> QED BY <2>1, <2>4, <2>5
<1>4. ASSUME NEW g, NEW v
      PROVE /\ <<g, v>> \in Adds <=> /\ g \in more
                                     /\ \/ v \in members'[n][g] \cap vids[n]
                                        \/ v = PortVlan[n] /\ n \in members'[n][g]
            /\ <<g, v>> \in Dels <=> /\ g \in fewer
                                     /\ \/ v \in vids[n] \ members'[n][g]
                                        \/ v = PortVlan[n] /\ n \notin members'[n][g]
  <2>1. ASSUME NEW h \in Groups
        PROVE /\ <<g, v>> \in Ale!AddMcAddr(n, h, num(h)) <=>
                   g = h /\ \/ v \in members'[n][h] \cap vids[n]
                            \/ v = PortVlan[n] /\ n \in members'[n][h]
              /\ <<g, v>> \in Ale!DelMcAddr(n, h, num(h)) <=>
                   g = h /\ \/ v \in vids[n] \ members'[n][h]
                            \/ v = PortVlan[n] /\ n \notin members'[n][h]
    <3> HIDE DEF num
    <3>1. <<g, v>> \in Ale!AddMcAddr(n, h, num(h)) <=>
            g = h /\ \/ v \in members'[n][h] \cap vids[n]
                     \/ v = PortVlan[n] /\ n \in members'[n][h]
      BY <1>3 DEF Ale!AddMcAddr
    <3>2. <<g, v>> \in Ale!DelMcAddr(n, h, num(h)) <=>
            g = h /\ \/ v \in vids[n] \ members'[n][h]
                     \/ v = PortVlan[n] /\ n \notin members'[n][h]
      BY <1>3 DEF Ale!DelMcAddr
    <3> QED BY <3>1, <3>2
  <2>2. more \subseteq Groups /\ fewer \subseteq Groups
    OBVIOUS
  <2> HIDE DEF more, fewer, num
  <2>3. <<g, v>> \in Adds <=> \E h \in more : <<g, v>> \in Ale!AddMcAddr(n, h, num(h))
    OBVIOUS
  <2>4. <<g, v>> \in Dels <=> \E h \in fewer : <<g, v>> \in Ale!DelMcAddr(n, h, num(h))
    OBVIOUS
  <2> HIDE DEF Adds, Dels
  <2> QED BY <2>1, <2>2, <2>3, <2>4
<1>5. more \subseteq Groups /\ fewer \subseteq Groups
  OBVIOUS
<1> HIDE DEF Adds, Dels, more, fewer, num
<1>6. \A g, v : g \notin Groups \/ v \notin vids[n] \cup {PortVlan[n]} =>
        (<<g, v>> \in R <=> <<g, v>> \in E)
  BY <1>4, <1>5
<1>7. ASSUME NEW g \in Groups
      PROVE /\ \A v \in vids[n] : <<g, v>> \in R <=> v \in members'[n][g]
            /\ <<g, PortVlan[n]>> \in R <=> n \in members'[n][g]
  <2>1. /\ \A v \in vids[n] : <<g, v>> \in E <=> v \in synced[n][g]
        /\ <<g, PortVlan[n]>> \in E <=> n \in synced[n][g]
    BY DEF Exact
  <2>2. PortVlan[n] \notin vids[n]
    OBVIOUS
  <2>3. \/ g \in more /\ g \notin fewer /\ synced[n][g] \subseteq members'[n][g]
        \/ g \in fewer /\ g \notin more /\ members'[n][g] \subseteq synced[n][g]
        \/ g \notin more /\ g \notin fewer /\ members'[n][g] = synced[n][g]
    BY <1>3
  <2>4. ASSUME NEW v \in vids[n] PROVE <<g, v>> \in R <=> v \in members'[n][g]
    BY <1>4, <2>1, <2>2, <2>3
  <2>5. <<g, PortVlan[n]>> \in R <=> n \in members'[n][g]
    BY <1>4, <2>1, <2>2, <2>3
  <2> QED BY <2>4, <2>5
<1> HIDE DEF R
<1> QED BY <1>1, <1>6, <1>7 DEF Exact

-----------------------------------------------------------------------------
(* CpswAle: the initial state.                                             *)

\* At first nothing is open, and nothing in the table.
LEMMA AleInit == ASSUME Ports, Ale!Init PROVE AleInv
<1>1. mac \in [Netdevs -> Macs]
  BY DEF Ports, Ale!Init
<1>2. members = [n \in Netdevs |-> [g \in Groups |-> {}]] /\ synced = members
  BY DEF Ale!Init, Ale!Nobody
<1>3. vids = [n \in Netdevs |-> {}] /\ mcast = {} /\ open = {}
  BY DEF Ale!Init
<1>4. StackTyped
  BY <1>1, <1>2, <1>3 DEF StackTyped
<1>5. SyncedUpToDate
  BY <1>2, <1>3 DEF SyncedUpToDate
<1>6. EntriesSynced
  BY <1>2, <1>3 DEF EntriesSynced, Exact
<1>7. Ale!VlansServed
  BY <1>3 DEF Ale!VlansServed
<1> QED BY <1>4, <1>5, <1>6, <1>7 DEF AleInv
-----------------------------------------------------------------------------
(* CpswAle: what the steps have in common.                                 *)

\* The VLANs of a netdev, the reserved one among them, are no other's.
LEMMA VlansApart ==
  ASSUME Ports, StackTyped, NEW n \in Netdevs, NEW o \in Netdevs
  PROVE /\ PortVlan[n] \in Vids \cap Ale!Reserved /\ PortVlan[n] \notin vids[o]
        /\ vids[n] \subseteq Vids \ Ale!Reserved
        /\ n \notin Vids
        /\ n # o => /\ PortVlan[n] # PortVlan[o]
                    /\ \A v \in vids[n] : v \notin vids[o]
<1>1. PortVlan[n] \in Vids \cap Ale!Reserved
  BY DEF Ports, Ale!Reserved
<1>2. vids[n] \subseteq VidsOf[n] \ Ale!Reserved /\ vids[o] \subseteq VidsOf[o] \ Ale!Reserved
  BY DEF StackTyped
<1>3. vids[n] \subseteq Vids /\ n \notin Vids
  BY DEF StackTyped, Ports
<1>4. n # o => PortVlan[n] # PortVlan[o] /\ VidsOf[n] \cap VidsOf[o] \subseteq Ale!Reserved
  BY DEF Ports
<1> QED BY <1>1, <1>2, <1>3, <1>4

\* What has been synced is known as well.
LEMMA SyncedIsKnown ==
  ASSUME StackTyped, SyncedUpToDate, NEW n \in Netdevs, NEW g \in Groups
  PROVE synced[n][g] \subseteq Known(n, vids)
  BY DEF StackTyped, SyncedUpToDate

\* A set of entries shows whom every netdev has synced.
AllExact(E) ==
  /\ \A o \in Netdevs : Exact(o, vids[o], E, synced[o])
  /\ \A g \in Groups, v \in Vids :
       <<g, v>> \in E => v \in Ale!Reserved \/ \E o \in Netdevs : v \in vids[o]

\* cpsw_ndo_set_rx_mode brings the entries of one netdev up to date, and leaves
\* those of the others and the broadcast entries.
LEMMA SetRxModeSyncs ==
  ASSUME Ports, StackTyped, SyncedUpToDate, vids' = vids,
         NEW n \in Netdevs, NEW E, Ale!SetRxMode(n, E), AllExact(E),
         members' \in [Netdevs -> [Groups -> SUBSET (Netdevs \cup Vids)]],
         \A g \in Groups : /\ members'[n][g] \subseteq Known(n, vids)
                           /\ \/ members'[n][g] \subseteq synced[n][g]
                              \/ synced[n][g] \subseteq members'[n][g]
  PROVE /\ EntriesSynced'
        /\ \A v : <<Broadcast, v>> \in E => <<Broadcast, v>> \in mcast'
        /\ synced' = IF n \in promisc' THEN synced ELSE [synced EXCEPT ![n] = members'[n]]
<1>1. CASE n \in promisc'
  <2>1. mcast' = E /\ synced' = synced
    BY <1>1 DEF Ale!SetRxMode
  <2> QED BY <1>1, <2>1 DEF AllExact, EntriesSynced, Exact
<1>2. CASE n \notin promisc'
  <2>1. mcast' = Ale!RefSync(n, E) /\ synced' = [synced EXCEPT ![n] = members'[n]]
    BY <1>2 DEF Ale!SetRxMode
  <2>2. vids[n] \subseteq Vids \ {PortVlan[n]}
    BY VlansApart
  <2>3. \A g \in Groups : synced[n][g] \subseteq Known(n, vids)
    BY SyncedIsKnown
  <2>4. Exact(n, vids[n], E, synced[n])
    BY DEF AllExact
  <2>5. /\ Exact(n, vids[n], mcast', members'[n])
        /\ \A g, v : g \notin Groups \/ v \notin vids[n] \cup {PortVlan[n]} =>
             (<<g, v>> \in mcast' <=> <<g, v>> \in E)
    BY <2>1, <2>2, <2>3, <2>4, RefSyncIsExact
  <2>6. synced \in [Netdevs -> [Groups -> SUBSET (Netdevs \cup Vids)]]
    BY DEF StackTyped
  <2>7. synced'[n] = members'[n] /\ \A o \in Netdevs : o # n => synced'[o] = synced[o]
    BY <2>1, <2>6
  <2>8. ASSUME NEW o \in Netdevs PROVE Exact(o, vids[o], mcast', synced'[o])
    <3>1. CASE o = n
      BY <3>1, <2>5, <2>7
    <3>2. CASE o # n
      <4>1. PortVlan[o] \notin vids[n] \cup {PortVlan[n]}
        BY <3>2, VlansApart
      <4>2. \A v \in vids[o] : v \notin vids[n] \cup {PortVlan[n]}
        BY <3>2, VlansApart
      <4>3. Exact(o, vids[o], E, synced[o])
        BY DEF AllExact
      <4> QED BY <2>5, <2>7, <3>2, <4>1, <4>2, <4>3 DEF Exact
    <3> QED BY <3>1, <3>2
  <2>9. ASSUME NEW g \in Groups, NEW v \in Vids, <<g, v>> \in mcast'
        PROVE v \in Ale!Reserved \/ \E o \in Netdevs : v \in vids[o]
    <3>1. CASE v \in vids[n] \cup {PortVlan[n]}
      BY <3>1, VlansApart
    <3>2. CASE v \notin vids[n] \cup {PortVlan[n]}
      BY <2>5, <2>9, <3>2 DEF AllExact
    <3> QED BY <3>1, <3>2
  <2>10. \A v : <<Broadcast, v>> \in E => <<Broadcast, v>> \in mcast'
    BY <2>5 DEF Ports
  <2>11. Ale!Reserved' = Ale!Reserved
    BY DEF Ale!Reserved
  <2> QED BY <1>2, <2>1, <2>8, <2>9, <2>10, <2>11 DEF EntriesSynced, Exact
<1> QED BY <1>1, <1>2

-----------------------------------------------------------------------------
(* CpswAle: every operation keeps the invariant.                           *)

\* cpsw_ndo_open adds the default entries, restores the VLANs and syncs, when
\* the netdev is not promiscuous.
LEMMA AleOpen ==
  ASSUME Ports, AleInv, NEW n \in Netdevs, Ale!Open(n) PROVE AleInv'
<1> DEFINE old == IF open = {} THEN <<>> ELSE vlan
           mine == vids[n] \cup {PortVlan[n]}
           kept == IF open = {} THEN {} ELSE mcast
           E == kept \cup {<<Broadcast, v>> : v \in mine}
<1> USE DEF AleInv
<1>1. /\ n \notin open /\ open' = open \cup {n}
      /\ promisc' = promisc /\ mac' = mac /\ vids' = vids /\ members' = members
      /\ vlan' = Ale!With(old, mine, Ale!VlanMembers(n))
      /\ ucast' = (IF open = {} THEN {} ELSE ucast) \cup {<<mac[n], v>> : v \in mine}
      /\ Ale!SetRxMode(n, E)
  BY DEF Ale!Open
<1>2. \A g \in Groups : synced[n][g] = {} /\ members[n][g] \subseteq {n}
  BY <1>1 DEF SyncedUpToDate
<1>3. AllExact(E)
  <2>1. \A g \in Groups : \A v : <<g, v>> \in E <=> open # {} /\ <<g, v>> \in mcast
    BY DEF Ports
  <2>2. CASE open = {}
    <3>1. \A o \in Netdevs, g \in Groups : synced[o][g] = {}
      BY <2>2 DEF SyncedUpToDate
    <3> HIDE DEF E
    <3> QED BY <2>1, <2>2, <3>1 DEF AllExact, Exact
  <2>3. CASE open # {}
    <3> HIDE DEF E
    <3> QED BY <2>1, <2>3 DEF AllExact, Exact, EntriesSynced
  <2> QED BY <2>2, <2>3
<1> HIDE DEF E
<1>4. members \in [Netdevs -> [Groups -> SUBSET (Netdevs \cup Vids)]]
  BY DEF StackTyped
<1>5. \A g \in Groups : members'[n][g] \subseteq Known(n, vids)
                        /\ synced[n][g] \subseteq members'[n][g]
  BY <1>1, <1>2 DEF Known
<1>6. /\ EntriesSynced'
      /\ \A v : <<Broadcast, v>> \in E => <<Broadcast, v>> \in mcast'
      /\ synced' = IF n \in promisc' THEN synced ELSE [synced EXCEPT ![n] = members'[n]]
  BY <1>1, <1>3, <1>4, <1>5, SetRxModeSyncs
<1>7. StackTyped'
  BY <1>1, <1>6 DEF StackTyped, Known, Ale!Reserved
<1>8. SyncedUpToDate'
  <2>1. synced \in [Netdevs -> [Groups -> SUBSET (Netdevs \cup Vids)]]
    BY DEF StackTyped
  <2> QED BY <1>1, <1>2, <1>6, <2>1 DEF SyncedUpToDate
<1>9. Ale!VlansServed'
  <2>1. \A v : /\ v \in mine => v \in DOMAIN vlan' /\ vlan'[v] = Ale!VlanMembers(n)
               /\ v \notin mine /\ v \in DOMAIN old => v \in DOMAIN vlan' /\ vlan'[v] = old[v]
    BY <1>1 DEF Ale!With
  <2>2. \A v \in mine : <<mac[n], v>> \in ucast' /\ <<Broadcast, v>> \in mcast'
    BY <1>1, <1>6 DEF E
  <2>3. ASSUME NEW o \in open', o \in Netdevs
        PROVE /\ PortVlan[o] \in DOMAIN vlan' /\ vlan'[PortVlan[o]] = Ale!VlanMembers(o)
              /\ <<mac[o], PortVlan[o]>> \in ucast'
              /\ \A v \in vids[o] : /\ v \in DOMAIN vlan' /\ vlan'[v] = Ale!VlanMembers(o)
                                    /\ <<Broadcast, v>> \in mcast'
    <3>1. CASE o = n
      <4> HIDE DEF old
      <4> QED BY <2>1, <2>2, <3>1
    <3>2. CASE o # n
      <4>1. o \in open /\ open # {} /\ old = vlan
        BY <1>1, <2>3, <3>2
      <4>2. PortVlan[o] \notin mine /\ \A v \in vids[o] : v \notin mine
        BY <2>3, <3>2, VlansApart
      <4>3. /\ PortVlan[o] \in DOMAIN vlan /\ vlan[PortVlan[o]] = Ale!VlanMembers(o)
            /\ <<mac[o], PortVlan[o]>> \in ucast
            /\ \A v \in vids[o] : /\ v \in DOMAIN vlan /\ vlan[v] = Ale!VlanMembers(o)
                                  /\ <<Broadcast, v>> \in mcast
        BY <4>1 DEF Ale!VlansServed
      <4>4. \A v \in vids[o] : <<Broadcast, v>> \in mcast'
        BY <1>6, <4>1, <4>3 DEF E
      <4>5. <<mac[o], PortVlan[o]>> \in ucast'
        BY <1>1, <4>1, <4>3
      <4> HIDE DEF old
      <4> QED BY <2>1, <4>1, <4>2, <4>3, <4>4, <4>5
    <3> QED BY <3>1, <3>2
  <2>4. open' \subseteq Netdevs
    BY <1>1 DEF StackTyped
  <2> HIDE DEF old, mine
  <2> QED BY <1>1, <2>3, <2>4 DEF Ale!VlansServed, Ale!VlanMembers
<1> QED BY <1>6, <1>7, <1>8, <1>9

\* cpsw_ndo_stop takes back what was synced; the VLANs stay registered.
LEMMA AleStop ==
  ASSUME Ports, AleInv, NEW n \in Netdevs, Ale!Stop(n) PROVE AleInv'
<1> USE DEF AleInv
<1>1. /\ n \in open /\ open' = open \ {n}
      /\ mcast' = mcast \ Ale!Purged(n)
      /\ synced' = [synced EXCEPT ![n] = Ale!Nobody]
      /\ members' = [members EXCEPT ![n] = [g \in Groups |-> members[n][g] \ vids[n]]]
      /\ promisc' = promisc /\ mac' = mac /\ vids' = vids /\ vlan' = vlan /\ ucast' = ucast
  BY DEF Ale!Stop
<1>2. /\ members \in [Netdevs -> [Groups -> SUBSET (Netdevs \cup Vids)]]
      /\ synced \in [Netdevs -> [Groups -> SUBSET (Netdevs \cup Vids)]]
  BY DEF StackTyped
<1>3. /\ \A g \in Groups : synced'[n][g] = {} /\ members'[n][g] = members[n][g] \ vids[n]
      /\ \A o \in Netdevs : o # n => synced'[o] = synced[o] /\ members'[o] = members[o]
  BY <1>1, <1>2 DEF Ale!Nobody
<1>4. ASSUME NEW g, NEW v
      PROVE <<g, v>> \in Ale!Purged(n) <=>
              /\ g \in Groups
              /\ \/ v \in synced[n][g] \cap vids[n]
                 \/ v = PortVlan[n] /\ n \in synced[n][g]
  <2> DEFINE Part(h) == LET heard == synced[n][h] \cap vids[n]
                        IN {<<h, w>> : w \in heard}
                             \cup (IF Ale!Cardinality(heard) < Ale!Cardinality(synced[n][h])
                                   THEN {<<h, PortVlan[n]>>} ELSE {})
  <2>1. Ale!Purged(n) = UNION {Part(h) : h \in {k \in Groups : synced[n][k] # {}}}
    BY DEF Ale!Purged
  <2>2. ASSUME NEW h \in Groups
        PROVE <<g, v>> \in Part(h) <=>
                g = h /\ \/ v \in synced[n][h] \cap vids[n]
                         \/ v = PortVlan[n] /\ n \in synced[n][h]
    <3>1. synced[n][h] \subseteq {n} \cup vids[n]
      BY SyncedIsKnown DEF Known
    <3>2. n \notin vids[n] /\ IsFiniteSet(vids[n])
      BY VlansApart, FS_Subset DEF Ports
    <3>3. Ale!Cardinality(synced[n][h] \cap vids[n]) < Ale!Cardinality(synced[n][h])
            <=> n \in synced[n][h]
      BY <3>1, <3>2, CountTellsSelf, AleCardinality
    <3> QED BY <3>3
  <2> HIDE DEF Part
  <2>3. <<g, v>> \in Ale!Purged(n) <=>
          \E h \in Groups : synced[n][h] # {} /\ <<g, v>> \in Part(h)
    BY <2>1
  <2> QED BY <2>2, <2>3
<1>5. StackTyped'
  BY <1>1, <1>2, <1>3 DEF StackTyped, Known, Ale!Nobody, Ale!Reserved
<1>6. SyncedUpToDate'
  BY <1>1, <1>3 DEF SyncedUpToDate, StackTyped, Known
<1>7. EntriesSynced'
  <2>1. ASSUME NEW o \in Netdevs PROVE Exact(o, vids[o], mcast', synced'[o])
    <3>1. Exact(o, vids[o], mcast, synced[o])
      BY DEF EntriesSynced
    <3>2. CASE o = n
      BY <1>1, <1>3, <1>4, <3>1, <3>2 DEF Exact
    <3>3. CASE o # n
      <4>1. /\ PortVlan[o] # PortVlan[n] /\ PortVlan[o] \notin vids[n]
            /\ \A v \in vids[o] : v # PortVlan[n] /\ v \notin vids[n]
        BY <3>3, VlansApart
      <4> QED BY <1>1, <1>3, <1>4, <3>1, <3>3, <4>1 DEF Exact
    <3> QED BY <3>2, <3>3
  <2> QED BY <1>1, <2>1 DEF EntriesSynced, Ale!Reserved, Exact
<1>8. Ale!VlansServed'
  <2>1. \A v : <<Broadcast, v>> \in mcast => <<Broadcast, v>> \in mcast'
    BY <1>1, <1>4 DEF Ports
  <2> QED BY <1>1, <2>1 DEF Ale!VlansServed, Ale!VlanMembers
<1> QED BY <1>5, <1>6, <1>7, <1>8

\* cpsw_ndo_vlan_rx_add_vid adds a VLAN of the netdev's own, or finds it reserved.
LEMMA AleAddVid ==
  ASSUME Ports, AleInv, NEW n \in Netdevs, NEW v \in Vids, Ale!AddVid(n, v) PROVE AleInv'
<1> USE DEF AleInv
<1>1. /\ v \in VidsOf[n] \ vids[n] /\ v \notin Ale!Reserved
      /\ vids' = [vids EXCEPT ![n] = @ \cup {v}]
      /\ vlan' = Ale!With(vlan, {v}, Ale!VlanMembers(n))
      /\ ucast' = ucast \cup {<<mac[n], v>>}
      /\ mcast' = mcast \cup {<<Broadcast, v>>}
      /\ open' = open /\ promisc' = promisc /\ mac' = mac
      /\ members' = members /\ synced' = synced
  BY DEF Ale!AddVid
<1>2. /\ vids'[n] = vids[n] \cup {v}
      /\ \A o \in Netdevs : o # n => vids'[o] = vids[o]
  BY <1>1 DEF StackTyped
<1>3. \A o \in Netdevs : v \notin vids[o] /\ v # PortVlan[o]
  BY <1>1 DEF StackTyped, Ports, Ale!Reserved
<1>4. \A g \in Groups : \A w : <<g, w>> \in mcast' <=> <<g, w>> \in mcast
  BY <1>1 DEF Ports
<1>5. \A g \in Groups : <<g, v>> \notin mcast
  BY <1>1, <1>3 DEF EntriesSynced
<1>6. \A g \in Groups, o \in Netdevs : v \notin synced[o][g]
  <2>1. \A o \in Netdevs : v # o
    BY DEF Ports
  <2> QED BY <1>3, <2>1, SyncedIsKnown DEF Known
<1>7. StackTyped'
  BY <1>1, <1>2 DEF StackTyped, Known, Ale!Reserved
<1>8. SyncedUpToDate'
  BY <1>1 DEF SyncedUpToDate
<1>9. EntriesSynced'
  <2>1. ASSUME NEW o \in Netdevs PROVE Exact(o, vids'[o], mcast', synced[o])
    <3>1. Exact(o, vids[o], mcast, synced[o])
      BY DEF EntriesSynced
    <3>2. vids'[o] \subseteq vids[o] \cup {v}
      BY <1>2
    <3> QED BY <1>4, <1>5, <1>6, <3>1, <3>2 DEF Exact
  <2>2. ASSUME NEW g \in Groups, NEW w \in Vids, <<g, w>> \in mcast'
        PROVE w \in Ale!Reserved \/ \E o \in Netdevs : w \in vids'[o]
    <3>1. w \in Ale!Reserved \/ \E o \in Netdevs : w \in vids[o]
      BY <1>4, <2>2 DEF EntriesSynced
    <3>2. \A o \in Netdevs : vids[o] \subseteq vids'[o]
      BY <1>2
    <3> QED BY <3>1, <3>2
  <2> QED BY <1>1, <2>1, <2>2 DEF EntriesSynced, Ale!Reserved, Exact
<1>10. Ale!VlansServed'
  <2>1. /\ v \in DOMAIN vlan' /\ vlan'[v] = Ale!VlanMembers(n)
        /\ \A w \in DOMAIN vlan : w # v => w \in DOMAIN vlan' /\ vlan'[w] = vlan[w]
    BY <1>1 DEF Ale!With
  <2>2. ASSUME NEW o \in open
        PROVE /\ PortVlan[o] \in DOMAIN vlan' /\ vlan'[PortVlan[o]] = Ale!VlanMembers(o)
              /\ <<mac[o], PortVlan[o]>> \in ucast'
              /\ \A w \in vids'[o] : /\ w \in DOMAIN vlan' /\ vlan'[w] = Ale!VlanMembers(o)
                                     /\ <<Broadcast, w>> \in mcast'
    <3>1. o \in Netdevs
      BY DEF StackTyped
    <3>2. /\ PortVlan[o] \in DOMAIN vlan /\ vlan[PortVlan[o]] = Ale!VlanMembers(o)
          /\ <<mac[o], PortVlan[o]>> \in ucast
          /\ \A w \in vids[o] : /\ w \in DOMAIN vlan /\ vlan[w] = Ale!VlanMembers(o)
                                /\ <<Broadcast, w>> \in mcast
      BY DEF Ale!VlansServed
    <3>3. ASSUME NEW w \in vids'[o]
          PROVE /\ w \in DOMAIN vlan' /\ vlan'[w] = Ale!VlanMembers(o)
                /\ <<Broadcast, w>> \in mcast'
      <4>1. w \in vids[o] \/ (w = v /\ o = n)
        BY <1>2, <3>1
      <4> QED BY <1>1, <1>3, <2>1, <3>1, <3>2, <4>1
    <3> QED BY <1>1, <1>3, <2>1, <3>1, <3>2, <3>3
  <2> QED BY <1>1, <2>2 DEF Ale!VlansServed, Ale!VlanMembers
<1> QED BY <1>7, <1>8, <1>9, <1>10

\* An addition that fails half way takes out what it put in, and nothing else.
LEMMA AleAddVidFails ==
  ASSUME Ports, AleInv, NEW n \in Netdevs, NEW v \in Vids, Ale!AddVidFails(n, v) PROVE AleInv'
<1> USE DEF AleInv
<1>1. /\ v \in VidsOf[n] \ vids[n] /\ v \notin Ale!Reserved
      /\ vlan' = Ale!Without(vlan, v)
      /\ ucast' \in {ucast, ucast \ {<<mac[n], v>>}}
      /\ open' = open /\ promisc' = promisc /\ mac' = mac /\ vids' = vids
      /\ members' = members /\ synced' = synced /\ mcast' = mcast
  BY DEF Ale!AddVidFails, Ale!stack
<1>2. \A o \in Netdevs : v \notin vids[o] /\ v # PortVlan[o]
  BY <1>1 DEF StackTyped, Ports, Ale!Reserved
<1>3. StackTyped' /\ SyncedUpToDate' /\ EntriesSynced'
  BY <1>1 DEF StackTyped, SyncedUpToDate, EntriesSynced, Exact, Known, Ale!Reserved
<1>4. Ale!VlansServed'
  <2>1. \A w \in DOMAIN vlan : w # v => w \in DOMAIN vlan' /\ vlan'[w] = vlan[w]
    BY <1>1 DEF Ale!Without
  <2>2. \A o \in open : o \in Netdevs
    BY DEF StackTyped
  <2> QED BY <1>1, <1>2, <2>1, <2>2 DEF Ale!VlansServed, Ale!VlanMembers
<1> QED BY <1>3, <1>4

\* cpsw_ndo_vlan_rx_kill_vid removes the entries of its VLAN, and no other's.
LEMMA AleKillVid ==
  ASSUME Ports, AleInv, NEW n \in Netdevs, NEW v \in Vids, Ale!KillVid(n, v) PROVE AleInv'
<1> USE DEF AleInv
<1>1. /\ v \in vids[n] /\ \A g \in Groups : v \notin members[n][g]
      /\ vids' = [vids EXCEPT ![n] = @ \ {v}]
      /\ vlan' = Ale!Without(vlan, v)
      /\ ucast' = ucast \ {<<mac[n], v>>}
      /\ mcast' = {e \in mcast : e[2] # v}
      /\ open' = open /\ promisc' = promisc /\ mac' = mac
      /\ members' = members /\ synced' = synced
  BY DEF Ale!KillVid
<1>2. /\ vids'[n] = vids[n] \ {v}
      /\ \A o \in Netdevs : o # n => vids'[o] = vids[o]
  BY <1>1 DEF StackTyped
<1>3. \A o \in Netdevs : v # PortVlan[o] /\ v \notin vids'[o]
  BY <1>1, <1>2, VlansApart
<1>4. \A g, w : <<g, w>> \in mcast' <=> <<g, w>> \in mcast /\ w # v
  BY <1>1
<1>5. StackTyped'
  BY <1>1, <1>2 DEF StackTyped, Known, Ale!Reserved
<1>6. SyncedUpToDate'
  BY <1>1 DEF SyncedUpToDate
<1>7. EntriesSynced'
  <2>1. ASSUME NEW o \in Netdevs PROVE Exact(o, vids'[o], mcast', synced[o])
    <3>1. Exact(o, vids[o], mcast, synced[o])
      BY DEF EntriesSynced
    <3>2. vids'[o] \subseteq vids[o]
      BY <1>2
    <3> QED BY <1>3, <1>4, <3>1, <3>2 DEF Exact
  <2>2. ASSUME NEW g \in Groups, NEW w \in Vids, <<g, w>> \in mcast'
        PROVE w \in Ale!Reserved \/ \E o \in Netdevs : w \in vids'[o]
    <3>1. w # v /\ (w \in Ale!Reserved \/ \E o \in Netdevs : w \in vids[o])
      BY <1>4, <2>2 DEF EntriesSynced
    <3>2. \A o \in Netdevs : vids[o] \subseteq vids'[o] \cup {v}
      BY <1>2
    <3> QED BY <3>1, <3>2
  <2> QED BY <1>1, <2>1, <2>2 DEF EntriesSynced, Ale!Reserved, Exact
<1>8. Ale!VlansServed'
  <2>1. \A w \in DOMAIN vlan : w # v => w \in DOMAIN vlan' /\ vlan'[w] = vlan[w]
    BY <1>1 DEF Ale!Without
  <2>2. \A o \in open : o \in Netdevs
    BY DEF StackTyped
  <2>3. \A o \in Netdevs : vids'[o] \subseteq vids[o]
    BY <1>2
  <2>4. \A o \in open : <<mac[o], PortVlan[o]>> \in ucast => <<mac[o], PortVlan[o]>> \in ucast'
    BY <1>1, <1>3, <2>2
  <2> QED BY <1>1, <1>3, <1>4, <2>1, <2>2, <2>3, <2>4 DEF Ale!VlansServed, Ale!VlanMembers
<1> QED BY <1>5, <1>6, <1>7, <1>8

\* A group is joined or left, and synced unless the netdev is promiscuous.
LEMMA AleListen ==
  ASSUME Ports, AleInv, NEW n \in Netdevs, NEW g \in Groups, NEW who \in {n} \cup Vids,
         Ale!Listen(n, g, who)
  PROVE AleInv'
<1> DEFINE G == IF who \in members[n][g] THEN members[n][g] \ {who}
                                         ELSE members[n][g] \cup {who}
<1> USE DEF AleInv
<1>1. /\ who = n \/ (who \in vids[n] /\ n \in open)
      /\ n \notin promisc
      /\ members' = [members EXCEPT ![n][g] = G]
      /\ open' = open /\ promisc' = promisc /\ mac' = mac /\ vids' = vids
      /\ vlan' = vlan /\ ucast' = ucast
      /\ n \in open => Ale!SetRxMode(n, mcast)
      /\ n \notin open => synced' = synced /\ mcast' = mcast
  BY DEF Ale!Listen
<1>2. members \in [Netdevs -> [Groups -> SUBSET (Netdevs \cup Vids)]]
  BY DEF StackTyped
<1>3. G \subseteq Known(n, vids) /\ Known(n, vids) \subseteq Netdevs \cup Vids
  BY <1>1 DEF StackTyped, Known
<1>4. G \subseteq members[n][g] \/ members[n][g] \subseteq G
  OBVIOUS
<1> HIDE DEF G
<1>5. /\ members'[n][g] = G
      /\ \A h \in Groups : h # g => members'[n][h] = members[n][h]
      /\ \A o \in Netdevs : o # n => members'[o] = members[o]
      /\ members' \in [Netdevs -> [Groups -> SUBSET (Netdevs \cup Vids)]]
  BY <1>1, <1>2, <1>3
<1>6. \A h \in Groups : members'[n][h] \subseteq Known(n, vids)
  BY <1>3, <1>5 DEF StackTyped
<1>7. CASE n \in open
  <2>1. synced[n] = members[n]
    BY <1>1, <1>7 DEF SyncedUpToDate
  <2>2. \A h \in Groups : \/ members'[n][h] \subseteq synced[n][h]
                          \/ synced[n][h] \subseteq members'[n][h]
    BY <1>4, <1>5, <2>1
  <2>3. AllExact(mcast)
    BY DEF AllExact, EntriesSynced
  <2>4. /\ EntriesSynced'
        /\ \A v : <<Broadcast, v>> \in mcast => <<Broadcast, v>> \in mcast'
        /\ synced' = [synced EXCEPT ![n] = members'[n]]
    BY <1>1, <1>5, <1>6, <1>7, <2>2, <2>3, SetRxModeSyncs
  <2>5. StackTyped'
    BY <1>1, <1>5, <1>6, <2>4 DEF StackTyped, Known, Ale!Reserved
  <2>6. SyncedUpToDate'
    <3>1. synced'[n] = members'[n] /\ \A o \in Netdevs : o # n => synced'[o] = synced[o]
      BY <2>4 DEF StackTyped
    <3> QED BY <1>1, <1>5, <1>7, <3>1 DEF SyncedUpToDate
  <2>7. Ale!VlansServed'
    BY <1>1, <2>4 DEF Ale!VlansServed, Ale!VlanMembers
  <2> QED BY <2>4, <2>5, <2>6, <2>7
<1>8. CASE n \notin open
  <2>1. who = n
    BY <1>1, <1>8
  <2>2. StackTyped'
    BY <1>1, <1>5, <1>6, <1>8 DEF StackTyped, Known, Ale!Reserved
  <2>3. SyncedUpToDate'
    <3>1. \A h \in Groups : synced[n][h] = {} /\ members[n][h] \subseteq {n}
      BY <1>8 DEF SyncedUpToDate
    <3>2. \A h \in Groups : members'[n][h] \subseteq {n}
      BY <1>5, <2>1, <3>1 DEF G
    <3> QED BY <1>1, <1>5, <1>8, <3>1, <3>2 DEF SyncedUpToDate
  <2>4. EntriesSynced' /\ Ale!VlansServed'
    BY <1>1, <1>8 DEF EntriesSynced, Exact, Ale!Reserved, Ale!VlansServed, Ale!VlanMembers
  <2> QED BY <2>2, <2>3, <2>4
<1> QED BY <1>7, <1>8

\* Promiscuous mode purges the multicast entries, leaving it syncs again.
LEMMA AleSetPromisc ==
  ASSUME Ports, AleInv, NEW n \in Netdevs, Ale!SetPromisc(n) PROVE AleInv'
<1> USE DEF AleInv
<1>1. /\ promisc' = IF n \in promisc THEN promisc \ {n} ELSE promisc \cup {n}
      /\ open' = open /\ mac' = mac /\ vids' = vids /\ members' = members
      /\ vlan' = vlan /\ ucast' = ucast
      /\ n \in open => Ale!SetRxMode(n, mcast)
      /\ n \notin open => synced' = synced /\ mcast' = mcast
  BY DEF Ale!SetPromisc
<1>2. /\ members \in [Netdevs -> [Groups -> SUBSET (Netdevs \cup Vids)]]
      /\ synced \in [Netdevs -> [Groups -> SUBSET (Netdevs \cup Vids)]]
      /\ \A g \in Groups : members[n][g] \subseteq Known(n, vids)
  BY DEF StackTyped
<1>3. CASE n \in open
  <2>1. \A h \in Groups : \/ members'[n][h] \subseteq synced[n][h]
                          \/ synced[n][h] \subseteq members'[n][h]
    BY <1>1, <1>3 DEF SyncedUpToDate
  <2>2. AllExact(mcast)
    BY DEF AllExact, EntriesSynced
  <2>3. /\ EntriesSynced'
        /\ \A v : <<Broadcast, v>> \in mcast => <<Broadcast, v>> \in mcast'
        /\ synced' = IF n \in promisc' THEN synced ELSE [synced EXCEPT ![n] = members'[n]]
    BY <1>1, <1>2, <1>3, <2>1, <2>2, SetRxModeSyncs
  <2>4. StackTyped'
    BY <1>1, <1>2, <2>3 DEF StackTyped, Known, Ale!Reserved
  <2>5. SyncedUpToDate'
    <3>1. CASE n \in promisc'
      <4>1. synced' = synced /\ promisc' = promisc \cup {n}
        BY <1>1, <2>3, <3>1
      <4> QED BY <1>1, <4>1 DEF SyncedUpToDate
    <3>2. CASE n \notin promisc'
      <4>1. /\ synced'[n] = members'[n] /\ promisc' = promisc \ {n}
            /\ \A o \in Netdevs : o # n => synced'[o] = synced[o]
        BY <1>1, <1>2, <2>3, <3>2
      <4> QED BY <1>1, <1>3, <4>1 DEF SyncedUpToDate
    <3> QED BY <3>1, <3>2
  <2>6. Ale!VlansServed'
    BY <1>1, <2>3 DEF Ale!VlansServed, Ale!VlanMembers
  <2> QED BY <2>3, <2>4, <2>5, <2>6
<1>4. CASE n \notin open
  <2>1. StackTyped' /\ EntriesSynced' /\ Ale!VlansServed'
    BY <1>1, <1>4 DEF StackTyped, Known, EntriesSynced, Exact, Ale!Reserved,
                      Ale!VlansServed, Ale!VlanMembers
  <2>2. SyncedUpToDate'
    BY <1>1, <1>4 DEF SyncedUpToDate
  <2> QED BY <2>1, <2>2
<1> QED BY <1>3, <1>4

\* A new address moves the netdev's own unicast entry to it.
LEMMA AleSetMacAddress ==
  ASSUME Ports, AleInv, NEW n \in Netdevs, NEW m \in Macs, Ale!SetMacAddress(n, m)
  PROVE AleInv'
<1> USE DEF AleInv
<1>1. /\ ucast' = (ucast \ {<<mac[n], PortVlan[n]>>}) \cup {<<m, PortVlan[n]>>}
      /\ mac' = [mac EXCEPT ![n] = m]
      /\ open' = open /\ promisc' = promisc /\ vids' = vids /\ members' = members
      /\ synced' = synced /\ vlan' = vlan /\ mcast' = mcast
  BY DEF Ale!SetMacAddress
<1>2. StackTyped' /\ SyncedUpToDate' /\ EntriesSynced'
  <2>1. mac' \in [Netdevs -> Macs]
    BY <1>1 DEF StackTyped
  <2>2. StackTyped'
    BY <1>1, <2>1 DEF StackTyped, Known, Ale!Reserved
  <2>3. SyncedUpToDate'
    BY <1>1 DEF SyncedUpToDate
  <2>4. EntriesSynced'
    BY <1>1 DEF EntriesSynced, Exact, Ale!Reserved
  <2> QED BY <2>2, <2>3, <2>4
<1>3. Ale!VlansServed'
  <2>1. mac'[n] = m /\ \A o \in Netdevs : o # n => mac'[o] = mac[o]
    BY <1>1 DEF StackTyped
  <2>2. ASSUME NEW o \in open PROVE <<mac'[o], PortVlan[o]>> \in ucast'
    <3>1. o \in Netdevs /\ <<mac[o], PortVlan[o]>> \in ucast
      BY DEF StackTyped, Ale!VlansServed
    <3>2. o # n => PortVlan[o] # PortVlan[n]
      BY <3>1, VlansApart
    <3> QED BY <1>1, <2>1, <3>1, <3>2
  <2> QED BY <1>1, <2>2 DEF Ale!VlansServed, Ale!VlanMembers
<1> QED BY <1>2, <1>3

-----------------------------------------------------------------------------
(* CpswAle: the theorems.                                                  *)

\* However the netdevs open, stop and change what they ask for, the table serves
\* what has been synced, and the VLANs stay apart.
THEOREM AleInvariance == ASSUME Ports PROVE Ale!Spec => []AleInv
<1>1. Ale!Init => AleInv
  BY AleInit
<1>2. AleInv /\ [Ale!Next]_Ale!vars => AleInv'
  <2> SUFFICES ASSUME AleInv, [Ale!Next]_Ale!vars PROVE AleInv'
    OBVIOUS
  <2>1. CASE UNCHANGED Ale!vars
    <3>1. /\ open' = open /\ promisc' = promisc /\ mac' = mac /\ vids' = vids
          /\ members' = members /\ synced' = synced /\ vlan' = vlan
          /\ ucast' = ucast /\ mcast' = mcast
      BY <2>1 DEF Ale!vars
    <3>2. StackTyped' /\ SyncedUpToDate'
      BY <3>1 DEF AleInv, StackTyped, SyncedUpToDate, Known, Ale!Reserved
    <3>3. EntriesSynced' /\ Ale!VlansServed'
      BY <3>1 DEF AleInv, EntriesSynced, Exact, Ale!Reserved, Ale!VlansServed, Ale!VlanMembers
    <3> QED BY <3>2, <3>3 DEF AleInv
  <2>2. CASE Ale!Next
    <3> PICK n \in Netdevs :
          \/ Ale!Open(n) \/ Ale!Stop(n) \/ Ale!SetPromisc(n)
          \/ \E v \in Vids : Ale!AddVid(n, v) \/ Ale!AddVidFails(n, v) \/ Ale!KillVid(n, v)
          \/ \E g \in Groups, who \in {n} \cup Vids : Ale!Listen(n, g, who)
          \/ \E m \in Macs : Ale!SetMacAddress(n, m)
      BY <2>2 DEF Ale!Next
    <3> QED BY AleOpen, AleStop, AleSetPromisc, AleAddVid, AleAddVidFails, AleKillVid,
               AleListen, AleSetMacAddress
  <2> QED BY <2>1, <2>2
<1> QED BY <1>1, <1>2, PTL DEF Ale!Spec

\* CpswAle moves in MCSpec by its own steps only.
LEMMA AleMoves == MCSpec => Ale!Spec
<1>1. MCInit => Ale!Init
  BY DEF MCInit
<1>2. [MCNext]_MCVars => [Ale!Next]_Ale!vars
  BY DEF MCNext, MCVars, table, Ale!vars
<1> QED BY <1>1, <1>2, PTL DEF MCSpec, Ale!Spec

\* VlansServed (cpsw_restore_vlans, cpsw_ndo_vlan_rx_add_vid and _kill_vid): every
\* open netdev is served on its VLANs, and its own address with them.
THEOREM NetdevsAreServed == ASSUME Ports PROVE MCSpec => []VlansServed
<1>1. AleInv => VlansServed
  BY DEF AleInv, VlansServed
<1> QED BY <1>1, AleInvariance, AleMoves, PTL

\* MulticastExact (cpsw_add_mc_addr, cpsw_del_mc_addr, cpsw_purge_all_mc): the
\* multicast entries of an open netdev are those of its listeners.
THEOREM ListenersAreServed == ASSUME Ports PROVE MCSpec => []MulticastExact
<1>1. AleInv => MulticastExact
  <2> SUFFICES ASSUME AleInv PROVE Ale!MulticastExact
    BY DEF MulticastExact
  <2>1. ASSUME NEW n \in open \ promisc, NEW g \in Groups
        PROVE /\ \A v \in vids[n] : (<<g, v>> \in mcast) = (v \in members[n][g])
              /\ (<<g, PortVlan[n]>> \in mcast) = (n \in members[n][g])
    <3>1. n \in Netdevs
      BY DEF AleInv, StackTyped
    <3>2. synced[n] = members[n]
      BY <3>1 DEF AleInv, SyncedUpToDate
    <3>3. Exact(n, vids[n], mcast, members[n])
      BY <3>1, <3>2 DEF AleInv, EntriesSynced
    <3> QED BY <3>3 DEF Exact
  <2> QED BY <2>1 DEF Ale!MulticastExact
<1> QED BY <1>1, AleInvariance, AleMoves, PTL

-----------------------------------------------------------------------------
(* Sums over finite sets.                                                  *)

\* A set of naturals that holds 0 and with every number the next holds them all.
LEMMA AllNaturals ==
  ASSUME NEW P \in SUBSET Nat, 0 \in P, \A n \in P : n + 1 \in P
  PROVE  \A n \in Nat : n \in P
<1> DEFINE T == Nat \ P
<1>1. SUFFICES ASSUME T # {} PROVE FALSE
  OBVIOUS
<1>2. IsWellFoundedOn(OpToRel(<, Nat), Nat)
  BY NatLessThanWellFounded
<1>3. PICK x \in T : \A y \in T : ~ (<<y, x>> \in OpToRel(<, Nat))
  BY <1>1, <1>2, WFMin
<1>4. x # 0 /\ x - 1 \in Nat /\ x - 1 < x
  OBVIOUS
<1>5. x - 1 \in T
  BY <1>4
<1>6. ~ (<<x - 1, x>> \in {ss \in Nat \X Nat : ss[1] < ss[2]})
  BY <1>3, <1>5 DEF OpToRel
<1>7. <<x - 1, x>> \in Nat \X Nat /\ <<x - 1, x>>[1] = x - 1 /\ <<x - 1, x>>[2] = x
  BY <1>4
<1> QED BY <1>4, <1>6, <1>7

\* The element that a sum takes first, what it makes of a set, and the function
\* that computes it.
First(s) == CHOOSE x \in s : TRUE
Step(f, g, s) == IF s = {} THEN 0 ELSE f[First(s)] + g[s \ {First(s)}]
Computes(g, f, S) == g = [s \in SUBSET S |-> Step(f, g, s)]

\* A part of a finite set that lacks one element has one less.
LEMMA OneLess ==
  ASSUME NEW S, IsFiniteSet(S), NEW s \in SUBSET S, NEW x \in s
  PROVE  /\ IsFiniteSet(s) /\ Cardinality(s) \in Nat /\ Cardinality(s) >= 1
         /\ s \ {x} \in SUBSET S /\ Cardinality(s \ {x}) = Cardinality(s) - 1
<1>1. IsFiniteSet(s)
  BY FS_Subset
<1>2. Cardinality(s) \in Nat /\ (Cardinality(s) = 0 <=> s = {})
  BY <1>1, FS_CardinalityType, FS_EmptySet
<1>3. Cardinality(s \ {x}) = Cardinality(s) - 1
  BY <1>1, FS_RemoveElement
<1> QED BY <1>1, <1>2, <1>3

\* The function that a sum is computed by exists.
LEMMA Computable ==
  ASSUME NEW S, IsFiniteSet(S), NEW f
  PROVE  \E g : Computes(g, f, S)
<1> DEFINE UpTo(g, n) == \A s \in SUBSET S : Cardinality(s) <= n => g[s] = Step(f, g, s)
           P == {n \in Nat : \E g : g = [s \in SUBSET S |-> g[s]] /\ UpTo(g, n)}
<1>a. \A s \in SUBSET S : IsFiniteSet(s) /\ Cardinality(s) \in Nat /\ (Cardinality(s) = 0 <=> s = {})
  BY FS_Subset, FS_CardinalityType, FS_EmptySet
<1>1. 0 \in P
  <2> DEFINE z == [s \in SUBSET S |-> 0]
  <2>1. UpTo(z, 0)
    BY <1>a DEF Step
  <2>2. z = [s \in SUBSET S |-> z[s]]
    OBVIOUS
  <2> QED BY <2>1, <2>2
<1>2. ASSUME NEW n \in P PROVE n + 1 \in P
  <2>1. PICK g : g = [s \in SUBSET S |-> g[s]] /\ UpTo(g, n)
    OBVIOUS
  <2> DEFINE h == [s \in SUBSET S |-> Step(f, g, s)]
  <2>2. ASSUME NEW s \in SUBSET S, Cardinality(s) <= n + 1 PROVE h[s] = Step(f, h, s)
    <3>1. CASE s = {}
      BY <3>1 DEF Step
    <3>2. CASE s # {}
      <4> DEFINE r == s \ {First(s)}
      <4>1. First(s) \in s
        BY <3>2 DEF First
      <4>2. r \in SUBSET S /\ Cardinality(r) = Cardinality(s) - 1 /\ Cardinality(s) \in Nat
        BY <4>1, OneLess
      <4>3. Cardinality(r) <= n
        BY <2>2, <4>2
      <4>4. g[r] = h[r]
        BY <2>1, <4>2, <4>3
      <4> HIDE DEF r
      <4>5. Step(f, g, s) = f[First(s)] + g[r] /\ Step(f, h, s) = f[First(s)] + h[r]
        BY <3>2 DEF Step, r
      <4> QED BY <4>4, <4>5
    <3> QED BY <3>1, <3>2
  <2>3. UpTo(h, n + 1)
    BY <2>2
  <2>4. h = [s \in SUBSET S |-> h[s]]
    OBVIOUS
  <2> HIDE DEF h
  <2>5. \E k : k = [s \in SUBSET S |-> k[s]] /\ UpTo(k, n + 1)
    <3> HIDE DEF UpTo
    <3> QED BY <2>3, <2>4
  <2>6. n + 1 \in Nat
    OBVIOUS
  <2> QED BY <2>5, <2>6
<1>3. Cardinality(S) \in Nat
  BY FS_CardinalityType
<1>4. Cardinality(S) \in P
  <2> HIDE DEF P
  <2>1. P \in SUBSET Nat
    BY DEF P
  <2> QED BY <1>1, <1>2, <1>3, <2>1, AllNaturals
<1>5. PICK g : g = [s \in SUBSET S |-> g[s]] /\ UpTo(g, Cardinality(S))
  BY <1>4
<1>6. ASSUME NEW s \in SUBSET S PROVE g[s] = Step(f, g, s)
  <2>1. Cardinality(s) <= Cardinality(S)
    BY FS_Subset
  <2> QED BY <1>5, <2>1
<1>7. g = [s \in SUBSET S |-> Step(f, g, s)]
  BY <1>5, <1>6
<1> QED BY <1>7 DEF Computes

\* It computes integers, and whichever element is taken first.
LEMMA AnyOrder ==
  ASSUME NEW S, IsFiniteSet(S), NEW f, \A x \in S : f[x] \in Int,
         NEW g, Computes(g, f, S)
  PROVE  /\ g[{}] = 0
         /\ \A s \in SUBSET S : g[s] \in Int
         /\ \A s \in SUBSET S : \A x \in s : g[s] = f[x] + g[s \ {x}]
<1> DEFINE Good(s) == g[s] \in Int /\ \A x \in s : g[s] = f[x] + g[s \ {x}]
           P == {n \in Nat : \A s \in SUBSET S : Cardinality(s) <= n => Good(s)}
<1>a. \A s \in SUBSET S : IsFiniteSet(s) /\ Cardinality(s) \in Nat /\ (Cardinality(s) = 0 <=> s = {})
  BY FS_Subset, FS_CardinalityType, FS_EmptySet
<1>b. \A s \in SUBSET S : g[s] = Step(f, g, s)
  BY DEF Computes
<1>0. g[{}] = 0
  BY <1>b DEF Step
<1>1. 0 \in P
  BY <1>a, <1>0
<1>2. ASSUME NEW n \in P PROVE n + 1 \in P
  <2>1. ASSUME NEW s \in SUBSET S, Cardinality(s) <= n + 1 PROVE Good(s)
    <3>1. CASE s = {}
      BY <3>1, <1>0
    <3>2. CASE s # {}
      <4> DEFINE c == First(s)
      <4>1. c \in s
        BY <3>2 DEF First
      <4> HIDE DEF c
      <4>2. g[s] = f[c] + g[s \ {c}]
        BY <3>2, <1>b DEF Step, c
      <4>3. ASSUME NEW x \in s PROVE s \ {x} \in SUBSET S /\ Good(s \ {x})
        <5>1. s \ {x} \in SUBSET S /\ Cardinality(s \ {x}) <= n
          BY <2>1, <1>a, OneLess
        <5> QED BY <5>1
      <4>4. g[s] \in Int
        <5>1. f[c] \in Int /\ g[s \ {c}] \in Int
          BY <4>1, <4>3
        <5> QED BY <4>2, <5>1
      <4>5. ASSUME NEW x \in s, x # c PROVE g[s] = f[x] + g[s \ {x}]
        <5>1. g[s \ {c}] = f[x] + g[(s \ {c}) \ {x}]
          BY <4>1, <4>3, <4>5
        <5>2. g[s \ {x}] = f[c] + g[(s \ {x}) \ {c}]
          BY <4>1, <4>3, <4>5
        <5>3. (s \ {x}) \ {c} = (s \ {c}) \ {x}
          OBVIOUS
        <5>4. f[x] \in Int /\ f[c] \in Int /\ g[(s \ {c}) \ {x}] \in Int
          <6>1. (s \ {c}) \ {x} \in SUBSET S /\ Cardinality((s \ {c}) \ {x}) <= n
            <7>1. s \ {c} \in SUBSET S /\ Cardinality(s \ {c}) <= n /\ x \in s \ {c}
              BY <2>1, <1>a, <4>1, <4>5, OneLess
            <7>2. (s \ {c}) \ {x} \in SUBSET S /\ Cardinality((s \ {c}) \ {x}) = Cardinality(s \ {c}) - 1
              BY <7>1, OneLess
            <7> QED BY <7>1, <7>2, <1>a
          <6>2. Good((s \ {c}) \ {x})
            BY <6>1
          <6>3. g[(s \ {c}) \ {x}] \in Int
            BY <6>2
          <6>4. x \in S /\ c \in S
            BY <4>1, <4>5
          <6>5. f[x] \in Int /\ f[c] \in Int
            BY <6>4
          <6> QED BY <6>3, <6>5
        <5>5. g[s \ {x}] = f[c] + g[(s \ {c}) \ {x}]
          BY <5>2, <5>3
        <5> DEFINE rest == g[(s \ {c}) \ {x}]
                   one == g[s \ {c}]
                   twin == g[s \ {x}]
        <5>6. /\ g[s] = f[c] + one /\ one = f[x] + rest /\ twin = f[c] + rest
              /\ rest \in Int /\ f[x] \in Int /\ f[c] \in Int
          BY <4>2, <5>1, <5>5, <5>4
        <5> HIDE DEF rest, one, twin
        <5>7. g[s] = f[x] + twin
          BY <5>6
        <5> QED BY <5>7 DEF twin
      <4> QED BY <4>2, <4>4, <4>5
    <3> QED BY <3>1, <3>2
  <2> QED BY <2>1
<1>3. P \in SUBSET Nat
  OBVIOUS
<1>4. ASSUME NEW s \in SUBSET S PROVE Good(s)
  <2>1. Cardinality(s) \in P
    <3> HIDE DEF P
    <3> QED BY <1>1, <1>2, <1>3, <1>a, AllNaturals
  <2>2. \A t \in SUBSET S : Cardinality(t) <= Cardinality(s) => Good(t)
    <3> HIDE DEF Good
    <3> QED BY <2>1
  <2>3. Cardinality(s) <= Cardinality(s)
    BY <1>a
  <2> HIDE DEF Good, P
  <2> QED BY <2>2, <2>3
<1> QED BY <1>0, <1>4

\* Sums that agree on a set are equal.
LEMMA SameComputed ==
  ASSUME NEW S, NEW T, IsFiniteSet(S), IsFiniteSet(T), NEW f, NEW h, NEW g, NEW k,
         \A x \in S : f[x] \in Int, \A x \in T : h[x] \in Int,
         Computes(g, f, S), Computes(k, h, T),
         NEW R \in SUBSET (S \cap T), \A x \in R : f[x] = h[x]
  PROVE  g[R] = k[R]
<1> DEFINE P == {n \in Nat : \A s \in SUBSET R : Cardinality(s) = n => g[s] = k[s]}
<1>a. \A s \in SUBSET R : IsFiniteSet(s) /\ Cardinality(s) \in Nat /\ (Cardinality(s) = 0 <=> s = {})
  BY FS_Subset, FS_CardinalityType, FS_EmptySet
<1>b. /\ g[{}] = 0 /\ \A s \in SUBSET R : \A x \in s : g[s] = f[x] + g[s \ {x}]
      /\ k[{}] = 0 /\ \A s \in SUBSET R : \A x \in s : k[s] = h[x] + k[s \ {x}]
  BY AnyOrder
<1>1. 0 \in P
  BY <1>a, <1>b
<1>2. ASSUME NEW n \in P PROVE n + 1 \in P
  <2>1. ASSUME NEW s \in SUBSET R, Cardinality(s) = n + 1 PROVE g[s] = k[s]
    <3>1. PICK x : x \in s
      BY <2>1, <1>a
    <3>2. s \ {x} \in SUBSET R /\ Cardinality(s \ {x}) = n
      BY <2>1, <3>1, <1>a, OneLess
    <3>3. g[s \ {x}] = k[s \ {x}]
      BY <3>2
    <3> QED BY <1>b, <3>1, <3>3
  <2> QED BY <2>1
<1>3. P \in SUBSET Nat
  OBVIOUS
<1>4. Cardinality(R) \in P
  <2> HIDE DEF P
  <2> QED BY <1>1, <1>2, <1>3, <1>a, AllNaturals
<1> QED BY <1>4, <1>a

\* A sum is what such a function computes.
LEMMA SumIsComputed ==
  ASSUME NEW S, IsFiniteSet(S), NEW f
  PROVE  \E g : Computes(g, f, S) /\ SumFunctionOnSet(f, S) = g[S]
<1> DEFINE G == CHOOSE g : g = [s \in SUBSET S |-> IF s = {} THEN 0
                    ELSE f[CHOOSE x \in s : TRUE] + g[s \ {CHOOSE x \in s : TRUE}]]
<1>1. \E g : g = [s \in SUBSET S |-> IF s = {} THEN 0
                    ELSE f[CHOOSE x \in s : TRUE] + g[s \ {CHOOSE x \in s : TRUE}]]
  <2>1. PICK g : Computes(g, f, S)
    BY Computable
  <2>2. g = [s \in SUBSET S |-> IF s = {} THEN 0
                    ELSE f[CHOOSE x \in s : TRUE] + g[s \ {CHOOSE x \in s : TRUE}]]
    BY <2>1 DEF Computes, Step, First
  <2> QED BY <2>2
<1>2. G = [s \in SUBSET S |-> IF s = {} THEN 0
                    ELSE f[CHOOSE x \in s : TRUE] + G[s \ {CHOOSE x \in s : TRUE}]]
  <2> HIDE <1>1
  <2> QED BY <1>1
<1>3. Computes(G, f, S)
  BY <1>2 DEF Computes, Step, First
<1>4. SumFunctionOnSet(f, S) = G[S]
  BY DEF SumFunctionOnSet, FoldFunctionOnSet, MapThenFoldSet
<1> QED BY <1>3, <1>4

\* A sum is an integer, and is one term and the sum of the others.
LEMMA SumTakesOne ==
  ASSUME NEW S, IsFiniteSet(S), NEW f, \A x \in S : f[x] \in Int
  PROVE  /\ SumFunctionOnSet(f, S) \in Int
         /\ S = {} => SumFunctionOnSet(f, S) = 0
         /\ \A x \in S : SumFunctionOnSet(f, S) = f[x] + SumFunctionOnSet(f, S \ {x})
<1>1. PICK g : Computes(g, f, S) /\ SumFunctionOnSet(f, S) = g[S]
  BY SumIsComputed
<1>2. /\ g[{}] = 0
      /\ \A s \in SUBSET S : g[s] \in Int
      /\ \A s \in SUBSET S : \A x \in s : g[s] = f[x] + g[s \ {x}]
  BY <1>1, AnyOrder
<1>3. ASSUME NEW x \in S PROVE SumFunctionOnSet(f, S) = f[x] + SumFunctionOnSet(f, S \ {x})
  <2> DEFINE T == S \ {x}
  <2>1. IsFiniteSet(T) /\ T \in SUBSET (S \cap T)
    BY FS_Subset
  <2> HIDE DEF T
  <2>2. PICK k : Computes(k, f, T) /\ SumFunctionOnSet(f, T) = k[T]
    BY <2>1, SumIsComputed
  <2>3. \A y \in T : f[y] \in Int
    BY DEF T
  <2>4. g[T] = k[T]
    BY <1>1, <2>1, <2>2, <2>3, SameComputed
  <2>5. g[S] = f[x] + g[T]
    BY <1>2 DEF T
  <2> QED BY <1>1, <2>2, <2>4, <2>5 DEF T
<1> QED BY <1>1, <1>2, <1>3

\* A sum depends on the terms only.
LEMMA SumOfSame ==
  ASSUME NEW S, IsFiniteSet(S), NEW f, NEW h, \A x \in S : f[x] \in Int /\ h[x] = f[x]
  PROVE  SumFunctionOnSet(f, S) = SumFunctionOnSet(h, S)
<1>1. PICK g : Computes(g, f, S) /\ SumFunctionOnSet(f, S) = g[S]
  BY SumIsComputed
<1>2. PICK k : Computes(k, h, S) /\ SumFunctionOnSet(h, S) = k[S]
  BY SumIsComputed
<1>3. S \in SUBSET (S \cap S) /\ (\A x \in S : f[x] \in Int) /\ (\A x \in S : h[x] \in Int)
  OBVIOUS
<1>4. g[S] = k[S]
  BY <1>1, <1>2, <1>3, SameComputed
<1> QED BY <1>1, <1>2, <1>4

\* Induction over the parts of a finite set.
LEMMA FiniteParts ==
  ASSUME NEW S, IsFiniteSet(S), NEW Q \in SUBSET SUBSET S, {} \in Q,
         \A s \in SUBSET S : \A x \in s : s \ {x} \in Q => s \in Q
  PROVE  S \in Q
<1> DEFINE P == {n \in Nat : \A s \in SUBSET S : Cardinality(s) = n => s \in Q}
<1>a. \A s \in SUBSET S : IsFiniteSet(s) /\ Cardinality(s) \in Nat /\ (Cardinality(s) = 0 <=> s = {})
  BY FS_Subset, FS_CardinalityType, FS_EmptySet
<1>1. 0 \in P
  BY <1>a
<1>2. ASSUME NEW n \in P PROVE n + 1 \in P
  <2>1. ASSUME NEW s \in SUBSET S, Cardinality(s) = n + 1 PROVE s \in Q
    <3>1. PICK x : x \in s
      BY <2>1, <1>a
    <3>2. s \ {x} \in SUBSET S /\ Cardinality(s \ {x}) = n
      BY <2>1, <3>1, OneLess
    <3> QED BY <3>1, <3>2
  <2> QED BY <2>1
<1>3. P \in SUBSET Nat
  OBVIOUS
<1>4. Cardinality(S) \in P
  <2> HIDE DEF P
  <2> QED BY <1>1, <1>2, <1>3, <1>a, AllNaturals
<1> QED BY <1>4

\* What holds of the terms holds of the sums: an order ...
LEMMA SumMonotone ==
  ASSUME NEW S, IsFiniteSet(S), NEW f, NEW h,
         \A x \in S : f[x] \in Int /\ h[x] \in Int /\ f[x] <= h[x]
  PROVE  SumFunctionOnSet(f, S) <= SumFunctionOnSet(h, S)
<1> DEFINE Q == {s \in SUBSET S : SumFunctionOnSet(f, s) <= SumFunctionOnSet(h, s)}
<1>1. {} \in Q
  <2>1. IsFiniteSet({})
    BY FS_EmptySet
  <2> QED BY <2>1, SumTakesOne
<1>2. ASSUME NEW s \in SUBSET S, NEW x \in s, s \ {x} \in Q PROVE s \in Q
  <2>1. IsFiniteSet(s) /\ IsFiniteSet(s \ {x}) /\ x \in S
    BY FS_Subset
  <2>2. /\ SumFunctionOnSet(f, s) = f[x] + SumFunctionOnSet(f, s \ {x})
        /\ SumFunctionOnSet(f, s \ {x}) \in Int
    BY <2>1, SumTakesOne
  <2>3. /\ SumFunctionOnSet(h, s) = h[x] + SumFunctionOnSet(h, s \ {x})
        /\ SumFunctionOnSet(h, s \ {x}) \in Int
    BY <2>1, SumTakesOne
  <2>4. f[x] \in Int /\ h[x] \in Int /\ f[x] <= h[x]
    BY <2>1
  <2> QED BY <1>2, <2>2, <2>3, <2>4
<1>3. S \in Q
  <2> HIDE DEF Q
  <2>1. Q \in SUBSET SUBSET S
    BY DEF Q
  <2> QED BY <1>1, <1>2, <2>1, FiniteParts
<1> QED BY <1>3

\* ... and a factor.
LEMMA SumTimes ==
  ASSUME NEW S, IsFiniteSet(S), NEW f, NEW h, NEW a \in Int,
         \A x \in S : f[x] \in Int /\ h[x] = a * f[x]
  PROVE  SumFunctionOnSet(h, S) = a * SumFunctionOnSet(f, S)
<1> DEFINE Q == {s \in SUBSET S : SumFunctionOnSet(h, s) = a * SumFunctionOnSet(f, s)}
<1>a. \A x \in S : h[x] \in Int
  OBVIOUS
<1>1. {} \in Q
  <2>1. IsFiniteSet({})
    BY FS_EmptySet
  <2>2. SumFunctionOnSet(f, {}) = 0 /\ SumFunctionOnSet(h, {}) = 0
    BY <2>1, SumTakesOne
  <2> QED BY <2>2
<1>2. ASSUME NEW s \in SUBSET S, NEW x \in s, s \ {x} \in Q PROVE s \in Q
  <2>1. IsFiniteSet(s) /\ IsFiniteSet(s \ {x}) /\ x \in S
    BY FS_Subset
  <2>2. /\ SumFunctionOnSet(f, s) = f[x] + SumFunctionOnSet(f, s \ {x})
        /\ SumFunctionOnSet(f, s \ {x}) \in Int
    BY <2>1, SumTakesOne
  <2>3. SumFunctionOnSet(h, s) = h[x] + SumFunctionOnSet(h, s \ {x})
    BY <2>1, <1>a, SumTakesOne
  <2>4. f[x] \in Int /\ h[x] = a * f[x]
    BY <2>1
  <2>5. SumFunctionOnSet(h, s \ {x}) = a * SumFunctionOnSet(f, s \ {x})
    BY <1>2
  <2>6. \A u, v \in Int : a * (u + v) = a * u + a * v
    OBVIOUS
  <2> QED BY <2>2, <2>3, <2>4, <2>5, <2>6
<1>3. S \in Q
  <2> HIDE DEF Q
  <2>1. Q \in SUBSET SUBSET S
    BY DEF Q
  <2> QED BY <1>1, <1>2, <2>1, FiniteParts
<1> QED BY <1>3

\* Equal terms.
LEMMA SumOfEqual ==
  ASSUME NEW S, IsFiniteSet(S), NEW f, NEW a \in Int, \A x \in S : f[x] = a
  PROVE  SumFunctionOnSet(f, S) = a * Cardinality(S)
<1> DEFINE Q == {s \in SUBSET S : SumFunctionOnSet(f, s) = a * Cardinality(s)}
<1>1. {} \in Q
  <2>1. IsFiniteSet({}) /\ Cardinality({}) = 0
    BY FS_EmptySet
  <2>2. SumFunctionOnSet(f, {}) = 0
    BY <2>1, SumTakesOne
  <2>3. a * 0 = 0
    OBVIOUS
  <2> QED BY <2>1, <2>2, <2>3
<1>2. ASSUME NEW s \in SUBSET S, NEW x \in s, s \ {x} \in Q PROVE s \in Q
  <2>1. IsFiniteSet(s) /\ x \in S /\ \A y \in s : f[y] \in Int
    BY FS_Subset
  <2>2. SumFunctionOnSet(f, s) = f[x] + SumFunctionOnSet(f, s \ {x})
    BY <2>1, SumTakesOne
  <2>3. Cardinality(s \ {x}) = Cardinality(s) - 1 /\ Cardinality(s) \in Nat
    BY OneLess
  <2>4. SumFunctionOnSet(f, s \ {x}) = a * Cardinality(s \ {x}) /\ f[x] = a
    BY <1>2, <2>1
  <2>5. \A u \in Int : a + a * (u - 1) = a * u
    OBVIOUS
  <2> QED BY <2>2, <2>3, <2>4, <2>5
<1>3. S \in Q
  <2> HIDE DEF Q
  <2>1. Q \in SUBSET SUBSET S
    BY DEF Q
  <2> QED BY <1>1, <1>2, <2>1, FiniteParts
<1> QED BY <1>3

\* Numbers that are not negative have such a sum.
LEMMA SumIsNat ==
  ASSUME NEW S, IsFiniteSet(S), NEW f, \A x \in S : f[x] \in Nat
  PROVE  SumFunctionOnSet(f, S) \in Nat
<1> DEFINE z == [x \in S |-> 0]
<1>1. SumFunctionOnSet(z, S) = 0 * Cardinality(S) /\ Cardinality(S) \in Nat
  <2>1. \A x \in S : z[x] = 0
    OBVIOUS
  <2> HIDE DEF z
  <2> QED BY <2>1, SumOfEqual, FS_CardinalityType
<1>2. \A x \in S : z[x] \in Int /\ f[x] \in Int /\ z[x] <= f[x]
  OBVIOUS
<1> HIDE DEF z
<1>3. SumFunctionOnSet(z, S) <= SumFunctionOnSet(f, S) /\ SumFunctionOnSet(f, S) \in Int
  BY <1>2, SumMonotone, SumTakesOne
<1> QED BY <1>1, <1>3

\* Two parts.
LEMMA SumOfTwoParts ==
  ASSUME NEW S, NEW T, IsFiniteSet(S), IsFiniteSet(T), S \cap T = {}, NEW f,
         \A x \in S \cup T : f[x] \in Int
  PROVE  SumFunctionOnSet(f, S \cup T) = SumFunctionOnSet(f, S) + SumFunctionOnSet(f, T)
<1> DEFINE Q == {s \in SUBSET S : SumFunctionOnSet(f, s \cup T) = SumFunctionOnSet(f, s) + SumFunctionOnSet(f, T)}
<1>0. SumFunctionOnSet(f, T) \in Int
  BY SumTakesOne
<1>1. {} \in Q
  <2>1. IsFiniteSet({})
    BY FS_EmptySet
  <2>2. SumFunctionOnSet(f, {}) = 0 /\ {} \cup T = T
    BY <2>1, SumTakesOne
  <2> QED BY <2>2, <1>0
<1>2. ASSUME NEW s \in SUBSET S, NEW x \in s, s \ {x} \in Q PROVE s \in Q
  <2>1. IsFiniteSet(s) /\ IsFiniteSet(s \cup T) /\ IsFiniteSet(s \ {x})
    BY FS_Subset, FS_Union
  <2>2. SumFunctionOnSet(f, s) = f[x] + SumFunctionOnSet(f, s \ {x}) /\ SumFunctionOnSet(f, s \ {x}) \in Int
    BY <2>1, SumTakesOne
  <2>3. SumFunctionOnSet(f, s \cup T) = f[x] + SumFunctionOnSet(f, (s \cup T) \ {x})
    BY <2>1, SumTakesOne
  <2>4. (s \cup T) \ {x} = (s \ {x}) \cup T /\ f[x] \in Int
    OBVIOUS
  <2>5. SumFunctionOnSet(f, (s \ {x}) \cup T) = SumFunctionOnSet(f, s \ {x}) + SumFunctionOnSet(f, T)
    BY <1>2
  <2>6. SumFunctionOnSet(f, s \cup T) = f[x] + SumFunctionOnSet(f, (s \ {x}) \cup T)
    BY <2>3, <2>4
  <2>7. SumFunctionOnSet(f, s \cup T) = SumFunctionOnSet(f, s) + SumFunctionOnSet(f, T)
    BY <1>0, <2>2, <2>4, <2>5, <2>6
  <2> QED BY <2>7
<1>3. S \in Q
  <2> HIDE DEF Q
  <2>1. Q \in SUBSET SUBSET S
    BY DEF Q
  <2> QED BY <1>1, <1>2, <2>1, FiniteParts
<1> QED BY <1>3

\* One term changes.
LEMMA SumOfChanged ==
  ASSUME NEW S, IsFiniteSet(S), NEW f, NEW h, NEW x \in S,
         \A y \in S : f[y] \in Int /\ h[y] \in Int, \A y \in S \ {x} : h[y] = f[y]
  PROVE  SumFunctionOnSet(h, S) = SumFunctionOnSet(f, S) + h[x] - f[x]
<1>1. IsFiniteSet(S \ {x})
  BY FS_Subset
<1>2. SumFunctionOnSet(f, S \ {x}) = SumFunctionOnSet(h, S \ {x}) /\ SumFunctionOnSet(f, S \ {x}) \in Int
  BY <1>1, SumOfSame, SumTakesOne
<1>3. SumFunctionOnSet(f, S) = f[x] + SumFunctionOnSet(f, S \ {x})
  BY SumTakesOne
<1>4. SumFunctionOnSet(h, S) = h[x] + SumFunctionOnSet(h, S \ {x})
  BY SumTakesOne
<1> QED BY <1>2, <1>3, <1>4

\* Terms under other names have the same sum.
LEMMA SumOfRenamed ==
  ASSUME NEW S, IsFiniteSet(S), NEW g, NEW f, NEW h,
         \A x, y \in S : g[x] = g[y] => x = y,
         \A x \in S : f[x] \in Int /\ h[g[x]] = f[x]
  PROVE  SumFunctionOnSet(h, {g[x] : x \in S}) = SumFunctionOnSet(f, S)
<1> DEFINE Img(s) == {g[x] : x \in s}
           Q == {s \in SUBSET S : IsFiniteSet(Img(s)) /\ SumFunctionOnSet(h, Img(s)) = SumFunctionOnSet(f, s)}
<1>1. {} \in Q
  <2>1. IsFiniteSet({}) /\ Img({}) = {}
    BY FS_EmptySet
  <2> QED BY <2>1, SumTakesOne
<1>2. ASSUME NEW s \in SUBSET S, NEW x \in s, s \ {x} \in Q PROVE s \in Q
  <2>1. IsFiniteSet(s) /\ x \in S /\ \A y \in s : f[y] \in Int
    BY FS_Subset
  <2>2. Img(s) = Img(s \ {x}) \cup {g[x]} /\ g[x] \in Img(s) /\ Img(s) \ {g[x]} = Img(s \ {x})
    OBVIOUS
  <2>3. \A y \in Img(s) : h[y] \in Int
    BY <2>1
  <2> HIDE DEF Img
  <2>4. IsFiniteSet(Img(s))
    <3>1. IsFiniteSet(Img(s \ {x}))
      BY <1>2
    <3>2. IsFiniteSet(Img(s \ {x}) \cup {g[x]})
      BY <3>1, FS_AddElement
    <3> QED BY <2>2, <3>2
  <2>5. SumFunctionOnSet(h, Img(s)) = h[g[x]] + SumFunctionOnSet(h, Img(s) \ {g[x]})
    <3>1. \A y \in Img(s) : SumFunctionOnSet(h, Img(s)) = h[y] + SumFunctionOnSet(h, Img(s) \ {y})
      BY <2>3, <2>4, SumTakesOne
    <3> QED BY <2>2, <3>1
  <2>6. SumFunctionOnSet(f, s) = f[x] + SumFunctionOnSet(f, s \ {x})
    BY <2>1, SumTakesOne
  <2>7. SumFunctionOnSet(h, Img(s \ {x})) = SumFunctionOnSet(f, s \ {x})
    BY <1>2
  <2>8. h[g[x]] = f[x]
    BY <2>1
  <2> QED BY <2>2, <2>4, <2>5, <2>6, <2>7, <2>8
<1>3. S \in Q
  <2> HIDE DEF Q
  <2>1. Q \in SUBSET SUBSET S
    BY DEF Q
  <2> QED BY <1>1, <1>2, <2>1, FiniteParts
<1> QED BY <1>3

-----------------------------------------------------------------------------
(* CpdmaResources: what the functions leave of a set of channels.          *)

Channel(r) == r = [weight |-> r.weight, rate |-> r.rate, desc_num |-> r.desc_num]
Channels(ch) == \A c \in DOMAIN ch : Channel(ch[c])

\* The same channels with the same rates.
SameRates(ch, old) ==
  /\ DOMAIN ch = DOMAIN old /\ Channels(ch)
  /\ \A c \in DOMAIN ch : ch[c].rate = old[c].rate

\* cpdma_chan_set_descs gives descriptors, and changes no rate.
LEMMA SetDescsKeepsRates ==
  ASSUME NEW ch, Channels(ch), NEW nums, NEW num
  PROVE SameRates(SetDescs(ch, nums, num), ch)
<1> DEFINE left == num - SumFunction([c \in Existing(ch, nums) |-> Share(ch, nums, num, c)])
           descs(c) == Share(ch, nums, num, c) + (IF IsMost(ch, nums, num, c) THEN left ELSE 0)
<1>1. SetDescs(ch, nums, num) =
        [c \in DOMAIN ch |-> IF c \notin nums \/ num = 0 THEN ch[c]
                             ELSE [ch[c] EXCEPT !.desc_num = descs(c)]]
  BY DEF SetDescs
<1> HIDE DEF descs
<1>2. ASSUME NEW c \in DOMAIN ch
      PROVE /\ Channel(SetDescs(ch, nums, num)[c])
            /\ SetDescs(ch, nums, num)[c].rate = ch[c].rate
  BY <1>1 DEF Channels, Channel
<1> QED BY <1>1, <1>2 DEF SameRates, Channels

\* Nor does cpdma_chan_split_pool.
LEMMA SplitPoolKeepsRates ==
  ASSUME NEW ch, Channels(ch), NEW numTx, NEW numRx
  PROVE SameRates(SplitPool(ch, numTx, numRx), ch)
<1> DEFINE one == SetDescs(ch, TxNums, numTx)
           two == SetDescs(one, RxNums, numRx)
<1>1. SameRates(one, ch)
  BY SetDescsKeepsRates
<1>2. SameRates(two, one)
  BY <1>1, SetDescsKeepsRates DEF SameRates
<1>3. SplitPool(ch, numTx, numRx) = IF Splits(ch) THEN two ELSE ch
  BY DEF SplitPool
<1> HIDE DEF one, two
<1> QED BY <1>1, <1>2, <1>3 DEF SameRates

\* The limited channels, and their order, depend on the rates alone.
LEMMA RatesTell ==
  ASSUME NEW ch, NEW old, SameRates(ch, old)
  PROVE Limited(ch) = Limited(old) /\ (InOrder(ch) <=> InOrder(old))
  BY DEF SameRates, Limited, InOrder, Existing

-----------------------------------------------------------------------------
(* CpswRates: the rate limited channels.                                   *)

\* The channels are the upper ones of the TX channels, and one for RX.
ChannelsUp ==
  /\ tx_ch_num \in 1 .. MaxQueues
  /\ DOMAIN chan = (MaxChannels - tx_ch_num .. MaxChannels - 1) \cup {MaxChannels}
  /\ Channels(chan)

RateInv == ChannelsUp /\ LimitsInOrder

\* The channels that cpsw_init_common makes have no rates.
LEMMA RatesInit ==
  Init => RateInv /\ Limited(chan) = {} /\ \A d \in DOMAIN chan : chan[d].rate = 0
<1> SUFFICES ASSUME Init
             PROVE  RateInv /\ Limited(chan) = {} /\ \A d \in DOMAIN chan : chan[d].rate = 0
  OBVIOUS
<1> DEFINE c == MaxChannels - 1
           one == [d \in DOMAIN <<>> \cup {c} |-> IF d = c THEN NewChannel ELSE <<>>[d]]
           created == SplitPool(one, NumDesc \div 2, num_rx)
           two == [d \in DOMAIN created \cup {MaxChannels} |->
                     IF d = MaxChannels THEN NewChannel ELSE created[d]]
<1>1. /\ chan = SplitPool(two, NumDesc \div 2, num_rx)
      /\ ~active /\ tx_ch_num = 1
  <2>1. MaxChannels \in Nat
    BY ResourceAssumption
  <2>2. ChanOf(0) = c /\ rx_chan_num(0) = MaxChannels
    BY <2>1 DEF ChanOf, rx_chan_num
  <2>3. chan = ChanCreate(ChanCreate(<<>>, ChanOf(0), NumDesc \div 2, num_rx),
                          rx_chan_num(0), NumDesc \div 2, num_rx) /\ active = FALSE /\ tx_ch_num = 1
    BY DEF Init
  <2> QED BY <2>2, <2>3 DEF ChanCreate
<1>2. DOMAIN one = {c} /\ Channels(one) /\ \A d \in DOMAIN one : one[d].rate = 0
  <2>1. DOMAIN one = {c}
    OBVIOUS
  <2>2. one[c] = NewChannel
    OBVIOUS
  <2> QED BY <2>1, <2>2 DEF Channels, Channel, NewChannel
<1> HIDE DEF one
<1>3. DOMAIN created = {c} /\ Channels(created) /\ \A d \in DOMAIN created : created[d].rate = 0
  BY <1>2, SplitPoolKeepsRates DEF SameRates
<1> HIDE DEF created
<1>4. DOMAIN two = {c, MaxChannels} /\ Channels(two) /\ \A d \in DOMAIN two : two[d].rate = 0
  BY <1>3 DEF Channels, Channel, NewChannel
<1> HIDE DEF two
<1>5. /\ DOMAIN chan = {c, MaxChannels} /\ Channels(chan)
      /\ \A d \in DOMAIN chan : chan[d].rate = 0
  BY <1>1, <1>4, SplitPoolKeepsRates DEF SameRates
<1>6. MaxChannels \in Nat /\ MaxQueues \in Nat /\ MaxQueues >= 1
  BY ResourceAssumption, QueueAssumption
<1>7. DOMAIN chan = (MaxChannels - 1 .. MaxChannels - 1) \cup {MaxChannels}
  BY <1>5, <1>6
<1>8. Limited(chan) = {}
  <2> SUFFICES ASSUME NEW d \in Limited(chan) PROVE FALSE
    OBVIOUS
  <2>1. d \in DOMAIN chan /\ chan[d].rate > 0
    BY DEF Limited, Existing
  <2> QED BY <1>5, <2>1
<1>9. ChannelsUp
  <2>1. tx_ch_num = 1 /\ Channels(chan)
    BY <1>1, <1>5
  <2>2. tx_ch_num \in 1 .. MaxQueues
    BY <1>6, <2>1
  <2>3. DOMAIN chan = (MaxChannels - tx_ch_num .. MaxChannels - 1) \cup {MaxChannels}
    BY <1>7, <2>1
  <2> QED BY <2>1, <2>2, <2>3 DEF ChannelsUp
<1>10. LimitsInOrder
  BY <1>1, <1>8 DEF LimitsInOrder, InOrder
<1> QED BY <1>5, <1>8, <1>9, <1>10 DEF RateInv

\* A step that changes neither the channels nor their rates.
LEMMA RatesKept ==
  ASSUME RateInv, SameRates(chan', chan), tx_ch_num' = tx_ch_num,
         active' => rlim' = Limited(chan)
  PROVE RateInv'
<1>1. Limited(chan') = Limited(chan) /\ (InOrder(chan') <=> InOrder(chan))
  BY RatesTell
<1>2. ChannelsUp'
  BY DEF RateInv, ChannelsUp, SameRates
<1>3. LimitsInOrder'
  BY <1>1 DEF RateInv, LimitsInOrder
<1> QED BY <1>2, <1>3 DEF RateInv

\* A channel whose rate is set is a channel, and has that rate.
LEMMA RateIsSet ==
  ASSUME NEW ch, NEW c \in DOMAIN ch, Channel(ch[c]), NEW x
  PROVE /\ Channel([ch EXCEPT ![c].rate = x][c])
        /\ [ch EXCEPT ![c].rate = x][c].rate = x
<1>1. [ch EXCEPT ![c].rate = x][c] = [ch[c] EXCEPT !.rate = x]
  OBVIOUS
<1>2. [ch[c] EXCEPT !.rate = x] =
        [weight |-> ch[c].weight, rate |-> x, desc_num |-> ch[c].desc_num]
  BY DEF Channel
<1> QED BY <1>1, <1>2 DEF Channel

\* cpdma_chan_set_rate stores a rate that fits: the channels stay in order.
LEMMA RatesSetTxMaxrate ==
  ASSUME Rates \subseteq Nat, RateInv, NEW q \in Queues, NEW rate \in Rates,
         SetTxMaxrate(q, rate)
  PROVE RateInv'
<1> DEFINE c == ChanOf(q)
           wanted == [chan EXCEPT ![c].rate = rate * 1000]
<1>1. /\ rate = 0 \/ rate * 1000 >= MinRate
      /\ rate = 0 \/ RateOf(q) # rate * 1000
      /\ InOrder(wanted) \/ RateOf(q) = rate * 1000
      /\ chan' = [chan EXCEPT ![c].rate = SetFactors(rate * 1000)]
      /\ rlim' = IF active /\ RateOf(q) # rate * 1000 THEN Limited(chan') ELSE rlim
      /\ active' = active /\ tx_ch_num' = tx_ch_num
  BY DEF SetTxMaxrate, FitsRate, ChanSetRate
<1>2. DOMAIN chan' = DOMAIN chan /\ DOMAIN wanted = DOMAIN chan
  BY <1>1
<1>3. \A d \in DOMAIN chan : d # c => chan'[d] = chan[d] /\ wanted[d] = chan[d]
  BY <1>1
<1>4. c \in DOMAIN chan =>
        /\ chan'[c].rate = SetFactors(rate * 1000) /\ Channel(chan'[c])
        /\ wanted[c].rate = rate * 1000
  <2>1. c \in DOMAIN chan => Channel(chan[c])
    BY DEF RateInv, ChannelsUp, Channels
  <2> DEFINE set(x) == [chan EXCEPT ![c].rate = x]
  <2>2. ASSUME NEW x, c \in DOMAIN chan PROVE Channel(set(x)[c]) /\ set(x)[c].rate = x
    BY <2>1, <2>2, RateIsSet
  <2>3. chan' = set(SetFactors(rate * 1000)) /\ wanted = set(rate * 1000)
    BY <1>1
  <2> HIDE DEF c, wanted, set
  <2> QED BY <2>2, <2>3
<1>5. ChannelsUp'
  BY <1>1, <1>2, <1>3, <1>4 DEF RateInv, ChannelsUp, Channels
<1>6. SetFactors(rate * 1000) > 0 <=> rate * 1000 > 0
  <2>1. rate \in Nat
    OBVIOUS
  <2>2. CASE rate = 0
    <3>1. rate * 1000 = 0
      BY <2>2
    <3>2. SetFactors(0) = 0
      BY DEF SetFactors
    <3> QED BY <3>1, <3>2
  <2>3. CASE rate > 0
    BY <1>1, <2>1, <2>3, FactorAssumption
  <2> QED BY <2>1, <2>2, <2>3
<1> HIDE DEF wanted
<1>7. Limited(chan') = Limited(wanted)
  BY <1>2, <1>3, <1>4, <1>6 DEF Limited, Existing
<1>8. CASE RateOf(q) = rate * 1000
  <2>1. rate = 0 /\ rate * 1000 = 0 /\ chan[c].rate = 0
    BY <1>1, <1>8 DEF RateOf
  <2>2. SetFactors(rate * 1000) = 0
    BY <2>1 DEF SetFactors
  <2>3. SameRates(chan', chan)
    BY <1>2, <1>3, <1>4, <1>5, <2>1, <2>2 DEF SameRates, ChannelsUp
  <2> QED BY <1>1, <1>8, <2>3, RatesKept DEF RateInv, LimitsInOrder
<1>9. CASE RateOf(q) # rate * 1000
  <2>1. InOrder(wanted)
    BY <1>1, <1>9
  <2>2. InOrder(chan')
    BY <1>2, <1>7, <2>1 DEF InOrder, Existing
  <2>3. active' => rlim' = Limited(chan')
    BY <1>1, <1>9
  <2> QED BY <1>5, <2>2, <2>3 DEF RateInv, LimitsInOrder
<1> QED BY <1>8, <1>9

\* A queue that comes brings the lowest channel, without a rate; one that goes
\* takes the lowest with it.
LEMMA RatesSetChannels ==
  ASSUME RateInv, NEW n \in 1 .. MaxQueues, SetChannels(n) PROVE RateInv'
<1> DEFINE low == MaxChannels - tx_ch_num
<1>1. /\ MaxChannels \in Nat /\ MaxQueues \in Nat /\ MaxQueues <= MaxChannels
      /\ tx_ch_num \in 1 .. MaxQueues
      /\ DOMAIN chan = (low .. MaxChannels - 1) \cup {MaxChannels}
      /\ Channels(chan) /\ InOrder(chan)
  BY ResourceAssumption, QueueAssumption DEF RateInv, ChannelsUp, LimitsInOrder
<1>2. ~active' /\ tx_ch_num' = n
  BY DEF SetChannels
<1>3. CASE /\ n = tx_ch_num + 1
           /\ chan' = ChanCreate(chan, ChanOf(tx_ch_num), num_tx, num_rx)
  <2> DEFINE c == low - 1
             more == [d \in DOMAIN chan \cup {c} |-> IF d = c THEN NewChannel ELSE chan[d]]
  <2>1. ChanOf(tx_ch_num) = c
    BY <1>1 DEF ChanOf
  <2>2. chan' = SplitPool(more, num_tx, num_rx)
    BY <1>3, <2>1 DEF ChanCreate
  <2>3. /\ DOMAIN more = DOMAIN chan \cup {c} /\ c \notin DOMAIN chan
        /\ more[c] = NewChannel /\ \A d \in DOMAIN chan : more[d] = chan[d]
    BY <1>1
  <2> HIDE DEF more
  <2>4. Channels(more)
    BY <1>1, <2>3 DEF Channels, Channel, NewChannel
  <2>5. SameRates(chan', more)
    BY <2>2, <2>4, SplitPoolKeepsRates
  <2>6. DOMAIN more = (MaxChannels - n .. MaxChannels - 1) \cup {MaxChannels}
    BY <1>1, <1>3, <2>3
  <2>7. ChannelsUp'
    BY <1>2, <2>5, <2>6 DEF ChannelsUp, SameRates
  <2>8. Limited(more) = Limited(chan)
    BY <2>3 DEF Limited, Existing, NewChannel
  <2>9. InOrder(more)
    <3> SUFFICES ASSUME NEW a \in Limited(chan), NEW d \in Existing(more, TxNums), d > a
                 PROVE d \in Limited(chan)
      BY <2>8 DEF InOrder
    <3>1. a \in DOMAIN chan /\ a \in low .. MaxChannels
      BY <1>1 DEF Limited, Existing
    <3>2. d # c
      BY <1>1, <3>1 DEF Existing
    <3>3. d \in Existing(chan, TxNums)
      BY <2>3, <3>2 DEF Existing
    <3> QED BY <1>1, <3>3 DEF InOrder
  <2> QED BY <1>2, <2>5, <2>7, <2>9, RatesTell DEF RateInv, LimitsInOrder
<1>4. CASE /\ n = tx_ch_num - 1
           /\ chan' = ChanDestroy(chan, ChanOf(n), num_tx, num_rx)
  <2> DEFINE less == [d \in DOMAIN chan \ {low} |-> chan[d]]
  <2>1. ChanOf(n) = low
    BY <1>1, <1>4 DEF ChanOf
  <2>2. chan' = SplitPool(less, num_tx, num_rx)
    BY <1>4, <2>1 DEF ChanDestroy
  <2>3. DOMAIN less = DOMAIN chan \ {low} /\ \A d \in DOMAIN less : less[d] = chan[d]
    OBVIOUS
  <2> HIDE DEF less
  <2>4. Channels(less)
    BY <1>1, <2>3 DEF Channels
  <2>5. SameRates(chan', less)
    BY <2>2, <2>4, SplitPoolKeepsRates
  <2>6. DOMAIN less = (MaxChannels - n .. MaxChannels - 1) \cup {MaxChannels}
    BY <1>1, <1>4, <2>3
  <2>7. ChannelsUp'
    BY <1>2, <2>5, <2>6 DEF ChannelsUp, SameRates
  <2>8. InOrder(less)
    BY <1>1, <2>3 DEF InOrder, Limited, Existing
  <2> QED BY <1>2, <2>5, <2>7, <2>8, RatesTell DEF RateInv, LimitsInOrder
<1> QED BY <1>3, <1>4 DEF SetChannels

\* The second loop of cpsw_split_res stores weights, and splits the pool again.
LEMMA RatesSplitQueue ==
  ASSUME RateInv, NEW t, SplitQueue(t) PROVE RateInv'
<1> DEFINE c == ChanOf(thread[t].i)
           w == WeightOf(thread[t].i, thread[t].max)
           weighted == [chan EXCEPT ![c].weight = w]
<1>1. /\ chan' = IF chan[c].weight = w THEN chan ELSE SplitPool(weighted, num_tx, num_rx)
      /\ active' = active /\ rlim' = rlim /\ tx_ch_num' = tx_ch_num
  BY DEF SplitQueue, ChanSetWeight
<1>2. Channels(chan)
  BY DEF RateInv, ChannelsUp
<1> HIDE DEF c, w
<1>3. SameRates(weighted, chan)
  BY <1>2 DEF SameRates, Channels, Channel
<1> HIDE DEF weighted
<1>4. SameRates(SplitPool(weighted, num_tx, num_rx), weighted)
  BY <1>3, SplitPoolKeepsRates DEF SameRates
<1>5. SameRates(chan', chan)
  BY <1>1, <1>2, <1>3, <1>4 DEF SameRates
<1> QED BY <1>1, <1>5, RatesKept DEF RateInv, LimitsInOrder

\* Every step keeps to it.
LEMMA RatesStep ==
  ASSUME Rates \subseteq Nat, RateInv, [Next]_vars PROVE RateInv'
<1>1. SameRates(chan, chan) /\ (active => rlim = Limited(chan))
  BY DEF RateInv, ChannelsUp, SameRates, LimitsInOrder
<1>2. CASE UNCHANGED vars
  BY <1>1, <1>2, RatesKept DEF vars
<1>3. CASE CtlrStart
  BY <1>1, <1>3, RatesKept DEF CtlrStart
<1>4. CASE CtlrStop
  BY <1>1, <1>4, RatesKept DEF CtlrStop
<1>5. ASSUME NEW n \in RxDescChoices, SetNumRxDescs(n) PROVE RateInv'
  <2>1. SameRates(SplitPool(chan, NumDesc - n, n), chan)
    BY SplitPoolKeepsRates DEF RateInv, ChannelsUp
  <2> QED BY <1>1, <1>5, <2>1, RatesKept DEF SetNumRxDescs
<1>6. ASSUME NEW s \in Speeds, AdjustLink(s) PROVE RateInv'
  BY <1>1, <1>6, RatesKept DEF AdjustLink
<1>7. ASSUME NEW t \in Threads, SplitRead(t) \/ SplitEnd(t) PROVE RateInv'
  BY <1>1, <1>7, RatesKept DEF SplitRead, SplitEnd
<1> QED BY <1>2, <1>3, <1>4, <1>5, <1>6, <1>7, RatesSetTxMaxrate, RatesSetChannels,
           RatesSplitQueue DEF Next

\* However rates, numbers of queues, the ring, the link and starts and stops follow
\* each other, on either thread, the limited channels are the upper ones, and known
\* to the hardware.
THEOREM RatesInvariance == ASSUME Rates \subseteq Nat PROVE Spec => []RateInv
<1>1. Init => RateInv
  BY RatesInit
<1>2. RateInv /\ [Next]_vars => RateInv'
  BY RatesStep
<1> QED BY <1>1, <1>2, PTL DEF Spec

-----------------------------------------------------------------------------
(* CpdmaResources: the split of the descriptors.                           *)

ChannelType == [weight : Nat, rate : Nat, desc_num : Nat]

\* Finitely many channels of that type.
Typed(ch) == IsFiniteSet(DOMAIN ch) /\ \A c \in DOMAIN ch : ch[c] \in ChannelType

\* The same channels with the same rates and the same weights.
SameButDescs(ch, old) ==
  /\ DOMAIN ch = DOMAIN old
  /\ \A c \in DOMAIN ch : ch[c].rate = old[c].rate /\ ch[c].weight = old[c].weight

SharesIn(ch, nums) == SumFunction([c \in Existing(ch, nums) |-> ch[c].desc_num])

\* Of a finite set with numbered members one has the largest number, the first such.
LEMMA FirstLargest ==
  ASSUME NEW S \in SUBSET Int, IsFiniteSet(S), NEW f, \A x \in S : f[x] \in Int, S # {}
  PROVE  \E c \in S : \A d \in S : f[d] < f[c] \/ (d >= c /\ f[d] = f[c])
<1> DEFINE Best(c, s) == \A d \in s : f[d] < f[c] \/ (d >= c /\ f[d] = f[c])
           Q == {s \in SUBSET S : s = {} \/ \E c \in s : Best(c, s)}
<1>1. {} \in Q
  OBVIOUS
<1>2. ASSUME NEW s \in SUBSET S, NEW x \in s, s \ {x} \in Q PROVE s \in Q
  <2>1. CASE s \ {x} = {}
    <3>1. Best(x, s)
      BY <2>1
    <3> QED BY <3>1
  <2>2. CASE \E c \in s \ {x} : Best(c, s \ {x})
    <3>1. PICK c \in s \ {x} : Best(c, s \ {x})
      BY <2>2
    <3>2. CASE f[x] > f[c] \/ (f[x] = f[c] /\ x < c)
      <4>1. Best(x, s)
        BY <3>1, <3>2
      <4> QED BY <4>1
    <3>3. CASE ~ (f[x] > f[c] \/ (f[x] = f[c] /\ x < c))
      <4>1. Best(c, s)
        BY <3>1, <3>3
      <4> QED BY <4>1
    <3> QED BY <3>2, <3>3
  <2> QED BY <1>2, <2>1, <2>2
<1>3. S \in Q
  <2> HIDE DEF Q
  <2>1. Q \in SUBSET SUBSET S
    BY DEF Q
  <2> QED BY <1>1, <1>2, <2>1, FiniteParts
<1> QED BY <1>3

\* Integer division rounds down.
LEMMA RoundsDown ==
  ASSUME NEW a \in Nat, NEW b \in Nat \ {0}
  PROVE  a \div b \in Nat /\ b * (a \div b) <= a /\ a < b * (a \div b) + b
OBVIOUS

\* A number whose multiple is within a is within the quotient.
LEMMA RoundsDownMost ==
  ASSUME NEW a \in Nat, NEW b \in Nat \ {0}, NEW k \in Nat, b * k <= a
  PROVE  k <= a \div b
<1>1. a \div b \in Nat /\ a < b * (a \div b) + b
  BY RoundsDown
<1>2. b * k < b * (a \div b + 1)
  BY <1>1
<1> QED BY <1>1, <1>2

\* The sum of the weights, and of those that are not 0.
LEMMA WeightsAdd ==
  ASSUME NEW ch, Typed(ch), NEW nums
  PROVE  /\ IsFiniteSet(Existing(ch, nums)) /\ IsFiniteSet(Unweighted(ch, nums))
         /\ WeightSum(ch, nums) \in Nat
         /\ WeightSum(ch, nums) =
              SumFunctionOnSet([c \in Existing(ch, nums) |-> ch[c].weight],
                               Existing(ch, nums) \ Unweighted(ch, nums))
<1> DEFINE E == Existing(ch, nums)
           U == Unweighted(ch, nums)
           w == [c \in E |-> ch[c].weight]
<1>1. E \subseteq DOMAIN ch /\ U \subseteq E
  BY DEF Existing, Unweighted
<1>2. IsFiniteSet(E) /\ IsFiniteSet(U) /\ IsFiniteSet(E \ U)
  BY <1>1, FS_Subset DEF Typed
<1>3. \A c \in E : w[c] \in Nat /\ (c \in U => w[c] = 0)
  BY <1>1 DEF Typed, ChannelType, Unweighted
<1>4. WeightSum(ch, nums) = SumFunctionOnSet(w, E)
  BY DEF WeightSum, SumFunction
<1> HIDE DEF E, U, w
<1>5. SumFunctionOnSet(w, U) = 0
  <2>1. SumFunctionOnSet(w, U) = 0 * Cardinality(U)
    <3>1. \A c \in U : w[c] = 0
      BY <1>1, <1>3
    <3> QED BY <1>2, <3>1, SumOfEqual
  <2>2. Cardinality(U) \in Nat
    BY <1>2, FS_CardinalityType
  <2> QED BY <2>1, <2>2
<1>6. SumFunctionOnSet(w, (E \ U) \cup U) = SumFunctionOnSet(w, E \ U) + SumFunctionOnSet(w, U)
  BY <1>1, <1>2, <1>3, SumOfTwoParts
<1>7. (E \ U) \cup U = E /\ SumFunctionOnSet(w, E \ U) \in Int
  BY <1>1, <1>2, <1>3, SumTakesOne
<1>8. SumFunctionOnSet(w, E) \in Nat
  BY <1>2, <1>3, SumIsNat
<1>9. SumFunctionOnSet(w, E) = SumFunctionOnSet(w, E \ U)
  BY <1>5, <1>6, <1>7
<1>10. WeightSum(ch, nums) = SumFunctionOnSet(w, E \ U) /\ WeightSum(ch, nums) \in Nat
  BY <1>4, <1>8, <1>9
<1> QED BY <1>2, <1>10 DEF E, U, w

\* What the shares of the channels promise is no more than there is.
LEMMA SharesFit ==
  ASSUME NEW ch, Typed(ch), NEW nums, NEW num \in Nat, WeightSum(ch, nums) <= 100
  PROVE  /\ \A c \in Existing(ch, nums) : Share(ch, nums, num, c) \in Nat
         /\ PerChannel(ch, nums, num) \in Nat
         /\ SumFunctionOnSet([c \in Existing(ch, nums) |-> Share(ch, nums, num, c)],
                             Existing(ch, nums)) \in 0 .. num
<1> DEFINE E == Existing(ch, nums)
           U == Unweighted(ch, nums)
           V == E \ U
           W == WeightSum(ch, nums)
           w == [c \in E |-> ch[c].weight]
           f == [c \in E |-> Share(ch, nums, num, c)]
           per == PerChannel(ch, nums, num)
           rest == num - (W * num) \div 100
<1>1. E \subseteq DOMAIN ch /\ U \subseteq E /\ V \subseteq E /\ V \cap U = {} /\ V \cup U = E
  BY DEF Existing, Unweighted
<1>2. IsFiniteSet(E) /\ IsFiniteSet(U) /\ IsFiniteSet(V) /\ W \in Nat /\ W = SumFunctionOnSet(w, V)
  BY <1>1, WeightsAdd, FS_Subset
<1>3. Cardinality(U) \in Nat /\ (Cardinality(U) = 0 <=> U = {})
  BY <1>2, FS_CardinalityType, FS_EmptySet
<1>4. \A c \in E : ch[c].weight \in Nat /\ (c \in U <=> ch[c].weight = 0)
  BY <1>1 DEF Typed, ChannelType, Unweighted
<1>5. W * num \in Nat /\ (W * num) \div 100 \in Nat /\ (W * num) \div 100 <= num
  <2>1. W \in 0..100
    BY <1>2
  <2>2. W * num \in Nat /\ W * num <= 100 * num
    BY <2>1
  <2> HIDE DEF W
  <2>3. \A p \in Nat : p <= 100 * num => p \div 100 \in Nat /\ p \div 100 <= num
    OBVIOUS
  <2> QED BY <2>2, <2>3
<1>6. rest \in Nat
  BY <1>5
<1>7. per \in Nat /\ per * Cardinality(U) <= rest
  <2>1. CASE U = {}
    <3>1. per = 0 /\ Cardinality(U) = 0
      BY <2>1, <1>3 DEF PerChannel
    <3> QED BY <3>1, <1>6
  <2>2. CASE U # {}
    <3>1. per = rest \div Cardinality(U)
      BY <2>2 DEF PerChannel
    <3>2. Cardinality(U) \in Nat \ {0}
      BY <2>2, <1>3
    <3> DEFINE card == Cardinality(U)
    <3> HIDE DEF per, rest, card
    <3>3. rest \div card \in Nat /\ card * (rest \div card) <= rest
      BY <1>6, <3>2, RoundsDown DEF card
    <3>4. card * (rest \div card) = (rest \div card) * card
      BY <3>2, <3>3 DEF card
    <3> QED BY <3>1, <3>3, <3>4 DEF card
  <2> QED BY <2>1, <2>2
<1>8. \A c \in V : f[c] \in Nat /\ 100 * f[c] <= num * w[c]
  <2> SUFFICES ASSUME NEW c \in V PROVE f[c] \in Nat /\ 100 * f[c] <= num * w[c]
    OBVIOUS
  <2>1. ch[c].weight \in Nat /\ ch[c].weight > 0 /\ w[c] = ch[c].weight
    BY <1>1, <1>4
  <2>2. f[c] = (w[c] * num) \div 100
    BY <1>1, <2>1 DEF Share
  <2>3. w[c] * num \in Nat /\ w[c] * num = num * w[c]
    BY <2>1
  <2> HIDE DEF w, f
  <2>4. \A p \in Nat : p \div 100 \in Nat /\ 100 * (p \div 100) <= p
    OBVIOUS
  <2> QED BY <2>2, <2>3, <2>4
<1>9. \A c \in U : f[c] = per
  BY <1>1, <1>4 DEF Share
<1>10. \A c \in E : f[c] \in Nat /\ f[c] = Share(ch, nums, num, c) /\ w[c] \in Nat
  BY <1>1, <1>4, <1>7, <1>8, <1>9
<1> HIDE DEF E, U, V, W, w, f, per, rest
<1>11. SumFunctionOnSet(f, U) = per * Cardinality(U)
  BY <1>2, <1>7, <1>9, SumOfEqual
<1>12. SumFunctionOnSet(f, V) \in Nat /\ 100 * SumFunctionOnSet(f, V) <= num * W
  <2> DEFINE hf == [c \in V |-> 100 * f[c]]
             nw == [c \in V |-> num * w[c]]
  <2>1. \A c \in V : /\ f[c] \in Int /\ w[c] \in Int /\ hf[c] = 100 * f[c] /\ nw[c] = num * w[c]
                     /\ hf[c] \in Int /\ nw[c] \in Int /\ hf[c] <= nw[c]
    BY <1>1, <1>8, <1>10
  <2> HIDE DEF hf, nw
  <2>2. SumFunctionOnSet(hf, V) = 100 * SumFunctionOnSet(f, V)
    BY <1>2, <2>1, SumTimes
  <2>3. SumFunctionOnSet(nw, V) = num * SumFunctionOnSet(w, V)
    BY <1>2, <2>1, SumTimes
  <2>4. SumFunctionOnSet(hf, V) <= SumFunctionOnSet(nw, V)
    BY <1>2, <2>1, SumMonotone
  <2>5. SumFunctionOnSet(f, V) \in Nat
    BY <1>2, <1>8, SumIsNat
  <2> QED BY <1>2, <2>2, <2>3, <2>4, <2>5
<1>13. SumFunctionOnSet(f, V) <= (W * num) \div 100
  <2>1. W * num = num * W
    BY <1>2
  <2>2. \A k, p \in Nat : 100 * k <= p => k <= p \div 100
    OBVIOUS
  <2> QED BY <1>5, <1>12, <2>1, <2>2
<1>14. SumFunctionOnSet(f, V \cup U) = SumFunctionOnSet(f, V) + SumFunctionOnSet(f, U)
  BY <1>1, <1>2, <1>10, SumOfTwoParts
<1>15. per * Cardinality(U) \in Nat
  BY <1>3, <1>7
<1>16. SumFunctionOnSet(f, E) \in 0 .. num
  <2>1. SumFunctionOnSet(f, E) = SumFunctionOnSet(f, V) + per * Cardinality(U)
    BY <1>1, <1>11, <1>14
  <2> QED BY <1>5, <1>7, <1>12, <1>13, <1>15, <2>1 DEF rest
<1> QED BY <1>7, <1>10, <1>16 DEF E, f, per

\* Does the part of some channel reach one descriptor?
AnyShare(ch, nums, num) == \E c \in Existing(ch, nums) : Share(ch, nums, num, c) > 0

\* cpdma_chan_set_descs divides what a direction has among its channels, and gives
\* all of it when some channel gets a share, and nothing otherwise; the other
\* direction keeps its own.
LEMMA SetDescsDivides ==
  ASSUME NEW ch, Typed(ch), NEW nums \in SUBSET Int, NEW num \in Nat, WeightSum(ch, nums) <= 100
  PROVE  LET new == SetDescs(ch, nums, num)
         IN /\ Typed(new) /\ SameButDescs(new, ch)
            /\ \A c \in DOMAIN ch \ nums : new[c] = ch[c]
            /\ num > 0 => SharesIn(new, nums) <= num
            /\ num > 0 => SharesIn(new, nums) = IF AnyShare(ch, nums, num) THEN num ELSE 0
<1> DEFINE E == Existing(ch, nums)
           f == [c \in E |-> Share(ch, nums, num, c)]
           left == num - SumFunction(f)
           descs(c) == Share(ch, nums, num, c) + (IF IsMost(ch, nums, num, c) THEN left ELSE 0)
           new == SetDescs(ch, nums, num)
           given == [c \in E |-> new[c].desc_num]
<1>1. E \subseteq DOMAIN ch /\ E \subseteq nums /\ E = DOMAIN ch \cap nums /\ IsFiniteSet(E)
  BY FS_Subset DEF Existing, Typed
<1>2. SumFunction(f) = SumFunctionOnSet(f, E)
  BY DEF SumFunction
<1>3. /\ \A c \in E : f[c] \in Nat /\ f[c] = Share(ch, nums, num, c)
      /\ SumFunctionOnSet(f, E) \in 0 .. num
  BY SharesFit
<1>4. left \in Nat /\ left = num - SumFunctionOnSet(f, E)
  BY <1>2, <1>3
<1>5. new = [c \in DOMAIN ch |-> IF c \notin nums \/ num = 0 THEN ch[c]
                                 ELSE [ch[c] EXCEPT !.desc_num = descs(c)]]
  BY DEF SetDescs
<1> HIDE DEF left
<1>6. \A c \in E : descs(c) \in Nat /\ descs(c) = f[c] + (IF IsMost(ch, nums, num, c) THEN left ELSE 0)
  <2> HIDE DEF E, f
  <2> QED BY <1>3, <1>4
<1> HIDE DEF descs, new
<1>7. ASSUME NEW c \in DOMAIN ch
      PROVE /\ new[c] \in ChannelType
            /\ new[c].rate = ch[c].rate /\ new[c].weight = ch[c].weight
            /\ c \in nums /\ num # 0 => new[c].desc_num = descs(c)
  <2>1. ch[c] \in ChannelType
    BY DEF Typed
  <2>2. CASE c \notin nums \/ num = 0
    <3>1. new[c] = ch[c]
      BY <1>5, <2>2
    <3> QED BY <2>1, <2>2, <3>1
  <2>3. CASE c \in nums /\ num # 0
    <3>1. new[c] = [ch[c] EXCEPT !.desc_num = descs(c)]
      BY <1>5, <2>3
    <3>2. descs(c) \in Nat
      BY <1>1, <1>6, <2>3
    <3> QED BY <2>1, <3>1, <3>2 DEF ChannelType
  <2> QED BY <2>2, <2>3
<1>8. DOMAIN new = DOMAIN ch /\ \A c \in DOMAIN ch \ nums : new[c] = ch[c]
  BY <1>5
<1>9. Typed(new) /\ SameButDescs(new, ch)
  BY <1>7, <1>8 DEF Typed, SameButDescs
<1>10. SharesIn(new, nums) = SumFunctionOnSet(given, E)
  <2>1. Existing(new, nums) = E
    BY <1>8 DEF Existing
  <2> HIDE DEF E
  <2> QED BY <2>1 DEF SharesIn, SumFunction
<1>11. num > 0 => \A c \in E : given[c] = f[c] + (IF IsMost(ch, nums, num, c) THEN left ELSE 0)
  BY <1>1, <1>6, <1>7
<1> HIDE DEF E, f, given
<1>12. ASSUME NEW c \in E, NEW d \in E, IsMost(ch, nums, num, c), IsMost(ch, nums, num, d)
       PROVE c = d
  <2>1. f[c] < f[d] \/ (c >= d /\ f[c] = f[d])
    BY <1>3, <1>12 DEF IsMost, E
  <2>2. f[d] < f[c] \/ (d >= c /\ f[d] = f[c])
    BY <1>3, <1>12 DEF IsMost, E
  <2>3. c \in Int /\ d \in Int /\ f[c] \in Nat /\ f[d] \in Nat
    BY <1>1, <1>3
  <2> QED BY <2>1, <2>2, <2>3
<1>13. ASSUME num > 0, NEW c \in E, IsMost(ch, nums, num, c)
       PROVE SumFunctionOnSet(given, E) = num
  <2>1. \A d \in E : f[d] \in Int /\ given[d] \in Int
    BY <1>3, <1>4, <1>11, <1>13
  <2>2. \A d \in E \ {c} : given[d] = f[d]
    BY <1>3, <1>11, <1>12, <1>13
  <2>3. given[c] = f[c] + left
    BY <1>11, <1>13
  <2>4. SumFunctionOnSet(given, E) = SumFunctionOnSet(f, E) + given[c] - f[c]
    BY <1>1, <2>1, <2>2, SumOfChanged
  <2> QED BY <1>3, <1>4, <2>3, <2>4
<1>14. ASSUME num > 0, \A c \in E : ~ IsMost(ch, nums, num, c)
       PROVE SumFunctionOnSet(given, E) = SumFunctionOnSet(f, E)
  BY <1>1, <1>3, <1>11, <1>14, SumOfSame
<1>15. ASSUME NEW c \in E, Share(ch, nums, num, c) > 0
       PROVE \E d \in E : IsMost(ch, nums, num, d)
  <2>0. E \in SUBSET Int
    BY <1>1
  <2>1. E \in SUBSET Int /\ \A x \in E : f[x] \in Int
    BY <1>3, <2>0
  <2>2. PICK d \in E : \A e \in E : f[e] < f[d] \/ (e >= d /\ f[e] = f[d])
    BY <1>1, <1>15, <2>1, FirstLargest
  <2>3. f[d] > 0
    BY <1>3, <1>15, <2>2
  <2>4. IsMost(ch, nums, num, d)
    BY <1>3, <2>2, <2>3 DEF IsMost, E
  <2> QED BY <2>4
<1>16. num > 0 => SharesIn(new, nums) <= num
  BY <1>3, <1>10, <1>13, <1>14
<1>17. num > 0 /\ (\E c \in E : Share(ch, nums, num, c) > 0) => SharesIn(new, nums) = num
  BY <1>10, <1>13, <1>15
<1>18. ASSUME num > 0, ~ \E c \in E : Share(ch, nums, num, c) > 0
       PROVE SharesIn(new, nums) = 0
  <2>1. \A c \in E : f[c] = 0
    BY <1>3, <1>18
  <2>2. SumFunctionOnSet(f, E) = 0 * Cardinality(E)
    BY <1>1, <2>1, SumOfEqual
  <2>3. Cardinality(E) \in Nat
    BY <1>1, FS_CardinalityType
  <2>4. \A c \in E : ~ IsMost(ch, nums, num, c)
    BY <1>18 DEF IsMost
  <2> QED BY <1>10, <1>14, <1>18, <2>2, <2>3, <2>4
<1> QED BY <1>8, <1>9, <1>16, <1>17, <1>18 DEF E, new, AnyShare

\* A hundred descriptors and no fewer than channels: some channel gets a share.
LEMMA SomeShare ==
  ASSUME NEW ch, Typed(ch), NEW nums, Existing(ch, nums) # {}, NEW num \in Nat, num >= 100,
         Cardinality(Existing(ch, nums)) <= num, WeightSum(ch, nums) <= 100
  PROVE  AnyShare(ch, nums, num)
<1> SUFFICES \E c \in Existing(ch, nums) : Share(ch, nums, num, c) > 0
  BY DEF AnyShare
<1> DEFINE E == Existing(ch, nums)
           U == Unweighted(ch, nums)
<1>1. \A c \in E : ch[c].weight \in Nat
  BY DEF Existing, Typed, ChannelType
<1>2. CASE \E c \in E : ch[c].weight > 0
  <2>1. PICK c \in E : ch[c].weight > 0
    BY <1>2
  <2>2. Share(ch, nums, num, c) = (ch[c].weight * num) \div 100
    BY <2>1 DEF Share
  <2>3. ch[c].weight * num >= 100 /\ ch[c].weight * num \in Nat
    BY <1>1, <2>1
  <2>4. \A p \in Nat : p >= 100 => p \div 100 > 0
    OBVIOUS
  <2> QED BY <2>1, <2>2, <2>3, <2>4
<1>3. CASE \A c \in E : ch[c].weight = 0
  <2>1. U = E
    BY <1>3 DEF Unweighted
  <2>2. WeightSum(ch, nums) = 0
    <3>1. WeightSum(ch, nums) = SumFunctionOnSet([c \in E |-> ch[c].weight], {}) 
      BY <2>1, WeightsAdd
    <3>2. IsFiniteSet({})
      BY FS_EmptySet
    <3> QED BY <3>1, <3>2, SumTakesOne
  <2>3. (0 * num) \div 100 = 0
    OBVIOUS
  <2>4. PerChannel(ch, nums, num) = num \div Cardinality(E)
    <3>1. PerChannel(ch, nums, num) = (num - (0 * num) \div 100) \div Cardinality(E)
      BY <2>1, <2>2 DEF PerChannel
    <3> QED BY <2>3, <3>1
  <2>5. Cardinality(E) \in Nat \ {0}
    <3>1. IsFiniteSet(E)
      BY WeightsAdd
    <3> QED BY <3>1, FS_CardinalityType, FS_EmptySet
  <2>6. num \div Cardinality(E) >= 1
    <3> DEFINE card == Cardinality(E)
    <3>1. card * 1 <= num /\ card \in Nat \ {0}
      BY <2>5
    <3> HIDE DEF card
    <3>2. num \div card >= 1
      BY <3>1, RoundsDownMost
    <3> QED BY <3>2 DEF card
  <2>7. num \div Cardinality(E) > 0
    <3>1. num \div Cardinality(E) \in Nat
      BY <2>5, RoundsDown
    <3> QED BY <2>6, <3>1
  <2>8. PICK c : c \in E
    OBVIOUS
  <2> QED BY <1>3, <2>4, <2>7, <2>8 DEF Share
<1> QED BY <1>1, <1>2, <1>3

\* The sums over the channels of a direction depend on the channels of that direction.
LEMMA SameSums ==
  ASSUME NEW ch, NEW old, NEW nums, Existing(ch, nums) = Existing(old, nums)
  PROVE  /\ (\A c \in Existing(ch, nums) : ch[c].weight = old[c].weight)
              => WeightSum(ch, nums) = WeightSum(old, nums)
         /\ (\A c \in Existing(ch, nums) : ch[c].desc_num = old[c].desc_num)
              => SharesIn(ch, nums) = SharesIn(old, nums)
<1>1. ASSUME \A c \in Existing(ch, nums) : ch[c].weight = old[c].weight
      PROVE WeightSum(ch, nums) = WeightSum(old, nums)
  <2>1. [c \in Existing(ch, nums) |-> ch[c].weight] = [c \in Existing(old, nums) |-> old[c].weight]
    BY <1>1
  <2> QED BY <2>1 DEF WeightSum
<1>2. ASSUME \A c \in Existing(ch, nums) : ch[c].desc_num = old[c].desc_num
      PROVE SharesIn(ch, nums) = SharesIn(old, nums)
  <2>1. [c \in Existing(ch, nums) |-> ch[c].desc_num] = [c \in Existing(old, nums) |-> old[c].desc_num]
    BY <1>2
  <2> QED BY <2>1 DEF SharesIn
<1> QED BY <1>1, <1>2

\* So do the parts of these channels, and they depend on the weights alone.
LEMMA SameParts ==
  ASSUME NEW ch, NEW old, NEW nums, NEW num, Existing(ch, nums) = Existing(old, nums),
         \A c \in Existing(ch, nums) : ch[c].weight = old[c].weight
  PROVE  AnyShare(ch, nums, num) = AnyShare(old, nums, num)
<1>1. WeightSum(ch, nums) = WeightSum(old, nums)
  BY SameSums
<1>2. Unweighted(ch, nums) = Unweighted(old, nums)
  BY DEF Unweighted
<1>3. PerChannel(ch, nums, num) = PerChannel(old, nums, num)
  BY <1>1, <1>2 DEF PerChannel
<1>4. \A c \in Existing(ch, nums) : Share(ch, nums, num, c) = Share(old, nums, num, c)
  BY <1>3 DEF Share
<1> QED BY <1>4 DEF AnyShare

\* What channels hold is counted.
LEMMA SharesAreNat ==
  ASSUME NEW ch, Typed(ch), NEW nums PROVE SharesIn(ch, nums) \in Nat
<1> DEFINE E == Existing(ch, nums)
           f == [c \in E |-> ch[c].desc_num]
<1>1. E \subseteq DOMAIN ch /\ IsFiniteSet(E)
  BY FS_Subset DEF Existing, Typed
<1>2. \A c \in E : f[c] \in Nat
  BY <1>1 DEF Typed, ChannelType
<1>3. SharesIn(ch, nums) = SumFunctionOnSet(f, E)
  BY DEF SharesIn, SumFunction
<1> HIDE DEF E, f
<1> QED BY <1>1, <1>2, <1>3, SumIsNat

\* TX and RX channels have different numbers, and that of the RX channel exists.
LEMMA NumbersApart ==
  /\ MaxChannels \in Nat \ {0} /\ TxNums \in SUBSET Int /\ RxNums \in SUBSET Int
  /\ TxNums \cap RxNums = {} /\ MaxChannels \in RxNums /\ MaxChannels \notin TxNums
BY ResourceAssumption DEF TxNums, RxNums

\* Channels hold all that their direction has, or nothing if no part reaches one.
AllOrNone(ch, nums, num) == SharesIn(ch, nums) = IF AnyShare(ch, nums, num) THEN num ELSE 0

\* cpdma_chan_split_pool divides what both directions have, unless it is refused.
LEMMA PoolDivides ==
  ASSUME NEW ch, Typed(ch), NEW numTx \in Nat, NEW numRx \in Nat
  PROVE  LET new == SplitPool(ch, numTx, numRx)
         IN /\ Typed(new) /\ SameButDescs(new, ch) /\ (~ Splits(ch) => new = ch)
            /\ Splits(ch) /\ numTx > 0 => SharesIn(new, TxNums) <= numTx
            /\ Splits(ch) /\ numRx > 0 => SharesIn(new, RxNums) <= numRx
            /\ Splits(ch) /\ numTx > 0 => AllOrNone(new, TxNums, numTx)
            /\ Splits(ch) /\ numRx > 0 => AllOrNone(new, RxNums, numRx)
<1> DEFINE one == SetDescs(ch, TxNums, numTx)
           two == SetDescs(one, RxNums, numRx)
<1>1. CASE ~ Splits(ch)
  BY <1>1 DEF SplitPool, SameButDescs
<1>2. CASE Splits(ch)
  <2>1. WeightSum(ch, TxNums) <= 100 /\ WeightSum(ch, RxNums) <= 100
    BY <1>2 DEF Splits
  <2>2. /\ Typed(one) /\ SameButDescs(one, ch)
        /\ numTx > 0 => SharesIn(one, TxNums) <= numTx
        /\ numTx > 0 => SharesIn(one, TxNums) = IF AnyShare(ch, TxNums, numTx) THEN numTx ELSE 0
    BY <2>1, NumbersApart, SetDescsDivides
  <2> HIDE DEF one
  <2>3. Existing(one, RxNums) = Existing(ch, RxNums) /\ WeightSum(one, RxNums) = WeightSum(ch, RxNums)
    <3>1. Existing(one, RxNums) = Existing(ch, RxNums)
      BY <2>2 DEF SameButDescs, Existing
    <3>2. \A c \in Existing(one, RxNums) : one[c].weight = ch[c].weight
      BY <2>2 DEF SameButDescs, Existing
    <3> QED BY <3>1, <3>2, SameSums
  <2>4. /\ Typed(two) /\ SameButDescs(two, one)
        /\ \A c \in DOMAIN one \ RxNums : two[c] = one[c]
        /\ numRx > 0 => SharesIn(two, RxNums) <= numRx
        /\ numRx > 0 => SharesIn(two, RxNums) = IF AnyShare(one, RxNums, numRx) THEN numRx ELSE 0
    BY <2>1, <2>2, <2>3, NumbersApart, SetDescsDivides
  <2> HIDE DEF two
  <2>5. SharesIn(two, TxNums) = SharesIn(one, TxNums)
    <3>1. Existing(two, TxNums) = Existing(one, TxNums)
      BY <2>4 DEF SameButDescs, Existing
    <3>2. \A c \in Existing(two, TxNums) : two[c].desc_num = one[c].desc_num
      BY <2>4, NumbersApart DEF SameButDescs, Existing
    <3> QED BY <3>1, <3>2, SameSums
  <2>6. SplitPool(ch, numTx, numRx) = two
    BY <1>2 DEF SplitPool, one, two
  <2>7. SameButDescs(two, ch)
    BY <2>2, <2>4 DEF SameButDescs
  <2>8. /\ AnyShare(two, TxNums, numTx) = AnyShare(ch, TxNums, numTx)
        /\ AnyShare(two, RxNums, numRx) = AnyShare(one, RxNums, numRx)
    <3>1. ASSUME NEW nums
          PROVE  /\ Existing(two, nums) = Existing(ch, nums) /\ Existing(two, nums) = Existing(one, nums)
                 /\ \A c \in Existing(two, nums) : /\ two[c].weight = ch[c].weight
                                                  /\ two[c].weight = one[c].weight
      BY <2>4, <2>7 DEF SameButDescs, Existing
    <3> QED BY <3>1, SameParts
  <2>9. /\ numTx > 0 => AllOrNone(two, TxNums, numTx)
        /\ numRx > 0 => AllOrNone(two, RxNums, numRx)
    BY <2>2, <2>4, <2>5, <2>8 DEF AllOrNone
  <2> QED BY <1>2, <2>2, <2>4, <2>5, <2>6, <2>7, <2>9
<1> QED BY <1>1, <1>2

\* A channel that comes has no weight, no rate and no descriptors yet.
LEMMA OneMoreChannel ==
  ASSUME NEW ch, Typed(ch), NEW c, c \notin DOMAIN ch, NEW nums
  PROVE  LET more == [d \in DOMAIN ch \cup {c} |-> IF d = c THEN NewChannel ELSE ch[d]]
         IN /\ Typed(more) /\ SharesIn(more, nums) = SharesIn(ch, nums)
            /\ WeightSum(more, nums) = WeightSum(ch, nums)
<1> DEFINE more == [d \in DOMAIN ch \cup {c} |-> IF d = c THEN NewChannel ELSE ch[d]]
           E == Existing(ch, nums)
           F == Existing(more, nums)
           dE == [d \in E |-> ch[d].desc_num]
           dF == [d \in F |-> more[d].desc_num]
           wE == [d \in E |-> ch[d].weight]
           wF == [d \in F |-> more[d].weight]
<1>1. /\ DOMAIN more = DOMAIN ch \cup {c} /\ more[c] = NewChannel
      /\ \A d \in DOMAIN ch : more[d] = ch[d]
  OBVIOUS
<1> HIDE DEF more
<1>2. Typed(more)
  BY <1>1, FS_AddElement DEF Typed, NewChannel, ChannelType
<1>3. /\ IsFiniteSet(E) /\ IsFiniteSet(F) /\ E \subseteq DOMAIN ch
      /\ F = IF c \in nums THEN E \cup {c} ELSE E
      /\ c \notin E
  BY <1>1, FS_AddElement, FS_Subset DEF Typed, Existing
<1>4. /\ SharesIn(ch, nums) = SumFunctionOnSet(dE, E) /\ SharesIn(more, nums) = SumFunctionOnSet(dF, F)
      /\ WeightSum(ch, nums) = SumFunctionOnSet(wE, E) /\ WeightSum(more, nums) = SumFunctionOnSet(wF, F)
  BY DEF SharesIn, WeightSum, SumFunction
<1>5. /\ \A d \in E : dE[d] \in Int /\ dF[d] = dE[d] /\ wE[d] \in Int /\ wF[d] = wE[d]
      /\ c \in F => dF[c] = 0 /\ wF[c] = 0
  BY <1>1, <1>3 DEF Typed, ChannelType, NewChannel
<1> HIDE DEF E, F, dE, dF, wE, wF
<1>6. SumFunctionOnSet(dE, E) = SumFunctionOnSet(dF, E) /\ SumFunctionOnSet(wE, E) = SumFunctionOnSet(wF, E)
  BY <1>3, <1>5, SumOfSame
<1>7. CASE c \in nums
  <2>1. F = E \cup {c} /\ F \ {c} = E /\ c \in F /\ \A d \in F : dF[d] \in Int /\ wF[d] \in Int
    BY <1>3, <1>5, <1>7
  <2>2. SumFunctionOnSet(dF, F) = dF[c] + SumFunctionOnSet(dF, E)
    BY <1>3, <2>1, SumTakesOne
  <2>3. SumFunctionOnSet(wF, F) = wF[c] + SumFunctionOnSet(wF, E)
    BY <1>3, <2>1, SumTakesOne
  <2>4. SumFunctionOnSet(dF, E) \in Int /\ SumFunctionOnSet(wF, E) \in Int
    BY <1>3, <1>5, SumTakesOne
  <2> QED BY <1>2, <1>4, <1>5, <1>6, <2>1, <2>2, <2>3, <2>4 DEF more
<1>8. CASE c \notin nums
  BY <1>2, <1>3, <1>4, <1>6, <1>8 DEF more
<1> QED BY <1>7, <1>8

\* One that goes takes its share with it.
LEMMA OneLessChannel ==
  ASSUME NEW ch, Typed(ch), NEW c \in DOMAIN ch, NEW nums
  PROVE  LET less == [d \in DOMAIN ch \ {c} |-> ch[d]]
         IN Typed(less) /\ SharesIn(less, nums) <= SharesIn(ch, nums) /\ SharesIn(less, nums) \in Nat
<1> DEFINE less == [d \in DOMAIN ch \ {c} |-> ch[d]]
           E == Existing(ch, nums)
           F == Existing(less, nums)
           dE == [d \in E |-> ch[d].desc_num]
           dF == [d \in F |-> less[d].desc_num]
<1>1. DOMAIN less = DOMAIN ch \ {c} /\ \A d \in DOMAIN less : less[d] = ch[d]
  OBVIOUS
<1> HIDE DEF less
<1>2. Typed(less)
  BY <1>1, FS_RemoveElement DEF Typed
<1>3. IsFiniteSet(E) /\ IsFiniteSet(F) /\ E \subseteq DOMAIN ch /\ F \subseteq DOMAIN less /\ F = E \ {c}
  BY <1>1, <1>2, FS_Subset DEF Typed, Existing
<1>4. SharesIn(ch, nums) = SumFunctionOnSet(dE, E) /\ SharesIn(less, nums) = SumFunctionOnSet(dF, F)
  BY DEF SharesIn, SumFunction
<1>5. (\A d \in E : dE[d] \in Nat) /\ (\A d \in F : dF[d] \in Nat /\ dE[d] = dF[d])
  BY <1>1, <1>2, <1>3 DEF Typed, ChannelType
<1> HIDE DEF E, F, dE, dF
<1>6. SumFunctionOnSet(dF, F) = SumFunctionOnSet(dE, F) /\ SumFunctionOnSet(dF, F) \in Nat
  BY <1>3, <1>5, SumOfSame, SumIsNat
<1>7. c \in E => SumFunctionOnSet(dE, E) = dE[c] + SumFunctionOnSet(dE, F)
  BY <1>3, <1>5, SumTakesOne
<1>8. c \notin E => F = E
  BY <1>3
<1> QED BY <1>2, <1>4, <1>5, <1>6, <1>7, <1>8 DEF less

-----------------------------------------------------------------------------
(* CpswRates: types.                                                       *)

\* What can be asked for.
Requests == Rates \subseteq Nat /\ 0 \in Rates /\ Speeds \subseteq Nat

ThreadType == [pc : {"idle", "read", "write"}, max : Nat, ch_budget : Int, bigest : Int,
               bigest_ch : 0 .. MaxQueues - 1, i : Nat, left : Int]

RatesTyped ==
  /\ racing \in BOOLEAN /\ active \in BOOLEAN
  /\ Typed(chan)
  /\ num_rx \in 0 .. NumDesc /\ rlim \subseteq TxNums
  /\ maxrate \in [0 .. MaxQueues - 1 -> Rates]
  /\ speed \in Speeds \cup {0}
  /\ budget \in [0 .. MaxQueues - 1 -> Int]
  /\ thread \in [Threads -> ThreadType]
  /\ Limited(chan) # {} => speed > 0

\* The queues, their channels and their numbers.
LEMMA QueueChannels ==
  ASSUME RateInv, RatesTyped
  PROVE  /\ MaxChannels \in Nat /\ MaxQueues \in Nat /\ MaxQueues <= MaxChannels
         /\ tx_ch_num \in 1 .. MaxQueues
         /\ IsFiniteSet(Queues) /\ Cardinality(Queues) = tx_ch_num
         /\ \A q \in Queues : /\ q \in 0 .. MaxQueues - 1 /\ ChanOf(q) \in Int
                              /\ ChanOf(q) \in DOMAIN chan /\ ChanOf(q) \in TxNums
                              /\ ChanOf(q) \in Existing(chan, TxNums)
                              /\ RateOf(q) \in Nat /\ (RateOf(q) > 0 <=> ChanOf(q) \in Limited(chan))
         /\ \A q, r \in Queues : ChanOf(q) = ChanOf(r) => q = r
         /\ Existing(chan, TxNums) = {ChanOf(q) : q \in Queues}
         /\ Existing(chan, RxNums) = {MaxChannels}
<1>1. /\ MaxChannels \in Nat /\ MaxQueues \in Nat /\ MaxQueues <= MaxChannels
      /\ tx_ch_num \in 1 .. MaxQueues
      /\ DOMAIN chan = (MaxChannels - tx_ch_num .. MaxChannels - 1) \cup {MaxChannels}
  BY ResourceAssumption, QueueAssumption DEF RateInv, ChannelsUp
<1>2. IsFiniteSet(Queues) /\ Cardinality(Queues) = tx_ch_num
  BY <1>1, FS_Interval DEF Queues
<1>3. ASSUME NEW q \in Queues
      PROVE /\ q \in 0 .. MaxQueues - 1 /\ ChanOf(q) \in Int
            /\ ChanOf(q) \in DOMAIN chan /\ ChanOf(q) \in TxNums
  BY <1>1 DEF Queues, ChanOf, TxNums
<1>4. \A q, r \in Queues : ChanOf(q) = ChanOf(r) => q = r
  BY <1>1 DEF Queues, ChanOf
<1>5. Existing(chan, RxNums) = {MaxChannels}
  BY <1>1, NumbersApart DEF Existing, RxNums
<1>6. Existing(chan, TxNums) = {ChanOf(q) : q \in Queues}
  <2>1. ASSUME NEW c \in Existing(chan, TxNums) PROVE \E q \in Queues : c = ChanOf(q)
    <3>1. c \in MaxChannels - tx_ch_num .. MaxChannels - 1
      BY <1>1, NumbersApart DEF Existing
    <3>2. MaxChannels - 1 - c \in Queues /\ c = ChanOf(MaxChannels - 1 - c)
      BY <1>1, <3>1 DEF Queues, ChanOf
    <3> QED BY <3>2
  <2> QED BY <1>3, <2>1 DEF Existing
<1>7. ASSUME NEW q \in Queues
      PROVE /\ ChanOf(q) \in Existing(chan, TxNums)
            /\ RateOf(q) \in Nat /\ (RateOf(q) > 0 <=> ChanOf(q) \in Limited(chan))
  BY <1>3 DEF Existing, RateOf, RatesTyped, Typed, ChannelType, Limited
<1> QED BY <1>1, <1>2, <1>3, <1>4, <1>5, <1>6, <1>7

\* What the first loop of cpsw_split_res reads.
LEMMA ReadTypes ==
  ASSUME Requests, RateInv, RatesTyped
  PROVE  /\ IsFiniteSet(RatedQueues) /\ RatedQueues \subseteq Queues
         /\ Cardinality(RatedQueues) \in 0 .. tx_ch_num
         /\ (Cardinality(RatedQueues) = 0 <=> RatedQueues = {})
         /\ (Cardinality(RatedQueues) = tx_ch_num <=> RatedQueues = Queues)
         /\ speed \in Nat /\ (RatedQueues # {} => speed > 0)
         /\ Consumed \in Nat /\ MaxRate \in Nat /\ ChBudget \in Int /\ BiggestRate \in Int
         /\ (RatedQueues # {} /\ RatedQueues # Queues => MaxRate > 0)
<1>1. RatedQueues \subseteq Queues /\ IsFiniteSet(RatedQueues)
  BY QueueChannels, FS_Subset DEF RatedQueues
<1>2. /\ Cardinality(RatedQueues) \in 0 .. tx_ch_num /\ tx_ch_num \in Nat \ {0}
      /\ (Cardinality(RatedQueues) = 0 <=> RatedQueues = {})
      /\ (Cardinality(RatedQueues) = tx_ch_num <=> RatedQueues = Queues)
  <2>1. Cardinality(RatedQueues) \in Nat /\ (Cardinality(RatedQueues) = 0 <=> RatedQueues = {})
    BY <1>1, FS_CardinalityType, FS_EmptySet
  <2>2. /\ Cardinality(RatedQueues) <= Cardinality(Queues)
        /\ Cardinality(Queues) = Cardinality(RatedQueues) => Queues = RatedQueues
    BY <1>1, QueueChannels, FS_Subset
  <2> QED BY <2>1, <2>2, QueueChannels
<1>3. speed \in Nat /\ (RatedQueues # {} => speed > 0)
  <2>1. RatedQueues # {} => Limited(chan) # {}
    BY QueueChannels DEF RatedQueues
  <2> QED BY <2>1 DEF Requests, RatesTyped
<1>4. Consumed \in Nat
  <2> DEFINE rate == [q \in RatedQueues |-> RateOf(q)]
  <2>1. \A q \in RatedQueues : rate[q] \in Nat
    BY <1>1, QueueChannels
  <2>2. Consumed = SumFunctionOnSet(rate, RatedQueues)
    BY DEF Consumed, SumFunction
  <2> HIDE DEF rate
  <2> QED BY <1>1, <2>1, <2>2, SumIsNat
<1>5. MaxRate \in Nat /\ (RatedQueues # {} /\ RatedQueues # Queues => MaxRate > 0)
  BY <1>3, <1>4 DEF MaxRate
<1>6. ChBudget \in Int
  <2> DEFINE others == tx_ch_num - Cardinality(RatedQueues)
  <2>1. CASE others = 0
    <3>1. RatedQueues # {}
      BY <1>2, <2>1
    <3>2. ChBudget = 0
      BY <2>1, <3>1 DEF ChBudget
    <3> QED BY <3>2
  <2>2. CASE others # 0 /\ RatedQueues = {}
    <3>1. ChBudget = PollWeight \div tx_ch_num
      BY <2>2 DEF ChBudget
    <3> QED BY <1>2, <3>1 DEF PollWeight
  <2>3. CASE others # 0 /\ RatedQueues # {}
    <3>1. others \in Nat \ {0} /\ MaxRate \in Nat \ {0}
      BY <1>2, <1>5, <2>3
    <3>2. ChBudget = Quotient(PollWeight - (Consumed * PollWeight) \div MaxRate, others)
      BY <2>3 DEF ChBudget
    <3>3. (Consumed * PollWeight) \div MaxRate \in Int
      BY <1>4, <3>1 DEF PollWeight
    <3> HIDE DEF others
    <3>4. \A a \in Int : Quotient(64 - a, others) \in Int
      BY <3>1 DEF Quotient
    <3> QED BY <3>2, <3>3, <3>4 DEF PollWeight
  <2> QED BY <2>1, <2>2, <2>3
<1>7. BiggestRate \in Int
  <2>1. CASE RatedQueues = Queues \/ RatedQueues = {}
    BY <2>1 DEF BiggestRate
  <2>2. CASE RatedQueues # Queues /\ RatedQueues # {}
    <3> DEFINE others == tx_ch_num - Cardinality(RatedQueues)
    <3>1. others \in Nat \ {0}
      BY <1>2, <2>2
    <3>2. BiggestRate \in {Consumed, (MaxRate - Consumed) \div others}
      BY <2>2 DEF BiggestRate
    <3> HIDE DEF others
    <3> QED BY <1>4, <1>5, <3>1, <3>2
  <2> QED BY <2>1, <2>2
<1> QED BY <1>1, <1>2, <1>3, <1>4, <1>5, <1>6, <1>7

\* Budgets and weights are integers, and weights not negative.
LEMMA WriteTypes ==
  ASSUME RateInv, RatesTyped, NEW q \in Queues, NEW max \in Nat, NEW b \in Int,
         RateOf(q) > 0 => max > 0
  PROVE  BudgetOf(q, max, b) \in Int /\ WeightOf(q, max) \in Nat
<1>1. RateOf(q) \in Nat
  BY QueueChannels
<1>2. CASE RateOf(q) > 0
  <2>1. max \in Nat \ {0} /\ RateOf(q) * 64 \in Nat /\ RateOf(q) * 100 \in Nat
    BY <1>1, <1>2
  <2>2. (RateOf(q) * 64) \div max \in Nat /\ (RateOf(q) * 100) \div max \in Nat
    BY <2>1, RoundsDown
  <2> QED BY <1>2, <2>2 DEF BudgetOf, WeightOf, AtLeastOne, PollWeight
<1>3. CASE RateOf(q) = 0
  BY <1>3 DEF BudgetOf, WeightOf
<1> QED BY <1>1, <1>2, <1>3

\* Setting a weight, or a rate, keeps the channels typed.
LEMMA WeightIsStored ==
  ASSUME NEW ch, Typed(ch), NEW c, NEW x \in Nat, NEW new, new = [ch EXCEPT ![c].weight = x]
  PROVE  /\ Typed(new) /\ DOMAIN new = DOMAIN ch
         /\ \A d \in DOMAIN ch : /\ new[d].rate = ch[d].rate /\ new[d].desc_num = ch[d].desc_num
                                 /\ new[d].weight = IF d = c THEN x ELSE ch[d].weight
BY DEF Typed, ChannelType

\* An assignment of a rate changes that rate, and neither weights nor shares.
LEMMA RateIsStored ==
  ASSUME NEW ch, Typed(ch), NEW c, NEW x \in Nat, NEW new, new = [ch EXCEPT ![c].rate = x]
  PROVE  /\ Typed(new) /\ DOMAIN new = DOMAIN ch
         /\ \A d \in DOMAIN ch : /\ new[d].weight = ch[d].weight /\ new[d].desc_num = ch[d].desc_num
                                 /\ new[d].rate = IF d = c THEN x ELSE ch[d].rate
BY DEF Typed, ChannelType

-----------------------------------------------------------------------------
\* cpsw_probe makes one channel of each direction, and divides the descriptors.
LEMMA TypedInit ==
  ASSUME Requests, Init
  PROVE  RatesTyped /\ thread = [t \in Threads |-> Idle] /\ \A d \in DOMAIN chan : chan[d].weight = 0
<1> DEFINE c == MaxChannels - 1
           half == NumDesc \div 2
           one == [d \in DOMAIN <<>> \cup {c} |-> IF d = c THEN NewChannel ELSE <<>>[d]]
           created == SplitPool(one, half, num_rx)
           two == [d \in DOMAIN created \cup {MaxChannels} |->
                     IF d = MaxChannels THEN NewChannel ELSE created[d]]
<1>1. half \in 0 .. NumDesc /\ NumDesc \in Nat /\ num_rx = NumDesc - half
  BY PoolAssumption DEF Init
<1>2. num_rx \in 0 .. NumDesc /\ half \in Nat
  BY <1>1
<1>3. chan = SplitPool(two, half, num_rx)
  <2>1. ChanOf(0) = c /\ rx_chan_num(0) = MaxChannels
    BY NumbersApart DEF ChanOf, rx_chan_num
  <2>2. chan = ChanCreate(ChanCreate(<<>>, ChanOf(0), half, num_rx),
                          rx_chan_num(0), half, num_rx)
    BY DEF Init
  <2> QED BY <2>1, <2>2 DEF ChanCreate
<1> HIDE DEF half
<1>4. Typed(<<>>) /\ DOMAIN <<>> = {}
  BY FS_EmptySet DEF Typed
<1>5. Typed(one) /\ DOMAIN one = {c} /\ one[c].weight = 0
  <2>1. Typed(one) /\ DOMAIN one = {c}
    BY <1>4, OneMoreChannel
  <2>2. one[c] = NewChannel
    OBVIOUS
  <2> QED BY <2>1, <2>2 DEF NewChannel
<1> HIDE DEF one
<1>6. Typed(created) /\ DOMAIN created = {c} /\ created[c].weight = 0
  <2>1. Typed(created) /\ SameButDescs(created, one)
    BY <1>2, <1>5, PoolDivides
  <2> HIDE DEF created
  <2> QED BY <1>5, <2>1 DEF SameButDescs
<1>7. MaxChannels \notin {c}
  BY NumbersApart
<1> HIDE DEF created
<1>8. Typed(two) /\ \A d \in DOMAIN two : two[d].weight = 0
  <2>1. Typed(two)
    BY <1>6, <1>7, OneMoreChannel
  <2>2. two[MaxChannels] = NewChannel /\ \A d \in DOMAIN two : d = MaxChannels \/ (d = c /\ two[d] = created[d])
    BY <1>6
  <2> QED BY <1>6, <2>1, <2>2 DEF NewChannel
<1> HIDE DEF two
<1>9. Typed(chan) /\ \A d \in DOMAIN chan : chan[d].weight = 0
  <2>1. Typed(chan) /\ SameButDescs(chan, two)
    BY <1>2, <1>3, <1>8, PoolDivides
  <2> QED BY <1>8, <2>1 DEF SameButDescs
<1>10. thread = [t \in Threads |-> Idle] /\ Idle \in ThreadType
  <2>1. 0 \in 0 .. MaxQueues - 1
    BY QueueAssumption
  <2> QED BY <2>1 DEF Init, Idle, ThreadType
<1>11. Limited(chan) = {}
  BY RatesInit
<1>12. /\ maxrate \in [0 .. MaxQueues - 1 -> Rates] /\ budget \in [0 .. MaxQueues - 1 -> Int]
       /\ racing \in BOOLEAN /\ active \in BOOLEAN /\ rlim = {} /\ speed = 0
  <2>1. maxrate \in [0 .. MaxQueues - 1 -> Rates]
    BY DEF Init, Requests
  <2>2. budget \in [0 .. MaxQueues - 1 -> Int]
    BY DEF Init, PollWeight
  <2> QED BY <2>1, <2>2 DEF Init
<1>13. thread \in [Threads -> ThreadType]
  BY <1>10
<1>14. rlim \subseteq TxNums /\ speed \in Speeds \cup {0}
  BY <1>12
<1>15. RatesTyped
  BY <1>2, <1>9, <1>11, <1>12, <1>13, <1>14 DEF RatesTyped
<1> QED BY <1>9, <1>10, <1>15

\* A step that changes no rate, and no limit.
LEMMA TypedKept ==
  ASSUME RatesTyped, SameRates(chan', chan), Typed(chan)', RatesTyped => num_rx' \in 0 .. NumDesc,
         racing' = racing, active' \in BOOLEAN, rlim' = rlim \/ rlim' = Limited(chan),
         maxrate' = maxrate, speed' = speed \/ (speed' \in Speeds /\ speed' > 0),
         budget' \in [0 .. MaxQueues - 1 -> Int], thread' \in [Threads -> ThreadType]
  PROVE  RatesTyped'
<1>1. Limited(chan') = Limited(chan)
  BY RatesTell
<1>2. rlim' \subseteq TxNums
  BY DEF Limited, Existing, RatesTyped
<1>3. Limited(chan') # {} => speed' > 0
  BY <1>1 DEF RatesTyped
<1> QED BY <1>2, <1>3 DEF RatesTyped

\* A thread that begins, or ends, stays typed.
LEMMA ThreadKept ==
  ASSUME RatesTyped, NEW t \in Threads
  PROVE  /\ Begin(t) => thread' \in [Threads -> ThreadType]
         /\ thread' = [thread EXCEPT ![t] = Idle] => thread' \in [Threads -> ThreadType]
<1>1. thread \in [Threads -> ThreadType]
  BY DEF RatesTyped
<1>2. Begin(t) => thread' = [thread EXCEPT ![t] = [thread[t] EXCEPT !.pc = "read"]]
  BY <1>1 DEF Begin
<1>3. [thread[t] EXCEPT !.pc = "read"] \in ThreadType
  BY <1>1 DEF ThreadType
<1>4. Idle \in ThreadType
  <2>1. 0 \in 0 .. MaxQueues - 1
    BY QueueAssumption
  <2> QED BY <2>1 DEF Idle, ThreadType
<1> QED BY <1>1, <1>2, <1>3, <1>4

\* cpsw_ndo_set_tx_maxrate keeps the types, also if the rate is refused half way.
LEMMA TypedSetTxMaxrate ==
  ASSUME Requests, RateInv, RatesTyped, NEW q \in Queues, NEW r \in Rates, SetTxMaxrate(q, r)
  PROVE  RatesTyped'
<1> DEFINE c == ChanOf(q)
           x == SetFactors(r * 1000)
<1>1. /\ chan' = [chan EXCEPT ![c].rate = x]
      /\ r = 0 \/ r * 1000 >= MinRate
      /\ r <= speed
      /\ rlim' = rlim \/ rlim' = Limited(chan')
      /\ maxrate' = [maxrate EXCEPT ![q] = r]
      /\ Begin("rtnl")
      /\ UNCHANGED <<racing, active, num_rx, tx_ch_num, speed, budget>>
  BY DEF SetTxMaxrate, ChanSetRate
<1>2. x \in Nat /\ (x > 0 => r > 0) /\ r \in Nat
  <2>1. r \in Nat
    BY DEF Requests
  <2>2. CASE r = 0
    <3>1. r * 1000 = 0
      BY <2>2
    <3>2. SetFactors(0) = 0
      BY DEF SetFactors
    <3> QED BY <2>1, <3>1, <3>2
  <2>3. CASE r > 0
    BY <1>1, <2>1, <2>3, FactorAssumption
  <2> QED BY <2>1, <2>2, <2>3
<1> HIDE DEF x
<1>3. /\ Typed(chan') /\ DOMAIN chan' = DOMAIN chan
      /\ \A d \in DOMAIN chan : chan'[d].rate = IF d = c THEN x ELSE chan[d].rate
  <2>1. Typed(chan) /\ chan' = [chan EXCEPT ![c].rate = x]
    BY <1>1 DEF RatesTyped
  <2> HIDE DEF c
  <2>2. x \in Nat
    BY <1>2
  <2> DEFINE new == [chan EXCEPT ![c].rate = x]
  <2>3. Typed(new)
    BY <2>1, <2>2, RateIsStored
  <2>4. DOMAIN new = DOMAIN chan
    BY <2>1, <2>2, RateIsStored
  <2>5. \A d \in DOMAIN chan : new[d].rate = IF d = c THEN x ELSE chan[d].rate
    BY <2>1, <2>2, RateIsStored
  <2> HIDE DEF new
  <2> QED BY <2>1, <2>3, <2>4, <2>5 DEF new
<1>4. Limited(chan') # {} => speed' > 0
  <2> SUFFICES ASSUME NEW d \in Limited(chan') PROVE speed > 0
    BY <1>1
  <2>1. d \in DOMAIN chan /\ d \in TxNums /\ chan'[d].rate > 0
    BY <1>3 DEF Limited, Existing
  <2>2. CASE d = c
    <3>1. chan'[d].rate = x
      BY <1>3, <2>1, <2>2
    <3>2. r > 0 /\ r <= speed /\ r \in Nat
      BY <1>1, <1>2, <2>1, <3>1
    <3>3. speed \in Nat
      BY DEF RatesTyped, Requests
    <3> QED BY <3>2, <3>3
  <2>3. CASE d # c
    <3>1. d \in Limited(chan)
      BY <1>3, <2>1, <2>3 DEF Limited, Existing
    <3> QED BY <3>1 DEF RatesTyped
  <2> QED BY <2>2, <2>3
<1>5. rlim' \subseteq TxNums
  BY <1>1 DEF Limited, Existing, RatesTyped
<1>6. maxrate' \in [0 .. MaxQueues - 1 -> Rates]
  BY <1>1 DEF RatesTyped
<1>7. thread' \in [Threads -> ThreadType]
  BY <1>1, ThreadKept DEF Threads
<1> QED BY <1>1, <1>3, <1>4, <1>5, <1>6, <1>7 DEF RatesTyped

\* cpsw_set_channels keeps the types: the channels it adds start without a rate.
LEMMA TypedSetChannels ==
  ASSUME Requests, RateInv, RatesTyped, NEW n \in 1 .. MaxQueues, SetChannels(n)
  PROVE  RatesTyped'
<1> DEFINE low == MaxChannels - tx_ch_num
           more == [d \in DOMAIN chan \cup {low - 1} |-> IF d = low - 1 THEN NewChannel ELSE chan[d]]
           less == [d \in DOMAIN chan \ {low} |-> chan[d]]
<1>1. /\ num_tx \in Nat /\ num_rx \in Nat /\ Typed(chan)
      /\ low - 1 \notin DOMAIN chan /\ low \in DOMAIN chan /\ low \in TxNums
  <2>1. /\ MaxChannels \in Nat /\ tx_ch_num \in 1 .. MaxChannels
        /\ DOMAIN chan = (low .. MaxChannels - 1) \cup {MaxChannels}
    BY ResourceAssumption, QueueAssumption DEF RateInv, ChannelsUp
  <2>2. num_tx \in Nat /\ num_rx \in Nat /\ Typed(chan)
    BY PoolAssumption DEF num_tx, RatesTyped
  <2> QED BY <2>1, <2>2 DEF TxNums
<1>2. /\ Begin("rtnl")
      /\ UNCHANGED <<racing, active, num_rx, rlim, maxrate, speed, budget>>
      /\ \/ chan' = SplitPool(more, num_tx, num_rx)
         \/ chan' = SplitPool(less, num_tx, num_rx)
  <2>1. MaxChannels \in Nat /\ tx_ch_num \in Nat
    BY ResourceAssumption, QueueAssumption DEF RateInv, ChannelsUp
  <2>2. ChanOf(tx_ch_num) = low - 1
    BY <2>1 DEF ChanOf
  <2>3. n = tx_ch_num - 1 => ChanOf(n) = low
    BY <2>1 DEF ChanOf
  <2> QED BY <2>2, <2>3 DEF SetChannels, ChanCreate, ChanDestroy
<1>3. /\ Typed(more) /\ \A d \in DOMAIN more : more[d].rate > 0 => d \in DOMAIN chan /\ chan[d].rate = more[d].rate
  <2>1. Typed(more)
    BY <1>1, OneMoreChannel
  <2> QED BY <2>1 DEF NewChannel
<1>4. Typed(less) /\ \A d \in DOMAIN less : d \in DOMAIN chan /\ chan[d].rate = less[d].rate
  <2>1. Typed(less)
    BY <1>1, OneLessChannel
  <2> QED BY <2>1
<1> HIDE DEF more, less
<1>5. /\ Typed(chan')
      /\ \A d \in DOMAIN chan' : chan'[d].rate > 0 => d \in DOMAIN chan /\ chan[d].rate = chan'[d].rate
  <2>1. CASE chan' = SplitPool(more, num_tx, num_rx)
    <3>1. Typed(chan') /\ SameButDescs(chan', more)
      BY <1>1, <1>3, <2>1, PoolDivides
    <3> QED BY <1>3, <3>1 DEF SameButDescs
  <2>2. CASE chan' = SplitPool(less, num_tx, num_rx)
    <3>1. Typed(chan') /\ SameButDescs(chan', less)
      BY <1>1, <1>4, <2>2, PoolDivides
    <3> QED BY <1>4, <3>1 DEF SameButDescs
  <2> QED BY <1>2, <2>1, <2>2
<1>6. Limited(chan') # {} => speed' > 0
  <2>1. Limited(chan') \subseteq Limited(chan)
    BY <1>5 DEF Limited, Existing
  <2> QED BY <1>2, <2>1 DEF RatesTyped
<1>7. thread' \in [Threads -> ThreadType]
  BY <1>2, ThreadKept DEF Threads
<1> QED BY <1>2, <1>5, <1>6, <1>7 DEF RatesTyped

\* What a pass over one queue does to the channels.
LEMMA SplitQueueChan ==
  ASSUME RateInv, RatesTyped, NEW t \in Threads, SplitQueue(t)
  PROVE  LET th == thread[t]
             w == WeightOf(th.i, th.max)
         IN /\ th.i \in Queues /\ th.max \in Nat /\ w \in Nat /\ BudgetOf(th.i, th.max, th.ch_budget) \in Int
            /\ Typed([chan EXCEPT ![ChanOf(th.i)].weight = w])
            /\ Typed(chan') /\ SameRates(chan', chan)
            /\ \A d \in DOMAIN chan : chan'[d].weight = IF d = ChanOf(th.i) THEN w ELSE chan[d].weight
<1> DEFINE th == thread[t]
           c == ChanOf(th.i)
           w == WeightOf(th.i, th.max)
           weighted == [chan EXCEPT ![c].weight = w]
<1>1. th \in ThreadType /\ Typed(chan) /\ num_tx \in Nat /\ num_rx \in Nat
  BY PoolAssumption DEF num_tx, RatesTyped
<1>2. th.i \in Nat /\ th.max \in Nat /\ th.ch_budget \in Int
  BY <1>1 DEF ThreadType
<1>3. /\ th.i < tx_ch_num /\ (RateOf(th.i) > 0 => th.max > 0)
      /\ chan' = IF chan[c].weight = w THEN chan ELSE SplitPool(weighted, num_tx, num_rx)
  BY DEF SplitQueue, ChanSetWeight
<1>4. th.i \in Queues
  BY <1>2, <1>3, QueueChannels DEF Queues
<1>5. w \in Nat /\ BudgetOf(th.i, th.max, th.ch_budget) \in Int
  BY <1>2, <1>3, <1>4, WriteTypes
<1> HIDE DEF c, w, th
<1>6. /\ Typed(weighted) /\ DOMAIN weighted = DOMAIN chan
      /\ \A d \in DOMAIN chan : /\ weighted[d].rate = chan[d].rate
                               /\ weighted[d].weight = IF d = c THEN w ELSE chan[d].weight
  BY <1>1, <1>5, WeightIsStored
<1> HIDE DEF weighted
<1>7. Typed(SplitPool(weighted, num_tx, num_rx)) /\ SameButDescs(SplitPool(weighted, num_tx, num_rx), weighted)
  BY <1>1, <1>6, PoolDivides
<1>8. /\ Typed(chan') /\ DOMAIN chan' = DOMAIN chan
      /\ \A d \in DOMAIN chan : /\ chan'[d].rate = chan[d].rate
                               /\ chan'[d].weight = IF d = c THEN w ELSE chan[d].weight
  BY <1>1, <1>3, <1>6, <1>7 DEF SameButDescs
<1>9. SameRates(chan', chan)
  BY <1>8 DEF SameRates, Typed, ChannelType, Channels, Channel
<1> QED BY <1>2, <1>4, <1>5, <1>6, <1>8, <1>9 DEF c, w, th, weighted

\* What it does to the thread.
LEMMA SplitQueueThread ==
  ASSUME RateInv, RatesTyped, NEW t \in Threads, SplitQueue(t)
  PROVE  LET th == thread[t]
             new == thread'[t]
         IN /\ new \in ThreadType /\ new.pc = "write" /\ new.max = th.max
            /\ new.ch_budget = th.ch_budget /\ new.i = th.i + 1
            /\ new.left = th.left - BudgetOf(th.i, th.max, th.ch_budget)
            /\ new.bigest_ch \in {th.i, th.bigest_ch}
            /\ \A u \in Threads \ {t} : thread'[u] = thread[u]
            /\ thread' \in [Threads -> ThreadType]
<1> DEFINE th == thread[t]
           b == BudgetOf(th.i, th.max, th.ch_budget)
           isBigger == RateOf(th.i) > th.bigest
           isFirst == RateOf(th.i) = 0 /\ th.bigest_ch = 0
           big == IF isBigger THEN RateOf(th.i) ELSE th.bigest
           most == IF isBigger \/ isFirst THEN th.i ELSE th.bigest_ch
           new == [th EXCEPT !.i = th.i + 1, !.left = th.left - b, !.bigest = big, !.bigest_ch = most]
<1>1. th \in ThreadType /\ thread \in [Threads -> ThreadType]
  BY DEF RatesTyped
<1>2. th.i \in Queues /\ b \in Int
  BY SplitQueueChan
<1>3. th.i \in 0 .. MaxQueues - 1 /\ RateOf(th.i) \in Nat
  BY <1>2, QueueChannels
<1>4. thread' = [thread EXCEPT ![t] = new] /\ th.pc = "write"
  <2>1. thread' = [thread EXCEPT
          ![t].i = th.i + 1,
          ![t].left = th.left - b,
          ![t].bigest = IF isBigger THEN RateOf(th.i) ELSE @,
          ![t].bigest_ch = IF isBigger \/ isFirst THEN th.i ELSE @] /\ th.pc = "write"
    BY DEF SplitQueue
  <2> HIDE DEF b, isBigger, isFirst
  <2> QED BY <1>1, <2>1
<1>5. th.left \in Int /\ th.bigest \in Int /\ th.bigest_ch \in 0 .. MaxQueues - 1 /\ th.i \in Nat
  BY <1>1 DEF ThreadType
<1> HIDE DEF b, isBigger, isFirst
<1>6. th.i + 1 \in Nat /\ th.left - b \in Int /\ big \in Int /\ most \in 0 .. MaxQueues - 1
  BY <1>2, <1>3, <1>5
<1>7. most \in {th.i, th.bigest_ch}
  OBVIOUS
<1> HIDE DEF big, most
<1>8. /\ new \in ThreadType /\ new.pc = th.pc /\ new.max = th.max
      /\ new.ch_budget = th.ch_budget /\ new.i = th.i + 1 /\ new.left = th.left - b
      /\ new.bigest_ch = most
  <2> DEFINE a == th.i + 1
             e == th.left - b
  <2>1. new = [th EXCEPT !.i = a, !.left = e, !.bigest = big, !.bigest_ch = most]
    OBVIOUS
  <2>2. /\ th \in ThreadType /\ a \in Nat /\ e \in Int /\ big \in Int
        /\ most \in 0 .. MaxQueues - 1
    BY <1>1, <1>6
  <2> HIDE DEF new, th, a, e
  <2>3. /\ new \in ThreadType /\ new.pc = th.pc /\ new.max = th.max
        /\ new.ch_budget = th.ch_budget /\ new.i = a /\ new.left = e
        /\ new.bigest_ch = most
    BY <2>1, <2>2 DEF ThreadType
  <2> QED BY <2>3 DEF a, e
<1> HIDE DEF new
<1>9. thread'[t] = new /\ thread' \in [Threads -> ThreadType] /\ \A u \in Threads \ {t} : thread'[u] = thread[u]
  BY <1>1, <1>4, <1>8
<1> QED BY <1>4, <1>7, <1>8, <1>9 DEF b

\* One round of the second loop of cpsw_split_res keeps the types.
LEMMA TypedSplitQueue ==
  ASSUME Requests, RateInv, RatesTyped, NEW t \in Threads, SplitQueue(t)
  PROVE  RatesTyped'
<1> DEFINE th == thread[t]
           b == BudgetOf(th.i, th.max, th.ch_budget)
<1>1. /\ th.i \in Queues /\ b \in Int /\ Typed(chan') /\ SameRates(chan', chan)
      /\ thread' \in [Threads -> ThreadType]
  BY SplitQueueChan, SplitQueueThread
<1>2. th.i \in 0 .. MaxQueues - 1
  BY <1>1, QueueChannels
<1>3. /\ budget' = [budget EXCEPT ![th.i] = b]
      /\ UNCHANGED <<racing, active, num_rx, rlim, tx_ch_num, maxrate, speed>>
  BY DEF SplitQueue
<1>4. budget' \in [0 .. MaxQueues - 1 -> Int]
  BY <1>1, <1>2, <1>3 DEF RatesTyped
<1>5. active \in BOOLEAN /\ num_rx \in 0 .. NumDesc
  BY DEF RatesTyped
<1> QED BY <1>1, <1>3, <1>4, <1>5, TypedKept

\* Every step keeps the types.
LEMMA TypedStep ==
  ASSUME Requests, RateInv, RatesTyped, [Next]_vars PROVE RatesTyped'
<1>1. /\ SameRates(chan, chan) /\ Typed(chan) /\ active \in BOOLEAN
      /\ budget \in [0 .. MaxQueues - 1 -> Int] /\ thread \in [Threads -> ThreadType]
      /\ num_rx \in 0 .. NumDesc
  BY DEF RateInv, ChannelsUp, SameRates, RatesTyped
<1>2. CASE UNCHANGED vars
  BY <1>1, <1>2, TypedKept DEF vars
<1>3. CASE CtlrStart
  BY <1>1, <1>3, TypedKept DEF CtlrStart
<1>4. CASE CtlrStop
  BY <1>1, <1>4, TypedKept DEF CtlrStop
<1>5. ASSUME NEW n \in RxDescChoices, SetNumRxDescs(n) PROVE RatesTyped'
  <2>1. n \in 0 .. NumDesc /\ NumDesc - n \in Nat /\ n \in Nat
    BY PoolAssumption
  <2>2. Typed(SplitPool(chan, NumDesc - n, n))
    BY <1>1, <2>1, PoolDivides
  <2>3. SameRates(SplitPool(chan, NumDesc - n, n), chan)
    BY SplitPoolKeepsRates DEF RateInv, ChannelsUp
  <2>4. /\ num_rx' \in 0 .. NumDesc /\ Typed(chan') /\ SameRates(chan', chan)
    BY <1>1, <1>5, <2>1, <2>2, <2>3 DEF SetNumRxDescs
  <2>5. UNCHANGED <<racing, active, rlim, tx_ch_num, maxrate, speed, budget, thread>>
    BY <1>5 DEF SetNumRxDescs
  <2> QED BY <1>1, <2>4, <2>5, TypedKept
<1>6. ASSUME NEW s \in Speeds, AdjustLink(s) PROVE RatesTyped'
  <2>1. speed' = speed \/ (speed' \in Speeds /\ speed' > 0)
    BY <1>6 DEF AdjustLink, Requests
  <2>2. thread' \in [Threads -> ThreadType]
    <3>1. thread' = thread \/ Begin("phy")
      BY <1>6 DEF AdjustLink
    <3> QED BY <1>1, <3>1, ThreadKept DEF Threads
  <2>3. UNCHANGED <<racing, active, chan, num_rx, rlim, tx_ch_num, maxrate, budget>>
    BY <1>6 DEF AdjustLink
  <2> QED BY <1>1, <2>1, <2>2, <2>3, TypedKept
<1>7. ASSUME NEW t \in Threads, SplitRead(t) PROVE RatesTyped'
  <2> DEFINE th == [pc |-> "write", max |-> MaxRate, ch_budget |-> ChBudget,
                    bigest |-> BiggestRate, bigest_ch |-> 0, i |-> 0, left |-> PollWeight]
  <2>1. thread' = [thread EXCEPT ![t] = th]
    BY <1>7 DEF SplitRead
  <2>2. th \in ThreadType
    <3>1. 0 \in 0 .. MaxQueues - 1
      BY QueueAssumption
    <3> QED BY <3>1, ReadTypes DEF ThreadType, PollWeight
  <2> HIDE DEF th
  <2>3. thread' \in [Threads -> ThreadType]
    BY <1>1, <2>1, <2>2
  <2>4. UNCHANGED <<racing, active, chan, num_rx, rlim, tx_ch_num, maxrate, speed, budget>>
    BY <1>7 DEF SplitRead
  <2> QED BY <1>1, <2>3, <2>4, TypedKept
<1>8. ASSUME NEW t \in Threads, SplitEnd(t) PROVE RatesTyped'
  <2>1. thread[t].bigest_ch \in 0 .. MaxQueues - 1 /\ thread[t].left \in Int
    BY <1>1 DEF ThreadType
  <2>2. /\ budget' = [budget EXCEPT ![thread[t].bigest_ch] = @ + thread[t].left]
        /\ thread' = [thread EXCEPT ![t] = Idle]
        /\ UNCHANGED <<racing, active, chan, num_rx, rlim, tx_ch_num, maxrate, speed>>
    BY <1>8 DEF SplitEnd
  <2>3. budget' \in [0 .. MaxQueues - 1 -> Int]
    BY <1>1, <2>1, <2>2
  <2>4. thread' \in [Threads -> ThreadType]
    BY <2>2, ThreadKept
  <2> QED BY <1>1, <2>2, <2>3, <2>4, TypedKept
<1> QED BY <1>2, <1>3, <1>4, <1>5, <1>6, <1>7, <1>8, TypedSetTxMaxrate, TypedSetChannels,
           TypedSplitQueue DEF Next

-----------------------------------------------------------------------------
(* CpswRates: the descriptors of each direction.                           *)

\* The sizes of the ring leave each direction a descriptor.
Directions == NumDesc >= 2 /\ RxDescChoices \subseteq 1 .. NumDesc - 1

RingSizes == RxDescChoices \cup {NumDesc - NumDesc \div 2}

\* What channels hold is no more than their direction has, and all of it or nothing
\* unless the weights exceed 100 percent.
Holds(ch, numTx, numRx) ==
  /\ SharesIn(ch, TxNums) <= numTx /\ SharesIn(ch, RxNums) <= numRx
  /\ Splits(ch) => AllOrNone(ch, TxNums, numTx) /\ AllOrNone(ch, RxNums, numRx)

Divided == num_rx \in RingSizes /\ Holds(chan, num_tx, num_rx)

\* Both directions have a descriptor, whatever size of ring was asked for.
LEMMA RingNumbers ==
  ASSUME Directions, NEW n \in RingSizes
  PROVE  n \in Nat \ {0} /\ NumDesc - n \in Nat \ {0} /\ NumDesc \in Nat
<1>1. NumDesc \in Nat /\ NumDesc - NumDesc \div 2 \in 1 .. NumDesc - 1
  BY PoolAssumption DEF Directions
<1>2. n \in 1 .. NumDesc - 1
  BY <1>1 DEF Directions, RingSizes
<1> QED BY <1>1, <1>2

\* Dividing the pool again, or refusing to, keeps to it.
LEMMA DividedAgain ==
  ASSUME Directions, NEW n \in RingSizes, NEW ch, Typed(ch),
         Splits(ch) \/ (SharesIn(ch, TxNums) <= NumDesc - n /\ SharesIn(ch, RxNums) <= n)
  PROVE  Holds(SplitPool(ch, NumDesc - n, n), NumDesc - n, n)
<1> DEFINE new == SplitPool(ch, NumDesc - n, n)
<1>1. n \in Nat \ {0} /\ NumDesc - n \in Nat \ {0}
  BY RingNumbers
<1>2. /\ Typed(new) /\ SameButDescs(new, ch) /\ (~ Splits(ch) => new = ch)
      /\ Splits(ch) => SharesIn(new, TxNums) <= NumDesc - n
      /\ Splits(ch) => SharesIn(new, RxNums) <= n
      /\ Splits(ch) => AllOrNone(new, TxNums, NumDesc - n) /\ AllOrNone(new, RxNums, n)
  BY <1>1, PoolDivides
<1> HIDE DEF new
<1>3. Splits(new) = Splits(ch)
  <2>1. ASSUME NEW nums PROVE WeightSum(new, nums) = WeightSum(ch, nums)
    <3>1. Existing(new, nums) = Existing(ch, nums)
      BY <1>2 DEF SameButDescs, Existing
    <3>2. \A c \in Existing(new, nums) : new[c].weight = ch[c].weight
      BY <1>2 DEF SameButDescs, Existing
    <3> QED BY <3>1, <3>2, SameSums
  <2> QED BY <2>1 DEF Splits
<1> QED BY <1>2, <1>3 DEF Holds, new

\* The pool is divided when cpsw_probe has made its two channels.
LEMMA DividedInit == ASSUME Requests, Directions, Init PROVE Divided
<1> DEFINE c == MaxChannels - 1
           half == NumDesc \div 2
           one == [d \in DOMAIN <<>> \cup {c} |-> IF d = c THEN NewChannel ELSE <<>>[d]]
           created == SplitPool(one, half, num_rx)
           two == [d \in DOMAIN created \cup {MaxChannels} |->
                     IF d = MaxChannels THEN NewChannel ELSE created[d]]
<1>1. /\ num_rx = NumDesc - half /\ num_rx \in RingSizes /\ half = NumDesc - num_rx
      /\ num_rx \in Nat \ {0} /\ half \in Nat \ {0}
  <2>1. num_rx = NumDesc - half /\ num_rx \in RingSizes
    BY DEF Init, RingSizes
  <2>2. half \in Nat /\ NumDesc \in Nat
    BY PoolAssumption
  <2> QED BY <2>1, <2>2, RingNumbers
<1>2. chan = SplitPool(two, half, num_rx)
  <2>1. ChanOf(0) = c /\ rx_chan_num(0) = MaxChannels
    BY NumbersApart DEF ChanOf, rx_chan_num
  <2>2. chan = ChanCreate(ChanCreate(<<>>, ChanOf(0), half, num_rx),
                          rx_chan_num(0), half, num_rx)
    BY DEF Init
  <2> QED BY <2>1, <2>2 DEF ChanCreate
<1> HIDE DEF half
<1>3. Typed(<<>>) /\ DOMAIN <<>> = {}
  BY FS_EmptySet DEF Typed
<1>4. \A nums : WeightSum(<<>>, nums) = 0
  <2> SUFFICES ASSUME NEW nums PROVE WeightSum(<<>>, nums) = 0
    OBVIOUS
  <2>1. Existing(<<>>, nums) = {}
    BY <1>3 DEF Existing
  <2>2. WeightSum(<<>>, nums) = SumFunctionOnSet([d \in {} |-> <<>>[d].weight], {})
    BY <2>1 DEF WeightSum, SumFunction
  <2>3. IsFiniteSet({})
    BY FS_EmptySet
  <2> QED BY <2>2, <2>3, SumTakesOne
<1>5. Typed(one) /\ DOMAIN one = {c} /\ \A nums : WeightSum(one, nums) = 0
  <2>1. c \notin DOMAIN <<>>
    BY <1>3
  <2>2. DOMAIN one = {c}
    BY <1>3
  <2>3. ASSUME NEW nums PROVE Typed(one) /\ WeightSum(one, nums) = WeightSum(<<>>, nums)
    <3> DEFINE none == <<>>
               any == [d \in DOMAIN none \cup {c} |-> IF d = c THEN NewChannel ELSE none[d]]
    <3>1. Typed(none) /\ c \notin DOMAIN none
      BY <1>3, <2>1
    <3>2. one = any
      OBVIOUS
    <3> HIDE DEF none, one
    <3>3. Typed(any) /\ WeightSum(any, nums) = WeightSum(none, nums)
      BY <3>1, OneMoreChannel
    <3> HIDE DEF any
    <3>4. Typed(one) /\ WeightSum(one, nums) = WeightSum(none, nums)
      BY <3>2, <3>3
    <3> QED BY <3>4 DEF none
  <2> HIDE DEF one
  <2> QED BY <1>4, <2>2, <2>3
<1> HIDE DEF one
<1>6. Typed(created) /\ SameButDescs(created, one)
  BY <1>1, <1>5, PoolDivides
<1>7. \A nums : WeightSum(created, nums) = 0
  <2> SUFFICES ASSUME NEW nums PROVE WeightSum(created, nums) = 0
    OBVIOUS
  <2>1. Existing(created, nums) = Existing(one, nums)
    BY <1>6 DEF SameButDescs, Existing
  <2>2. \A d \in Existing(created, nums) : created[d].weight = one[d].weight
    BY <1>6 DEF SameButDescs, Existing
  <2> QED BY <1>5, <2>1, <2>2, SameSums
<1>8. MaxChannels \notin DOMAIN created /\ DOMAIN created = {c}
  BY <1>5, <1>6, NumbersApart DEF SameButDescs
<1> HIDE DEF created
<1>9. Typed(two) /\ DOMAIN two = {c, MaxChannels} /\ \A nums : WeightSum(two, nums) = 0
  BY <1>6, <1>7, <1>8, OneMoreChannel
<1> HIDE DEF two
<1>10. Splits(two)
  BY <1>9 DEF Splits
<1>11. Holds(SplitPool(two, NumDesc - num_rx, num_rx), NumDesc - num_rx, num_rx)
  BY <1>1, <1>9, <1>10, DividedAgain
<1> QED BY <1>1, <1>2, <1>11 DEF Divided, num_tx

\* A step that leaves the channels' weights and descriptors alone.
LEMMA DividedKept ==
  ASSUME Divided, num_rx' = num_rx, DOMAIN chan' = DOMAIN chan,
         \A d \in DOMAIN chan : chan'[d].weight = chan[d].weight /\ chan'[d].desc_num = chan[d].desc_num
  PROVE  Divided'
<1>1. ASSUME NEW nums
      PROVE WeightSum(chan', nums) = WeightSum(chan, nums) /\ SharesIn(chan', nums) = SharesIn(chan, nums)
  <2>1. Existing(chan', nums) = Existing(chan, nums)
    BY DEF Existing
  <2> QED BY <2>1, SameSums DEF Existing
<1>2. Splits(chan') = Splits(chan)
  BY <1>1 DEF Splits
<1>3. ASSUME NEW nums, NEW num PROVE AllOrNone(chan', nums, num) = AllOrNone(chan, nums, num)
  <2>1. Existing(chan', nums) = Existing(chan, nums)
    BY DEF Existing
  <2>2. AnyShare(chan', nums, num) = AnyShare(chan, nums, num)
    BY <2>1, SameParts DEF Existing
  <2> QED BY <1>1, <2>2 DEF AllOrNone
<1> QED BY <1>1, <1>2, <1>3 DEF Divided, Holds, num_tx

\* Every step keeps the pool divided.
LEMMA DividedStep ==
  ASSUME Requests, Directions, RateInv, RateInv', RatesTyped, Divided, [Next]_vars PROVE Divided'
<1>0. Typed(chan) /\ num_rx \in RingSizes /\ num_tx = NumDesc - num_rx
  BY DEF RatesTyped, Divided, num_tx
<1>1. CASE UNCHANGED <<chan, num_rx>>
  BY <1>1, DividedKept
<1>2. ASSUME NEW q \in Queues, NEW r \in Rates, SetTxMaxrate(q, r) PROVE Divided'
  <2> DEFINE c == ChanOf(q)
             x == SetFactors(r * 1000)
  <2>1. chan' = [chan EXCEPT ![c].rate = x] /\ num_rx' = num_rx
    BY <1>2 DEF SetTxMaxrate, ChanSetRate
  <2> HIDE DEF c, x
  <2>2. /\ DOMAIN chan' = DOMAIN chan
        /\ \A d \in DOMAIN chan : chan'[d].weight = chan[d].weight /\ chan'[d].desc_num = chan[d].desc_num
    <3>1. \A d \in DOMAIN chan : chan[d] \in ChannelType
      BY <1>0 DEF Typed
    <3> QED BY <2>1, <3>1 DEF ChannelType
  <2> QED BY <2>1, <2>2, DividedKept
<1>3. ASSUME NEW n \in 1 .. MaxQueues, SetChannels(n) PROVE Divided'
  <2> DEFINE low == MaxChannels - tx_ch_num
             more == [d \in DOMAIN chan \cup {low - 1} |-> IF d = low - 1 THEN NewChannel ELSE chan[d]]
             less == [d \in DOMAIN chan \ {low} |-> chan[d]]
  <2>1. /\ MaxChannels \in Nat /\ tx_ch_num \in 1 .. MaxQueues /\ MaxQueues <= MaxChannels
        /\ MaxQueues \in Nat
        /\ DOMAIN chan = (low .. MaxChannels - 1) \cup {MaxChannels}
    BY ResourceAssumption, QueueAssumption DEF RateInv, ChannelsUp
  <2>2. low - 1 \notin DOMAIN chan /\ low \in DOMAIN chan
    BY <2>1
  <2>3. /\ num_rx' = num_rx /\ tx_ch_num' = n
        /\ \/ n = tx_ch_num + 1 /\ chan' = SplitPool(more, num_tx, num_rx)
           \/ n = tx_ch_num - 1 /\ chan' = SplitPool(less, num_tx, num_rx)
    <3>1. ChanOf(tx_ch_num) = low - 1
      BY <2>1 DEF ChanOf
    <3>2. n = tx_ch_num - 1 => ChanOf(n) = low
      BY <2>1 DEF ChanOf
    <3> QED BY <1>3, <3>1, <3>2 DEF SetChannels, ChanCreate, ChanDestroy
  <2>4. CASE n = tx_ch_num + 1 /\ chan' = SplitPool(more, num_tx, num_rx)
    <3>1. /\ Typed(more) /\ SharesIn(more, TxNums) = SharesIn(chan, TxNums)
          /\ SharesIn(more, RxNums) = SharesIn(chan, RxNums)
      BY <1>0, <2>2, OneMoreChannel
    <3> HIDE DEF more
    <3>2. SharesIn(more, TxNums) <= NumDesc - num_rx /\ SharesIn(more, RxNums) <= num_rx
      BY <1>0, <3>1 DEF Divided, Holds
    <3>3. Holds(SplitPool(more, NumDesc - num_rx, num_rx), NumDesc - num_rx, num_rx)
      BY <1>0, <3>1, <3>2, DividedAgain
    <3> QED BY <1>0, <2>3, <2>4, <3>3 DEF Divided, num_tx
  <2>5. CASE n = tx_ch_num - 1 /\ chan' = SplitPool(less, num_tx, num_rx)
    <3>1. Typed(less)
      BY <1>0, <2>2, OneLessChannel
    <3>2. /\ SharesIn(less, TxNums) <= SharesIn(chan, TxNums) /\ SharesIn(less, TxNums) \in Nat
          /\ SharesIn(less, RxNums) <= SharesIn(chan, RxNums) /\ SharesIn(less, RxNums) \in Nat
      BY <1>0, <2>2, OneLessChannel
    <3> HIDE DEF less
    <3>3. SharesIn(chan, TxNums) \in Int /\ SharesIn(chan, RxNums) \in Int
      BY <1>0, SharesAreNat
    <3>4. SharesIn(less, TxNums) <= NumDesc - num_rx /\ SharesIn(less, RxNums) <= num_rx
      <4>1. num_rx \in Nat /\ NumDesc \in Nat
        BY <1>0, RingNumbers
      <4> QED BY <1>0, <3>2, <3>3, <4>1 DEF Divided, Holds
    <3>5. Holds(SplitPool(less, NumDesc - num_rx, num_rx), NumDesc - num_rx, num_rx)
      BY <1>0, <3>1, <3>4, DividedAgain
    <3> QED BY <1>0, <2>3, <2>5, <3>5 DEF Divided, num_tx
  <2> QED BY <2>3, <2>4, <2>5
<1>4. ASSUME NEW n \in RxDescChoices, SetNumRxDescs(n) PROVE Divided'
  <2>1. CASE Splits(chan)
    <3>1. num_rx' = n /\ chan' = SplitPool(chan, NumDesc - n, n)
      BY <1>4, <2>1 DEF SetNumRxDescs
    <3>2. n \in RingSizes
      BY DEF RingSizes
    <3>3. Holds(SplitPool(chan, NumDesc - n, n), NumDesc - n, n)
      BY <1>0, <2>1, <3>2, DividedAgain
    <3> QED BY <3>1, <3>2, <3>3 DEF Divided, num_tx
  <2>2. CASE ~ Splits(chan)
    BY <1>1, <1>4, <2>2 DEF SetNumRxDescs
  <2> QED BY <2>1, <2>2
<1>5. ASSUME NEW t \in Threads, SplitQueue(t) PROVE Divided'
  <2> DEFINE c == ChanOf(thread[t].i)
             w == WeightOf(thread[t].i, thread[t].max)
             weighted == [chan EXCEPT ![c].weight = w]
  <2>1. /\ chan' = IF chan[c].weight = w THEN chan ELSE SplitPool(weighted, num_tx, num_rx)
        /\ num_rx' = num_rx
    BY <1>5 DEF SplitQueue, ChanSetWeight
  <2>2. w \in Nat
    BY <1>5, SplitQueueChan
  <2> HIDE DEF c, w
  <2>3. /\ Typed(weighted) /\ DOMAIN weighted = DOMAIN chan
        /\ \A d \in DOMAIN chan : weighted[d].desc_num = chan[d].desc_num
    BY <1>0, <2>2, WeightIsStored
  <2> HIDE DEF weighted
  <2>4. \A nums : SharesIn(weighted, nums) = SharesIn(chan, nums)
    <3> SUFFICES ASSUME NEW nums PROVE SharesIn(weighted, nums) = SharesIn(chan, nums)
      OBVIOUS
    <3>1. Existing(weighted, nums) = Existing(chan, nums)
      BY <2>3 DEF Existing
    <3>2. \A d \in Existing(weighted, nums) : weighted[d].desc_num = chan[d].desc_num
      BY <2>3, <3>1 DEF Existing
    <3> QED BY <3>1, <3>2, SameSums
  <2>5. SharesIn(weighted, TxNums) <= NumDesc - num_rx /\ SharesIn(weighted, RxNums) <= num_rx
    BY <1>0, <2>4 DEF Divided, Holds
  <2>6. Holds(SplitPool(weighted, NumDesc - num_rx, num_rx), NumDesc - num_rx, num_rx)
    BY <1>0, <2>3, <2>5, DividedAgain
  <2>7. CASE chan[c].weight = w
    BY <1>1, <2>1, <2>7
  <2>8. CASE chan[c].weight # w
    BY <1>0, <2>1, <2>6, <2>8 DEF Divided, num_tx
  <2> QED BY <2>7, <2>8
<1>6. CASE CtlrStart \/ CtlrStop \/ (\E s \in Speeds : AdjustLink(s))
             \/ (\E t \in Threads : SplitRead(t) \/ SplitEnd(t)) \/ UNCHANGED vars
  BY <1>1, <1>6 DEF CtlrStart, CtlrStop, AdjustLink, SplitRead, SplitEnd, vars
<1> QED BY <1>2, <1>3, <1>4, <1>5, <1>6 DEF Next

-----------------------------------------------------------------------------
(* CpswRates: the progress of cpsw_split_res on one thread at a time.      *)

\* The first n queues have the weights and the budgets of the rates and the speed.
Weighed(n) == \A q \in 0 .. n - 1 : chan[ChanOf(q)].weight = WeightOf(q, MaxRate)
Budgeted(n) == \A q \in 0 .. n - 1 : budget[q] = BudgetOf(q, MaxRate, ChBudget)

\* What a thread in the second loop has found and done so far.
Writing(th) ==
  /\ th.max = MaxRate /\ th.ch_budget = ChBudget
  /\ th.i <= tx_ch_num /\ th.bigest_ch \in Queues
  /\ th.left = PollWeight - SumFunctionOnSet(budget, 0 .. th.i - 1)
  /\ Weighed(th.i) /\ Budgeted(th.i)

\* One thread at a time runs cpsw_split_res.
Alone == \A t, u \in Threads : thread[t].pc # "idle" /\ thread[u].pc # "idle" => t = u

\* What it leaves: one queue has taken what remained of the budget.
Settled ==
  /\ Weighed(tx_ch_num)
  /\ SumFunctionOnSet(budget, Queues) = PollWeight
  /\ \E b \in Queues : \A q \in Queues \ {b} : budget[q] = BudgetOf(q, MaxRate, ChBudget)

Progress ==
  /\ chan[MaxChannels].weight = 0
  /\ ~ racing => /\ Alone
                 /\ \A t \in Threads : thread[t].pc = "write" => Writing(thread[t])
                 /\ Quiet => Settled

\* Rates and budgets are read alike while rates, queues and speed stay, and the
\* speed matters only if some of the queues are limited, but not all.
LEMMA SameReads ==
  ASSUME RateInv, RatesTyped, SameRates(chan', chan), tx_ch_num' = tx_ch_num,
         speed' = speed \/ RatedQueues = {} \/ RatedQueues = Queues
  PROVE  /\ Queues' = Queues /\ MaxRate' = MaxRate /\ ChBudget' = ChBudget
         /\ \A q \in Queues : /\ RateOf(q)' = RateOf(q)
                              /\ WeightOf(q, MaxRate)' = WeightOf(q, MaxRate)
                              /\ BudgetOf(q, MaxRate, ChBudget)' = BudgetOf(q, MaxRate, ChBudget)
<1>1. Queues' = Queues
  BY DEF Queues
<1>2. \A q \in Queues : RateOf(q)' = RateOf(q)
  BY QueueChannels DEF SameRates, RateOf
<1>3. RatedQueues' = RatedQueues
  BY <1>1, <1>2 DEF RatedQueues
<1>4. Consumed' = Consumed
  <2>1. [q \in RatedQueues |-> RateOf(q)]' = [q \in RatedQueues |-> RateOf(q)]
    BY <1>2, <1>3 DEF RatedQueues
  <2> QED BY <2>1 DEF Consumed
<1>5. MaxRate' = MaxRate
  BY <1>1, <1>3, <1>4 DEF MaxRate
<1>6. ChBudget' = ChBudget
  BY <1>3, <1>4, <1>5 DEF ChBudget
<1>7. \A q \in Queues : /\ WeightOf(q, MaxRate)' = WeightOf(q, MaxRate)
                        /\ BudgetOf(q, MaxRate, ChBudget)' = BudgetOf(q, MaxRate, ChBudget)
  BY <1>2, <1>5, <1>6 DEF WeightOf, BudgetOf
<1> QED BY <1>1, <1>2, <1>5, <1>6, <1>7

\* A step after which these are read alike, and that sets no weight and no budget.
LEMMA SettledKept ==
  ASSUME RateInv, RatesTyped, SameRates(chan', chan), tx_ch_num' = tx_ch_num, budget' = budget,
         speed' = speed \/ RatedQueues = {} \/ RatedQueues = Queues,
         \A d \in DOMAIN chan : chan'[d].weight = chan[d].weight
  PROVE  /\ Settled => Settled'
         /\ \A th \in ThreadType : Writing(th) => Writing(th)'
<1>1. /\ Queues' = Queues /\ MaxRate' = MaxRate /\ ChBudget' = ChBudget
      /\ \A q \in Queues : /\ WeightOf(q, MaxRate)' = WeightOf(q, MaxRate)
                           /\ BudgetOf(q, MaxRate, ChBudget)' = BudgetOf(q, MaxRate, ChBudget)
  BY SameReads
<1>2. \A q \in Queues : chan'[ChanOf(q)].weight = chan[ChanOf(q)].weight
  BY QueueChannels
<1>3. tx_ch_num \in Nat
  BY QueueChannels
<1>4. ASSUME NEW n \in Nat, n <= tx_ch_num
      PROVE (Weighed(n) => Weighed(n)') /\ (Budgeted(n) => Budgeted(n)')
  <2>1. 0 .. n - 1 \subseteq Queues
    BY <1>3, <1>4 DEF Queues
  <2>2. Weighed(n) => Weighed(n)'
    BY <1>1, <1>2, <2>1 DEF Weighed
  <2>3. Budgeted(n) => Budgeted(n)'
    BY <1>1, <2>1 DEF Budgeted
  <2> QED BY <2>2, <2>3
<1>5. Settled => Settled'
  <2>1. SUFFICES ASSUME Settled PROVE Settled'
    OBVIOUS
  <2>2. Weighed(tx_ch_num)'
    <3>1. (Weighed(tx_ch_num))' = \A q \in 0 .. tx_ch_num' - 1 : chan'[ChanOf(q)].weight = WeightOf(q, MaxRate)'
      BY DEF Weighed
    <3>2. \A q \in Queues : chan[ChanOf(q)].weight = WeightOf(q, MaxRate)
      BY <2>1 DEF Settled, Weighed, Queues
    <3> QED BY <1>1, <1>2, <3>1, <3>2 DEF Queues
  <2>3. SumFunctionOnSet(budget', Queues') = PollWeight
    BY <1>1, <2>1 DEF Settled
  <2>4. \E b \in Queues' : \A q \in Queues' \ {b} : budget'[q] = BudgetOf(q, MaxRate, ChBudget)'
    BY <1>1, <2>1 DEF Settled
  <2> QED BY <2>2, <2>3, <2>4 DEF Settled, PollWeight
<1>6. ASSUME NEW th \in ThreadType, Writing(th) PROVE Writing(th)'
  <2>1. th.i \in Nat
    BY DEF ThreadType
  <2> QED BY <1>1, <1>4, <1>6, <2>1 DEF Writing, PollWeight
<1> QED BY <1>5, <1>6

\* cpsw_probe gives the one queue the whole budget, and no weight.
LEMMA ProgressInit == ASSUME Requests, Init PROVE Progress
<1>1. RateInv /\ RatesTyped /\ Limited(chan) = {} /\ \A d \in DOMAIN chan : chan[d].weight = 0
  BY RatesInit, TypedInit
<1>2. \A t \in Threads : thread[t].pc = "idle"
  BY TypedInit DEF Idle
<1>3. Queues = {0} /\ tx_ch_num = 1 /\ budget[0] = 64 /\ budget[0] \in Int
  <2>1. 0 \in 0 .. MaxQueues - 1
    BY QueueAssumption
  <2> QED BY <2>1 DEF Init, Queues, PollWeight
<1>4. RateOf(0) = 0
  BY <1>1, <1>3, QueueChannels
<1>5. chan[MaxChannels].weight = 0
  BY <1>1 DEF RateInv, ChannelsUp
<1>6. Weighed(tx_ch_num)
  <2>1. chan[ChanOf(0)].weight = 0
    BY <1>1, <1>3, QueueChannels
  <2>2. WeightOf(0, MaxRate) = 0
    BY <1>4 DEF WeightOf
  <2> QED BY <1>3, <2>1, <2>2 DEF Weighed
<1>7. SumFunctionOnSet(budget, Queues) = PollWeight
  <2>1. IsFiniteSet({0}) /\ {0} \ {0} = {} /\ IsFiniteSet({})
    BY FS_Singleton, FS_EmptySet
  <2>2. SumFunctionOnSet(budget, {0}) = budget[0] + SumFunctionOnSet(budget, {0} \ {0})
    BY <1>3, <2>1, SumTakesOne
  <2>3. SumFunctionOnSet(budget, {}) = 0
    BY <2>1, SumTakesOne
  <2> QED BY <1>3, <2>1, <2>2, <2>3 DEF PollWeight
<1>8. \E b \in Queues : \A q \in Queues \ {b} : budget[q] = BudgetOf(q, MaxRate, ChBudget)
  BY <1>3
<1> QED BY <1>2, <1>5, <1>6, <1>7, <1>8 DEF Progress, Alone, Settled

\* Steps that leave the threads alone ...
LEMMA ProgressKept ==
  ASSUME RateInv, RatesTyped, Progress, SameRates(chan', chan), tx_ch_num' = tx_ch_num, budget' = budget,
         speed' = speed \/ RatedQueues = {} \/ RatedQueues = Queues, racing' = racing,
         thread' = thread,
         \A d \in DOMAIN chan : chan'[d].weight = chan[d].weight
  PROVE  Progress'
<1>1. Settled => Settled'
  BY SettledKept
<1>2. \A t \in Threads : Writing(thread[t]) => Writing(thread[t])'
  <2> SUFFICES ASSUME NEW t \in Threads, Writing(thread[t]) PROVE Writing(thread[t])'
    OBVIOUS
  <2>1. thread[t] \in ThreadType
    BY DEF RatesTyped
  <2>2. ASSUME NEW th \in ThreadType, th = thread[t] PROVE Writing(thread[t])'
    <3>1. Writing(th)
      BY <2>2
    <3>2. Writing(th)'
      BY <3>1, SettledKept
    <3> QED BY <2>2, <3>2 DEF Writing
  <2> QED BY <2>1, <2>2
<1>3. chan'[MaxChannels].weight = 0
  BY DEF Progress, RateInv, ChannelsUp
<1> QED BY <1>1, <1>2, <1>3 DEF Progress, Alone, Quiet

\* ... those that start one while no other runs ...
LEMMA ProgressBegun ==
  ASSUME RatesTyped, NEW t \in Threads, MayBegin(t), Begin(t), racing' = racing,
         chan'[MaxChannels].weight = 0
  PROVE  Progress'
<1>1. thread'[t].pc = "read" /\ \A u \in Threads \ {t} : thread'[u] = thread[u]
  BY DEF Begin, RatesTyped, ThreadType
<1>2. ~ racing => \A u \in Threads \ {t} : thread'[u].pc = "idle"
  BY <1>1 DEF MayBegin
<1> QED BY <1>1, <1>2 DEF Progress, Alone, Quiet

\* ... and those of cpsw_split_res: the first loop, ...
LEMMA ProgressRead ==
  ASSUME Requests, RateInv, RatesTyped, Progress, NEW t \in Threads, SplitRead(t)
  PROVE  Progress'
<1> DEFINE th == [pc |-> "write", max |-> MaxRate, ch_budget |-> ChBudget,
                  bigest |-> BiggestRate, bigest_ch |-> 0, i |-> 0, left |-> PollWeight]
<1>1. /\ thread[t].pc = "read" /\ thread' = [thread EXCEPT ![t] = th]
      /\ UNCHANGED <<racing, active, chan, num_rx, rlim, tx_ch_num, maxrate, speed, budget>>
  BY DEF SplitRead
<1>2. thread'[t] = th /\ \A u \in Threads \ {t} : thread'[u] = thread[u]
  BY <1>1 DEF RatesTyped
<1>3. SameRates(chan', chan) /\ \A d \in DOMAIN chan : chan'[d].weight = chan[d].weight
  BY <1>1 DEF RateInv, ChannelsUp, SameRates
<1>4. Queues' = Queues /\ MaxRate' = MaxRate /\ ChBudget' = ChBudget
  BY <1>1, <1>3, SameReads
<1>5. (Writing(thread[t]))'
  <2>1. 0 \in Queues /\ 0 <= tx_ch_num
    BY QueueChannels DEF Queues
  <2>2. SumFunctionOnSet(budget, 0 .. 0 - 1) = 0
    <3>1. 0 .. 0 - 1 = {} /\ IsFiniteSet({})
      BY FS_EmptySet
    <3> QED BY <3>1, SumTakesOne
  <2>3. PollWeight = PollWeight - SumFunctionOnSet(budget, 0 .. 0 - 1)
    BY <2>2 DEF PollWeight
  <2>4. Weighed(0)' /\ Budgeted(0)'
    BY DEF Weighed, Budgeted
  <2>5. /\ thread'[t].max = MaxRate /\ thread'[t].ch_budget = ChBudget
        /\ thread'[t].i = 0 /\ thread'[t].bigest_ch = 0 /\ thread'[t].left = PollWeight
    BY <1>2
  <2> QED BY <1>1, <1>4, <2>1, <2>3, <2>4, <2>5 DEF Writing, PollWeight
<1>6. ~ racing => \A u \in Threads \ {t} : thread'[u].pc = "idle"
  BY <1>1, <1>2 DEF Progress, Alone
<1>7. thread'[t].pc = "write"
  BY <1>2
<1> QED BY <1>1, <1>5, <1>6, <1>7 DEF Progress, Alone, Quiet

\* ... a pass of the second loop over a queue, ...
LEMMA ProgressQueue ==
  ASSUME Requests, RateInv, RatesTyped, Progress, NEW t \in Threads, SplitQueue(t)
  PROVE  Progress'
<1> SUFFICES ASSUME NEW j, j = thread[t].i PROVE Progress'
  OBVIOUS
<1> DEFINE th == thread[t]
           b == BudgetOf(th.i, th.max, th.ch_budget)
           w == WeightOf(th.i, th.max)
<1>1. /\ th.pc = "write" /\ budget' = [budget EXCEPT ![j] = b]
      /\ UNCHANGED <<racing, active, num_rx, rlim, tx_ch_num, maxrate, speed>>
  BY DEF SplitQueue
<1>2. /\ j \in Queues /\ b \in Int /\ SameRates(chan', chan)
      /\ \A d \in DOMAIN chan : chan'[d].weight = IF d = ChanOf(j) THEN w ELSE chan[d].weight
  BY SplitQueueChan
<1>3. /\ thread'[t].pc = "write" /\ thread'[t].max = th.max
      /\ thread'[t].ch_budget = th.ch_budget /\ thread'[t].i = j + 1
      /\ thread'[t].left = th.left - b
      /\ thread'[t].bigest_ch \in {j, th.bigest_ch}
      /\ \A u \in Threads \ {t} : thread'[u] = thread[u]
  BY SplitQueueThread
<1>4. /\ Queues' = Queues /\ MaxRate' = MaxRate /\ ChBudget' = ChBudget
      /\ \A q \in Queues : /\ WeightOf(q, MaxRate)' = WeightOf(q, MaxRate)
                           /\ BudgetOf(q, MaxRate, ChBudget)' = BudgetOf(q, MaxRate, ChBudget)
  BY <1>1, <1>2, SameReads
<1>5. chan'[MaxChannels].weight = 0
  <2>1. MaxChannels \in DOMAIN chan /\ ChanOf(j) # MaxChannels
    BY <1>2, QueueChannels, NumbersApart DEF RateInv, ChannelsUp
  <2> QED BY <1>2, <2>1 DEF Progress
<1>6. /\ j \in Nat /\ tx_ch_num \in Nat /\ j < tx_ch_num /\ tx_ch_num <= MaxQueues /\ MaxQueues \in Nat
      /\ \A q \in 0 .. j - 1 : q \in Queues /\ q # j
      /\ j \in 0 .. MaxQueues - 1 /\ 0 .. j \subseteq 0 .. MaxQueues - 1
  <2>1. tx_ch_num \in 1 .. MaxQueues /\ MaxQueues \in Nat
    BY QueueChannels
  <2> QED BY <1>2, <2>1 DEF Queues
<1>7. ASSUME ~ racing PROVE (Writing(thread[t]))'
  <2>1. Writing(th)
    BY <1>1, <1>7 DEF Progress
  <2>2. th.max = MaxRate /\ th.ch_budget = ChBudget /\ th.bigest_ch \in Queues
    BY <2>1 DEF Writing
  <2>3. b = BudgetOf(j, MaxRate, ChBudget) /\ w = WeightOf(j, MaxRate)
    BY <2>2
  <2>4. \A q \in 0 .. j - 1 : /\ chan[ChanOf(q)].weight = WeightOf(q, MaxRate)
                              /\ budget[q] = BudgetOf(q, MaxRate, ChBudget)
    BY <2>1 DEF Writing, Weighed, Budgeted
  <2> HIDE DEF b, w
  <2>5. /\ budget'[j] = b /\ \A q \in 0 .. j - 1 : budget'[q] = budget[q]
        /\ \A q \in 0 .. j : budget'[q] \in Int
        /\ \A q \in 0 .. j - 1 : budget[q] \in Int
    <3>1. budget \in [0 .. MaxQueues - 1 -> Int] /\ 0 .. j \subseteq 0 .. MaxQueues - 1 /\ j \in 0 .. j
      BY <1>6 DEF RatesTyped
    <3> QED BY <1>1, <1>2, <1>6, <3>1
  <2>6. \A q \in 0 .. j : q = j \/ q \in 0 .. j - 1
    BY <1>6
  <2>7. \A q \in 0 .. j : budget'[q] = BudgetOf(q, MaxRate, ChBudget)'
    BY <1>4, <1>6, <1>2, <2>3, <2>4, <2>5, <2>6
  <2>8. \A q \in 0 .. j : chan'[ChanOf(q)].weight = WeightOf(q, MaxRate)'
    <3>1. ASSUME NEW q \in 0 .. j - 1 PROVE chan'[ChanOf(q)].weight = WeightOf(q, MaxRate)'
      <4>1. q \in Queues /\ q # j
        BY <1>6
      <4>2. ChanOf(q) \in DOMAIN chan /\ ChanOf(q) # ChanOf(j)
        BY <1>2, <4>1, QueueChannels
      <4> QED BY <1>2, <1>4, <2>4, <4>1, <4>2
    <3>2. chan'[ChanOf(j)].weight = WeightOf(j, MaxRate)'
      BY <1>2, <1>4, <2>3, QueueChannels
    <3> QED BY <2>6, <3>1, <3>2
  <2>9. SumFunctionOnSet(budget', 0 .. j) = b + SumFunctionOnSet(budget, 0 .. j - 1)
    <3>1. IsFiniteSet(0 .. j) /\ IsFiniteSet(0 .. j - 1) /\ j \in 0 .. j /\ 0 .. j - 1 = (0 .. j) \ {j}
      <4>1. IsFiniteSet(0 .. j) /\ IsFiniteSet(0 .. j - 1)
        <5>1. 0 \in Int /\ j \in Int /\ j - 1 \in Int
          BY <1>6
        <5> QED BY <5>1, FS_Interval
      <4>2. j \in 0 .. j /\ 0 .. j - 1 = (0 .. j) \ {j}
        BY <1>6
      <4> QED BY <4>1, <4>2
    <3>2. SumFunctionOnSet(budget', 0 .. j) = budget'[j] + SumFunctionOnSet(budget', (0 .. j) \ {j})
      <4>1. \A q \in 0 .. j : budget'[q] \in Int
        BY <2>5
      <4> DEFINE S == 0 .. j
      <4>2. IsFiniteSet(S) /\ j \in S /\ \A q \in S : budget'[q] \in Int
        BY <3>1, <4>1
      <4> HIDE DEF S
      <4>3. SumFunctionOnSet(budget', S) = budget'[j] + SumFunctionOnSet(budget', S \ {j})
        BY <4>2, SumTakesOne
      <4> QED BY <4>3 DEF S
    <3>3. SumFunctionOnSet(budget, 0 .. j - 1) = SumFunctionOnSet(budget', 0 .. j - 1)
      BY <2>5, <3>1, SumOfSame
    <3> QED BY <2>5, <3>1, <3>2, <3>3
  <2>10. th.left - b = PollWeight - SumFunctionOnSet(budget', 0 .. j)
    <3>1. th.left = PollWeight - SumFunctionOnSet(budget, 0 .. j - 1)
      BY <2>1 DEF Writing
    <3>2. SumFunctionOnSet(budget, 0 .. j - 1) \in Int
      <4>1. 0 \in Int /\ j - 1 \in Int
        BY <1>6
      <4>2. IsFiniteSet(0 .. j - 1)
        BY <4>1, FS_Interval
      <4> QED BY <2>5, <4>2, SumTakesOne
    <3> QED BY <1>2, <2>9, <3>1, <3>2 DEF PollWeight
  <2>11. j + 1 - 1 = j /\ j + 1 <= tx_ch_num
    BY <1>6
  <2>12. (Weighed(j + 1))' /\ (Budgeted(j + 1))'
    <3>1. 0 .. (j + 1) - 1 = 0 .. j
      BY <1>6
    <3> HIDE DEF Weighed
    <3>2. \A q \in 0 .. (j + 1) - 1 : chan'[ChanOf(q)].weight = WeightOf(q, MaxRate)'
      BY <2>8, <3>1
    <3>3. \A q \in 0 .. (j + 1) - 1 : budget'[q] = BudgetOf(q, MaxRate, ChBudget)'
      BY <2>7, <3>1
    <3> QED BY <3>2, <3>3 DEF Weighed, Budgeted
  <2>13. thread'[t].bigest_ch \in Queues
    BY <1>2, <1>3, <2>2
  <2>14. thread'[t].max = MaxRate' /\ thread'[t].ch_budget = ChBudget'
    BY <1>3, <1>4, <2>2
  <2>15. thread'[t].i <= tx_ch_num' /\ thread'[t].bigest_ch \in Queues'
    BY <1>1, <1>3, <1>4, <2>11, <2>13
  <2>16. thread'[t].left = PollWeight - SumFunctionOnSet(budget', 0 .. thread'[t].i - 1)
    <3>1. thread'[t].i - 1 = j /\ thread'[t].left = th.left - b
      BY <1>3, <1>6
    <3> QED BY <2>10, <3>1
  <2>17. Weighed(thread[t].i)' /\ Budgeted(thread[t].i)'
    BY <1>3, <2>12 DEF Weighed, Budgeted
  <2> QED BY <2>14, <2>15, <2>16, <2>17 DEF Writing, PollWeight
<1>8. ~ racing => \A u \in Threads \ {t} : thread'[u].pc = "idle"
  BY <1>1, <1>3 DEF Progress, Alone
<1> QED BY <1>1, <1>3, <1>5, <1>7, <1>8 DEF Progress, Alone, Quiet

\* ... and its end.
LEMMA ProgressEnd ==
  ASSUME Requests, RateInv, RatesTyped, Progress, NEW t \in Threads, SplitEnd(t)
  PROVE  Progress'
<1> DEFINE th == thread[t]
           most == thread[t].bigest_ch
<1>1. /\ th.pc = "write" /\ th.i >= tx_ch_num
      /\ budget' = [budget EXCEPT ![most] = budget[most] + th.left]
      /\ thread' = [thread EXCEPT ![t] = Idle]
      /\ UNCHANGED <<racing, active, chan, num_rx, rlim, tx_ch_num, maxrate, speed>>
  BY DEF SplitEnd
<1>2. thread'[t].pc = "idle" /\ \A u \in Threads \ {t} : thread'[u] = thread[u]
  BY <1>1 DEF RatesTyped, Idle
<1>3. SameRates(chan', chan)
  BY <1>1 DEF RateInv, ChannelsUp, SameRates
<1>4. /\ Queues' = Queues /\ MaxRate' = MaxRate /\ ChBudget' = ChBudget
      /\ \A q \in Queues : /\ WeightOf(q, MaxRate)' = WeightOf(q, MaxRate)
                           /\ BudgetOf(q, MaxRate, ChBudget)' = BudgetOf(q, MaxRate, ChBudget)
  BY <1>1, <1>3, SameReads
<1>5. ~ racing => \A u \in Threads \ {t} : thread'[u].pc = "idle"
  BY <1>1, <1>2 DEF Progress, Alone
<1>6. ASSUME ~ racing PROVE Settled'
  <2>1. Writing(th)
    BY <1>1, <1>6 DEF Progress
  <2>2. th.i = tx_ch_num /\ tx_ch_num \in Nat
    <3>1. th.i \in Nat /\ tx_ch_num \in Nat
      BY QueueChannels DEF RatesTyped, ThreadType
    <3> QED BY <1>1, <2>1, <3>1 DEF Writing
  <2>3. Queues = 0 .. th.i - 1
    BY <2>2 DEF Queues
  <2>4. /\ most \in Queues /\ th.left = PollWeight - SumFunctionOnSet(budget, Queues)
        /\ \A q \in Queues : /\ chan[ChanOf(q)].weight = WeightOf(q, MaxRate)
                             /\ budget[q] = BudgetOf(q, MaxRate, ChBudget)
    BY <2>1, <2>3 DEF Writing, Weighed, Budgeted
  <2> HIDE DEF most, th
  <2>5. \A q \in Queues : budget[q] \in Int
    BY QueueChannels DEF RatesTyped
  <2>6. IsFiniteSet(Queues)
    BY QueueChannels
  <2>7. SumFunctionOnSet(budget, Queues) \in Int
    BY <2>5, <2>6, SumTakesOne
  <2>8. most \in 0 .. MaxQueues - 1
    BY <2>4, QueueChannels
  <2>9. /\ budget'[most] = budget[most] + th.left
        /\ \A q \in Queues \ {most} : budget'[q] = budget[q]
    BY <1>1, <2>8 DEF RatesTyped
  <2>10. \A q \in Queues : budget[q] \in Int /\ budget'[q] \in Int
    BY <2>4, <2>5, <2>7, <2>9 DEF PollWeight
  <2>11. SumFunctionOnSet(budget', Queues) = SumFunctionOnSet(budget, Queues) + budget'[most] - budget[most]
    BY <2>4, <2>6, <2>9, <2>10, SumOfChanged
  <2>12. SumFunctionOnSet(budget', Queues') = PollWeight
    BY <1>4, <2>4, <2>7, <2>9, <2>10, <2>11 DEF PollWeight
  <2>13. \A q \in Queues \ {most} : budget'[q] = BudgetOf(q, MaxRate, ChBudget)'
    BY <1>4, <2>4, <2>9
  <2>14. Weighed(tx_ch_num)'
    <3>1. \A q \in 0 .. tx_ch_num' - 1 : chan'[ChanOf(q)].weight = WeightOf(q, MaxRate)'
      BY <1>1, <1>4, <2>4 DEF Queues
    <3> QED BY <3>1 DEF Weighed
  <2> QED BY <1>4, <2>4, <2>12, <2>13, <2>14 DEF Settled, PollWeight
<1>7. chan'[MaxChannels].weight = 0
  BY <1>1 DEF Progress
<1> QED BY <1>1, <1>2, <1>5, <1>6, <1>7 DEF Progress, Alone

\* The RX channel has no weight, whatever the channels become.
LEMMA NoRxWeight ==
  ASSUME RateInv, RatesTyped, Progress, NEW n \in 1 .. MaxQueues, SetChannels(n)
  PROVE  chan'[MaxChannels].weight = 0
<1> DEFINE low == MaxChannels - tx_ch_num
           more == [d \in DOMAIN chan \cup {low - 1} |-> IF d = low - 1 THEN NewChannel ELSE chan[d]]
           less == [d \in DOMAIN chan \ {low} |-> chan[d]]
<1>1. /\ num_tx \in Nat /\ num_rx \in Nat /\ Typed(chan)
      /\ low - 1 \notin DOMAIN chan /\ low \in DOMAIN chan /\ low # MaxChannels
      /\ low - 1 # MaxChannels /\ MaxChannels \in DOMAIN chan
  <2>1. /\ MaxChannels \in Nat /\ tx_ch_num \in 1 .. MaxChannels
        /\ DOMAIN chan = (low .. MaxChannels - 1) \cup {MaxChannels}
    BY ResourceAssumption, QueueAssumption DEF RateInv, ChannelsUp
  <2>2. num_tx \in Nat /\ num_rx \in Nat /\ Typed(chan)
    BY PoolAssumption DEF num_tx, RatesTyped
  <2> QED BY <2>1, <2>2
<1>2. chan' = SplitPool(more, num_tx, num_rx) \/ chan' = SplitPool(less, num_tx, num_rx)
  <2>1. MaxChannels \in Nat /\ tx_ch_num \in Nat
    BY ResourceAssumption, QueueAssumption DEF RateInv, ChannelsUp
  <2>2. ChanOf(tx_ch_num) = low - 1
    BY <2>1 DEF ChanOf
  <2>3. n = tx_ch_num - 1 => ChanOf(n) = low
    BY <2>1 DEF ChanOf
  <2> QED BY <2>2, <2>3 DEF SetChannels, ChanCreate, ChanDestroy
<1>3. Typed(more) /\ MaxChannels \in DOMAIN more /\ more[MaxChannels].weight = 0
  <2>1. Typed(more)
    BY <1>1, OneMoreChannel
  <2> QED BY <1>1, <2>1 DEF Progress
<1>4. Typed(less) /\ MaxChannels \in DOMAIN less /\ less[MaxChannels].weight = 0
  <2>1. Typed(less)
    BY <1>1, OneLessChannel
  <2> QED BY <1>1, <2>1 DEF Progress
<1> HIDE DEF more, less
<1>5. CASE chan' = SplitPool(more, num_tx, num_rx)
  <2>1. SameButDescs(chan', more)
    BY <1>1, <1>3, <1>5, PoolDivides
  <2> QED BY <1>3, <2>1 DEF SameButDescs
<1>6. CASE chan' = SplitPool(less, num_tx, num_rx)
  <2>1. SameButDescs(chan', less)
    BY <1>1, <1>4, <1>6, PoolDivides
  <2> QED BY <1>4, <2>1 DEF SameButDescs
<1> QED BY <1>2, <1>5, <1>6

\* Every step keeps to it.
LEMMA ProgressStep ==
  ASSUME Requests, RateInv, RatesTyped, Progress, [Next]_vars PROVE Progress'
<1>1. SameRates(chan, chan)
  BY DEF RateInv, ChannelsUp, SameRates
<1>2. CASE UNCHANGED vars
  BY <1>1, <1>2, ProgressKept DEF vars
<1>3. CASE CtlrStart
  BY <1>1, <1>3, ProgressKept DEF CtlrStart
<1>4. CASE CtlrStop
  BY <1>1, <1>4, ProgressKept DEF CtlrStop
<1>5. ASSUME NEW q \in Queues, NEW r \in Rates, SetTxMaxrate(q, r) PROVE Progress'
  <2> DEFINE c == ChanOf(q)
             x == SetFactors(r * 1000)
  <2>1. /\ chan' = [chan EXCEPT ![c].rate = x] /\ MayBegin("rtnl") /\ Begin("rtnl")
        /\ racing' = racing
    BY <1>5 DEF SetTxMaxrate, ChanSetRate
  <2>2. MaxChannels \in DOMAIN chan /\ c # MaxChannels
    BY QueueChannels, NumbersApart DEF RateInv, ChannelsUp
  <2> HIDE DEF c, x
  <2>3. chan'[MaxChannels] = chan[MaxChannels]
    BY <2>1, <2>2
  <2>4. chan'[MaxChannels].weight = 0
    BY <2>3 DEF Progress
  <2> QED BY <2>1, <2>4, ProgressBegun DEF Threads
<1>6. ASSUME NEW n \in 1 .. MaxQueues, SetChannels(n) PROVE Progress'
  <2>1. MayBegin("rtnl") /\ Begin("rtnl") /\ racing' = racing
    BY <1>6 DEF SetChannels
  <2>2. chan'[MaxChannels].weight = 0
    BY <1>6, NoRxWeight
  <2> QED BY <2>1, <2>2, ProgressBegun DEF Threads
<1>7. ASSUME NEW n \in RxDescChoices, SetNumRxDescs(n) PROVE Progress'
  <2>1. n \in Nat /\ NumDesc - n \in Nat /\ Typed(chan)
    BY PoolAssumption DEF RatesTyped
  <2>2. /\ SameRates(SplitPool(chan, NumDesc - n, n), chan)
        /\ SameButDescs(SplitPool(chan, NumDesc - n, n), chan)
    BY <2>1, SplitPoolKeepsRates, PoolDivides DEF RateInv, ChannelsUp
  <2>3. SameRates(chan', chan) /\ \A d \in DOMAIN chan : chan'[d].weight = chan[d].weight
    BY <1>1, <1>7, <2>2 DEF SetNumRxDescs, SameButDescs
  <2>4. UNCHANGED <<racing, tx_ch_num, speed, budget, thread>>
    BY <1>7 DEF SetNumRxDescs
  <2> QED BY <2>3, <2>4, ProgressKept
<1>8. ASSUME NEW s \in Speeds, AdjustLink(s) PROVE Progress'
  <2>1. /\ UNCHANGED <<racing, chan, tx_ch_num, budget>> /\ MayBegin("phy")
        /\ \/ Begin("phy")
           \/ thread' = thread /\ (speed' = speed \/ RatedQueues = {} \/ RatedQueues = Queues)
    BY <1>8 DEF AdjustLink
  <2>2. chan'[MaxChannels].weight = 0
    BY <2>1 DEF Progress
  <2>3. CASE Begin("phy")
    BY <2>1, <2>2, <2>3, ProgressBegun DEF Threads
  <2>4. CASE thread' = thread /\ (speed' = speed \/ RatedQueues = {} \/ RatedQueues = Queues)
    BY <1>1, <2>1, <2>4, ProgressKept
  <2> QED BY <2>1, <2>3, <2>4
<1> QED BY <1>2, <1>3, <1>4, <1>5, <1>6, <1>7, <1>8, ProgressRead, ProgressQueue, ProgressEnd DEF Next

-----------------------------------------------------------------------------
(* CpswRates: weights that do not exceed 100 percent.                      *)

\* The rates that channels can be limited to.
Limits == {SetFactors(r * 1000) : r \in {x \in Rates : x > 0 /\ x * 1000 >= MinRate}}

\* Whatever the ring's size, each direction has a hundred descriptors, and no fewer
\* than it has channels.
Ample ==
  \A n \in RingSizes : n >= 100 /\ NumDesc - n >= 100 /\ NumDesc - n >= MaxQueues

\* On every link they are of one order of magnitude.
Moderate ==
  \A low, high \in Limits, s \in Speeds \ {0} :
    \E k \in {1000, 10000, 100000} : MaxQueues * high <= k * s /\ k * s <= 100 * low

\* Channels are limited to these.
RatesGiven == \A d \in DOMAIN chan : chan[d].rate \in Limits \cup {0}

\* Limited channels take some of the rate.
LEMMA LimitsConsume ==
  ASSUME Requests, RateInv, RatesTyped, RatedQueues # {} PROVE Consumed \in Nat \ {0}
<1> DEFINE f == [q \in RatedQueues |-> RateOf(q)]
<1>1. PICK q : q \in RatedQueues
  OBVIOUS
<1>2. IsFiniteSet(RatedQueues) /\ \A r \in RatedQueues : RateOf(r) \in Nat /\ RateOf(r) > 0
  BY ReadTypes, QueueChannels DEF RatedQueues
<1>3. Consumed = SumFunctionOnSet(f, RatedQueues)
  BY DEF Consumed, SumFunction
<1>4. \A r \in RatedQueues : f[r] \in Nat /\ f[r] > 0
  BY <1>2
<1> HIDE DEF f
<1>5. SumFunctionOnSet(f, RatedQueues) = f[q] + SumFunctionOnSet(f, RatedQueues \ {q})
  BY <1>1, <1>2, <1>4, SumTakesOne
<1>6. SumFunctionOnSet(f, RatedQueues \ {q}) \in Nat
  BY <1>2, <1>4, FS_Subset, SumIsNat
<1> QED BY <1>1, <1>3, <1>4, <1>5, <1>6

\* Of channels some of which are limited, every one has a percent of the rate or
\* more, and all together no more than it.
LEMMA RateSuffices ==
  ASSUME Requests, Moderate, RateInv, RatesTyped, RatesGiven, RatedQueues # {}
  PROVE  Proportional
<1> DEFINE f == [q \in RatedQueues |-> RateOf(q)]
<1>1. RatedQueues \subseteq Queues /\ IsFiniteSet(RatedQueues) /\ Consumed \in Nat /\ MaxRate \in Nat
  BY ReadTypes
<1>2. \A q \in RatedQueues : f[q] \in Nat /\ f[q] = RateOf(q) /\ RateOf(q) \in Limits /\ RateOf(q) > 0
  <2> SUFFICES ASSUME NEW q \in RatedQueues PROVE RateOf(q) \in Nat /\ RateOf(q) \in Limits /\ RateOf(q) > 0
    OBVIOUS
  <2>1. RateOf(q) \in Nat /\ RateOf(q) > 0 /\ ChanOf(q) \in DOMAIN chan
    BY <1>1, QueueChannels DEF RatedQueues
  <2> QED BY <2>1 DEF RatesGiven, RateOf
<1>3. Consumed = SumFunctionOnSet(f, RatedQueues)
  BY DEF Consumed, SumFunction
<1> HIDE DEF f
<1>4. RatedQueues \in SUBSET Int
  BY <1>1, QueueChannels
<1>5. PICK h \in RatedQueues : \A d \in RatedQueues : f[d] < f[h] \/ (d >= h /\ f[d] = f[h])
  <2>1. \A q \in RatedQueues : f[q] \in Int
    BY <1>2
  <2> QED BY <1>1, <1>4, <2>1, FirstLargest
<1>6. Consumed <= MaxQueues * f[h]
  <2> DEFINE top == f[h]
             e == [q \in RatedQueues |-> top]
             card == Cardinality(RatedQueues)
  <2>1. SumFunctionOnSet(e, RatedQueues) = top * card
    <3>1. \A q \in RatedQueues : e[q] = top
      OBVIOUS
    <3>2. top \in Int
      BY <1>2
    <3> HIDE DEF e, top
    <3> QED BY <1>1, <3>1, <3>2, SumOfEqual
  <2>2. SumFunctionOnSet(f, RatedQueues) <= SumFunctionOnSet(e, RatedQueues)
    <3>1. \A q \in RatedQueues : f[q] \in Int /\ e[q] \in Int /\ f[q] <= e[q]
      BY <1>2, <1>5
    <3> HIDE DEF e
    <3> QED BY <1>1, <3>1, SumMonotone
  <2>3. card \in Nat /\ card <= MaxQueues /\ MaxQueues \in Nat /\ top \in Nat
    BY <1>2, ReadTypes, QueueChannels
  <2> HIDE DEF top, card
  <2>4. top * card <= MaxQueues * top
    BY <2>3
  <2>5. SumFunctionOnSet(e, RatedQueues) <= MaxQueues * top
    BY <2>1, <2>4
  <2>6. top * card \in Int /\ MaxQueues * top \in Int
    BY <2>3
  <2> HIDE DEF e
  <2> QED BY <1>1, <1>3, <2>1, <2>2, <2>4, <2>6 DEF top
<1>7. ASSUME NEW q \in RatedQueues PROVE Consumed <= MaxRate /\ MaxRate <= 100 * RateOf(q)
  <2>1. speed \in Nat /\ speed \in Speeds \ {0}
    BY ReadTypes DEF RatesTyped
  <2>2. PICK k \in {1000, 10000, 100000} : MaxQueues * f[h] <= k * speed /\ k * speed <= 100 * RateOf(q)
    BY <1>2, <1>7, <2>1 DEF Moderate
  <2>3. MaxQueues * f[h] \in Int /\ RateOf(q) \in Nat
    BY <1>2, QueueChannels
  <2>4. Consumed <= k * speed /\ k * speed \in Int
    BY <1>1, <1>6, <2>1, <2>2, <2>3
  <2>5. CASE RatedQueues = Queues
    <3>1. MaxRate = Consumed
      BY <2>5 DEF MaxRate
    <3> QED BY <1>1, <2>2, <2>3, <2>4, <3>1
  <2>6. CASE RatedQueues # Queues
    <3> DEFINE s0 == speed * 1000
               s1 == IF s0 < Consumed THEN s0 * 10 ELSE s0
               s2 == IF s1 < Consumed THEN s1 * 10 ELSE s1
    <3>1. MaxRate = s2
      BY <2>6 DEF MaxRate
    <3>2. Consumed <= s2 /\ s2 <= k * speed
      BY <1>1, <2>1, <2>2, <2>4
    <3> HIDE DEF s2
    <3> QED BY <1>1, <2>2, <2>3, <2>4, <3>1, <3>2
  <2> QED BY <2>5, <2>6
<1> QED BY <1>7 DEF Proportional

\* Weights of such rates do not exceed 100 percent: the split is not refused.
LEMMA WeightsSplit ==
  ASSUME Requests, RateInv, RatesTyped, Proportional, Weighed(tx_ch_num),
         chan[MaxChannels].weight = 0
  PROVE  Splits(chan)
<1> DEFINE num == [q \in Queues |-> ChanOf(q)]
           w == [q \in Queues |-> chan[ChanOf(q)].weight]
           wc == [c \in Existing(chan, TxNums) |-> chan[c].weight]
           f == [q \in RatedQueues |-> RateOf(q)]
<1>1. /\ IsFiniteSet(Queues) /\ \A q \in Queues : /\ ChanOf(q) \in DOMAIN chan
                                                  /\ ChanOf(q) \in Existing(chan, TxNums)
      /\ \A q, r \in Queues : ChanOf(q) = ChanOf(r) => q = r
      /\ Existing(chan, TxNums) = {ChanOf(q) : q \in Queues}
      /\ Existing(chan, RxNums) = {MaxChannels}
  BY QueueChannels
<1>2. \A q \in Queues : w[q] \in Nat /\ w[q] = WeightOf(q, MaxRate)
  <2>1. \A q \in Queues : chan[ChanOf(q)].weight \in Nat
    BY <1>1 DEF RatesTyped, Typed, ChannelType
  <2> QED BY <2>1 DEF Weighed, Queues
<1>3. WeightSum(chan, TxNums) = SumFunctionOnSet(w, Queues)
  <2>1. WeightSum(chan, TxNums) = SumFunctionOnSet(wc, {num[q] : q \in Queues})
    <3>1. Existing(chan, TxNums) = {num[q] : q \in Queues}
      BY <1>1
    <3>2. WeightSum(chan, TxNums) = SumFunctionOnSet(wc, Existing(chan, TxNums))
      BY DEF WeightSum, SumFunction
    <3> QED BY <3>1, <3>2
  <2>2. \A q, r \in Queues : num[q] = num[r] => q = r
    BY <1>1
  <2>3. \A q \in Queues : w[q] \in Int /\ wc[num[q]] = w[q]
    BY <1>1, <1>2
  <2> HIDE DEF num, w, wc
  <2> QED BY <1>1, <2>1, <2>2, <2>3, SumOfRenamed
<1> HIDE DEF w
<1>4. RatedQueues \subseteq Queues /\ IsFiniteSet(RatedQueues) /\ IsFiniteSet(Queues \ RatedQueues)
  BY <1>1, ReadTypes, FS_Subset
<1>5. SumFunctionOnSet(w, Queues) = SumFunctionOnSet(w, RatedQueues) + SumFunctionOnSet(w, Queues \ RatedQueues)
  <2> DEFINE A == RatedQueues
             B == Queues \ RatedQueues
  <2>1. A \cup B = Queues /\ A \cap B = {} /\ IsFiniteSet(A) /\ IsFiniteSet(B)
    BY <1>4
  <2>2. \A q \in A \cup B : w[q] \in Int
    BY <1>2, <2>1
  <2> HIDE DEF A, B
  <2>3. SumFunctionOnSet(w, A \cup B) = SumFunctionOnSet(w, A) + SumFunctionOnSet(w, B)
    BY <2>1, <2>2, SumOfTwoParts
  <2> QED BY <2>1, <2>3 DEF A, B
<1>6. SumFunctionOnSet(w, Queues \ RatedQueues) = 0
  <2>1. \A q \in Queues \ RatedQueues : w[q] = 0
    BY <1>2 DEF RatedQueues, WeightOf
  <2>2. SumFunctionOnSet(w, Queues \ RatedQueues) = 0 * Cardinality(Queues \ RatedQueues)
    BY <1>4, <2>1, SumOfEqual
  <2>3. Cardinality(Queues \ RatedQueues) \in Nat
    BY <1>4, FS_CardinalityType
  <2> QED BY <2>2, <2>3
<1>7. SumFunctionOnSet(w, RatedQueues) \in Nat
  BY <1>2, <1>4, SumIsNat
<1>8. SumFunctionOnSet(w, RatedQueues) <= 100
  <2>1. CASE RatedQueues = {}
    BY <1>4, <1>2, <2>1, SumTakesOne
  <2>2. CASE RatedQueues # {}
    <3> DEFINE M == MaxRate
               mw == [q \in RatedQueues |-> M * w[q]]
               hf == [q \in RatedQueues |-> 100 * f[q]]
               W == SumFunctionOnSet(w, RatedQueues)
    <3>1. /\ M \in Nat \ {0} /\ Consumed <= M /\ Consumed \in Nat
          /\ \A q \in RatedQueues : M <= 100 * RateOf(q)
      BY <2>2, LimitsConsume, ReadTypes DEF Proportional
    <3>2. \A q \in RatedQueues : f[q] \in Nat /\ f[q] = RateOf(q) /\ RateOf(q) > 0
      BY <1>4, QueueChannels DEF RatedQueues
    <3>3. Consumed = SumFunctionOnSet(f, RatedQueues)
      BY DEF Consumed, SumFunction
    <3> HIDE DEF f, M
    <3>4. ASSUME NEW q \in RatedQueues PROVE M * w[q] <= 100 * f[q] /\ M * w[q] \in Int
      <4> DEFINE r == f[q]
      <4>1. w[q] = AtLeastOne((r * 100) \div M) /\ w[q] \in Nat
        BY <1>2, <1>4, <3>2 DEF WeightOf, M
      <4>2. r \in Nat /\ r > 0 /\ M <= 100 * r /\ M \in Nat \ {0}
        BY <3>1, <3>2
      <4> HIDE DEF r
      <4>3. r * 100 \in Nat /\ M * 1 <= r * 100
        BY <4>2
      <4>4. (r * 100) \div M \in Nat /\ 1 <= (r * 100) \div M /\ M * ((r * 100) \div M) <= r * 100
        BY <4>2, <4>3, RoundsDown, RoundsDownMost
      <4>5. w[q] = (r * 100) \div M
        BY <4>1, <4>4 DEF AtLeastOne
      <4>6. M * w[q] \in Int
        BY <4>1, <4>2
      <4> QED BY <4>2, <4>4, <4>5, <4>6 DEF r
    <3>5. SumFunctionOnSet(mw, RatedQueues) = M * W
      <4>1. \A q \in RatedQueues : w[q] \in Int /\ mw[q] = M * w[q]
        BY <1>2, <1>4
      <4> HIDE DEF mw
      <4> QED BY <1>4, <3>1, <4>1, SumTimes
    <3>6. SumFunctionOnSet(hf, RatedQueues) = 100 * Consumed
      <4>1. \A q \in RatedQueues : f[q] \in Int /\ hf[q] = 100 * f[q]
        BY <3>2
      <4> HIDE DEF hf
      <4> QED BY <1>4, <3>3, <4>1, SumTimes
    <3>7. SumFunctionOnSet(mw, RatedQueues) <= SumFunctionOnSet(hf, RatedQueues)
      <4>1. \A q \in RatedQueues : mw[q] \in Int /\ hf[q] \in Int /\ mw[q] <= hf[q]
        BY <3>2, <3>4
      <4> HIDE DEF mw, hf
      <4> QED BY <1>4, <4>1, SumMonotone
    <3>8. M * W <= 100 * Consumed
      BY <3>5, <3>6, <3>7
    <3>9. W \in Nat
      BY <1>7
    <3> HIDE DEF W
    <3>10. M * W <= 100 * M
      BY <3>1, <3>8, <3>9
    <3>11. \A a \in Nat \ {0}, b \in Nat : a * b <= 100 * a => b <= 100
      OBVIOUS
    <3>12. W <= 100
      BY <3>1, <3>9, <3>10, <3>11
    <3> QED BY <3>12 DEF W
  <2> QED BY <2>1, <2>2
<1>9. WeightSum(chan, TxNums) <= 100
  BY <1>3, <1>5, <1>6, <1>7, <1>8
<1>10. WeightSum(chan, RxNums) = 0
  <2> DEFINE wr == [c \in {MaxChannels} |-> chan[c].weight]
  <2>1. WeightSum(chan, RxNums) = SumFunctionOnSet(wr, {MaxChannels})
    BY <1>1 DEF WeightSum, SumFunction
  <2>2. IsFiniteSet({MaxChannels}) /\ Cardinality({MaxChannels}) = 1 /\ \A c \in {MaxChannels} : wr[c] = 0
    BY FS_Singleton
  <2> HIDE DEF wr
  <2> QED BY <2>1, <2>2, SumOfEqual
<1> QED BY <1>9, <1>10 DEF Splits

\* Every rate that is set is one that the hardware can limit to.
LEMMA GivenInit == ASSUME Requests, Init PROVE RatesGiven
<1>1. \A d \in DOMAIN chan : chan[d].rate = 0
  BY RatesInit
<1> QED BY <1>1 DEF RatesGiven

\* cpsw_ndo_set_tx_maxrate sets one that cpdma_chan_set_factors has found.
LEMMA GivenStep ==
  ASSUME Requests, RateInv, RatesTyped, RatesGiven, [Next]_vars PROVE RatesGiven'
<1>1. \A new : SameRates(new, chan) => \A d \in DOMAIN new : new[d].rate \in Limits \cup {0}
  BY DEF RatesGiven, SameRates
<1>2. SameRates(chan, chan)
  BY DEF RateInv, ChannelsUp, SameRates
<1>3. ASSUME NEW q \in Queues, NEW r \in Rates, SetTxMaxrate(q, r) PROVE RatesGiven'
  <2> DEFINE c == ChanOf(q)
             x == SetFactors(r * 1000)
  <2>1. /\ chan' = [chan EXCEPT ![c].rate = x] /\ (r = 0 \/ r * 1000 >= MinRate) /\ r \in Nat
    BY <1>3 DEF SetTxMaxrate, ChanSetRate, Requests
  <2>2. x \in Limits \cup {0}
    <3>1. CASE r = 0
      <4>1. r * 1000 = 0
        BY <3>1
      <4>2. SetFactors(0) = 0
        BY DEF SetFactors
      <4> QED BY <4>1, <4>2
    <3>2. CASE r > 0
      BY <2>1, <3>2 DEF Limits
    <3> QED BY <2>1, <3>1, <3>2
  <2> HIDE DEF c, x
  <2>3. DOMAIN chan' = DOMAIN chan
    BY <2>1
  <2>4. \A d \in DOMAIN chan : chan[d] \in ChannelType
    BY DEF RatesTyped, Typed
  <2>5. \A d \in DOMAIN chan : chan'[d].rate = chan[d].rate \/ chan'[d].rate = x
    BY <2>1, <2>4 DEF ChannelType
  <2> QED BY <2>2, <2>3, <2>5 DEF RatesGiven
<1>4. ASSUME NEW n \in 1 .. MaxQueues, SetChannels(n) PROVE RatesGiven'
  <2> DEFINE more(c) == [d \in DOMAIN chan \cup {c} |-> IF d = c THEN NewChannel ELSE chan[d]]
             less(c) == [d \in DOMAIN chan \ {c} |-> chan[d]]
  <2>1. PICK c, new : /\ new = more(c) \/ new = less(c)
                      /\ chan' = SplitPool(new, num_tx, num_rx)
    BY <1>4 DEF SetChannels, ChanCreate, ChanDestroy
  <2>2. \A d \in DOMAIN chan : Channel(chan[d]) /\ chan[d].rate \in Limits \cup {0}
    BY DEF RateInv, ChannelsUp, Channels, RatesGiven
  <2>3. \A d \in DOMAIN new : Channel(new[d]) /\ new[d].rate \in Limits \cup {0}
    <3>1. Channel(NewChannel) /\ NewChannel.rate = 0
      BY DEF Channel, NewChannel
    <3> QED BY <2>1, <2>2, <3>1
  <2>4. Channels(new)
    BY <2>3 DEF Channels
  <2>5. SameRates(chan', new)
    BY <2>1, <2>4, SplitPoolKeepsRates
  <2> QED BY <2>3, <2>5 DEF SameRates, RatesGiven
<1>5. ASSUME NEW n \in RxDescChoices, SetNumRxDescs(n) PROVE RatesGiven'
  <2>1. SameRates(SplitPool(chan, NumDesc - n, n), chan)
    BY SplitPoolKeepsRates DEF RateInv, ChannelsUp
  <2>2. SameRates(chan', chan)
    BY <1>2, <1>5, <2>1 DEF SetNumRxDescs
  <2> QED BY <1>1, <2>2 DEF RatesGiven
<1>6. ASSUME NEW t \in Threads, SplitQueue(t) PROVE RatesGiven'
  <2>1. SameRates(chan', chan)
    BY <1>6, SplitQueueChan
  <2> QED BY <1>1, <2>1 DEF RatesGiven
<1>7. CASE UNCHANGED chan
  BY <1>7 DEF RatesGiven
<1>8. CASE CtlrStart \/ CtlrStop \/ (\E s \in Speeds : AdjustLink(s))
             \/ (\E t \in Threads : SplitRead(t) \/ SplitEnd(t)) \/ UNCHANGED vars
  BY <1>7, <1>8 DEF CtlrStart, CtlrStop, AdjustLink, SplitRead, SplitEnd, vars
<1> QED BY <1>3, <1>4, <1>5, <1>6, <1>8 DEF Next

-----------------------------------------------------------------------------
(* CpswRates: the theorems.                                                *)

\* On whichever threads the calls come, they keep to all of this.
THEOREM ResourcesInvariance ==
  ASSUME Requests PROVE Spec => [](RateInv /\ RatesTyped /\ Progress /\ RatesGiven)
<1> DEFINE Inv == RateInv /\ RatesTyped /\ Progress /\ RatesGiven
<1>1. Init => Inv
  BY RatesInit, TypedInit, ProgressInit, GivenInit
<1>2. RateInv /\ [Next]_vars => RateInv'
  BY RatesStep DEF Requests
<1>3. Inv /\ [Next]_vars => Inv'
  <2> SUFFICES ASSUME Inv, [Next]_vars PROVE Inv'
    OBVIOUS
  <2>1. RateInv'
    BY <1>2
  <2>2. RatesTyped'
    BY TypedStep
  <2>3. Progress'
    BY ProgressStep
  <2>4. RatesGiven'
    BY GivenStep
  <2> QED BY <2>1, <2>2, <2>3, <2>4
<1> QED BY <1>1, <1>3, PTL DEF Spec

\* The descriptors of each direction stay divided.
THEOREM DividedInvariance ==
  ASSUME Requests, Directions PROVE Spec => []Divided
<1>1. Init => Divided
  BY DividedInit
<1>2. RateInv /\ RateInv' /\ RatesTyped /\ Divided /\ [Next]_vars => Divided'
  BY DividedStep
<1>3. Spec => [](RateInv /\ RatesTyped /\ Progress /\ RatesGiven)
  BY ResourcesInvariance
<1> QED BY <1>1, <1>2, <1>3, PTL DEF Spec

\* Shares are what this module calls so.
LEMMA SharesOf == ASSUME NEW nums PROVE Shares(nums) = SharesIn(chan, nums)
  BY DEF Shares, SharesIn

\* Divided channels hold what their direction has, or nothing, and settled weights of
\* proportional rates are divided.
LEMMA SettledShares ==
  ASSUME Requests, Directions, RateInv, RatesTyped, Progress, Divided PROVE SharesAddUp
<1>1. /\ SharesIn(chan, TxNums) <= NumDesc - num_rx /\ SharesIn(chan, RxNums) <= num_rx
      /\ num_rx \in RingSizes
  BY DEF Divided, Holds, num_tx
<1>2. num_rx \in Nat /\ NumDesc \in Nat
  BY <1>1, RingNumbers
<1>3. SharesIn(chan, TxNums) \in Nat /\ SharesIn(chan, RxNums) \in Nat
  BY SharesAreNat DEF RatesTyped
<1>4. Shares(TxNums) + Shares(RxNums) <= NumDesc
  BY <1>1, <1>2, <1>3, SharesOf
<1>5. ASSUME Splits(chan) PROVE UsedUp(TxNums, num_tx) /\ UsedUp(RxNums, num_rx)
  <2>1. AllOrNone(chan, TxNums, num_tx) /\ AllOrNone(chan, RxNums, num_rx)
    BY <1>5 DEF Divided, Holds
  <2> QED BY <2>1, SharesOf DEF AllOrNone, AnyShare, UsedUp
<1>6. ASSUME Quiet, ~ racing, Proportional PROVE Splits(chan)
  <2>1. Weighed(tx_ch_num) /\ chan[MaxChannels].weight = 0
    BY <1>6 DEF Progress, Settled
  <2> QED BY <1>6, <2>1, WeightsSplit
<1> QED BY <1>4, <1>5, <1>6 DEF SharesAddUp

\* With a hundred descriptors for each direction the larger of its parts is not nothing.
LEMMA SomeAreGiven ==
  ASSUME Directions, Ample, RateInv, RatesTyped, num_rx \in RingSizes, Splits(chan)
  PROVE  AnyShare(chan, TxNums, num_tx) /\ AnyShare(chan, RxNums, num_rx)
<1>1. /\ num_rx \in Nat /\ num_tx \in Nat
      /\ num_rx >= 100 /\ num_tx >= 100 /\ num_tx >= MaxQueues
  BY RingNumbers DEF Ample, num_tx
<1>2. /\ Typed(chan) /\ WeightSum(chan, TxNums) <= 100 /\ WeightSum(chan, RxNums) <= 100
  BY DEF RatesTyped, Splits
<1>3. /\ Existing(chan, RxNums) # {} /\ Cardinality(Existing(chan, RxNums)) <= num_rx
  <2>1. Existing(chan, RxNums) = {MaxChannels} /\ Cardinality({MaxChannels}) = 1
    BY QueueChannels, FS_Singleton
  <2> QED BY <1>1, <2>1
<1>4. /\ Existing(chan, TxNums) # {} /\ Cardinality(Existing(chan, TxNums)) <= num_tx
  <2> DEFINE low == MaxChannels - tx_ch_num
             high == MaxChannels - 1
  <2>1. /\ MaxChannels \in Nat /\ tx_ch_num \in 1 .. MaxQueues /\ MaxQueues \in Nat
        /\ MaxQueues <= MaxChannels
        /\ Existing(chan, TxNums) = {ChanOf(q) : q \in Queues}
    BY QueueChannels
  <2>2. Existing(chan, TxNums) = low .. high
    <3>1. \A q \in Queues : ChanOf(q) \in low .. high
      BY <2>1 DEF Queues, ChanOf
    <3>2. \A c \in low .. high : MaxChannels - 1 - c \in Queues /\ c = ChanOf(MaxChannels - 1 - c)
      BY <2>1 DEF Queues, ChanOf
    <3> QED BY <2>1, <3>1, <3>2
  <2>3. low \in Int /\ high \in Int /\ low <= high /\ high - low + 1 = tx_ch_num
    BY <2>1
  <2> HIDE DEF low, high
  <2>4. Cardinality(low .. high) = tx_ch_num
    BY <2>3, FS_Interval
  <2>5. low \in low .. high
    BY <2>3
  <2>6. Existing(chan, TxNums) # {}
    BY <2>2, <2>5
  <2>7. Cardinality(Existing(chan, TxNums)) = tx_ch_num
    BY <2>2, <2>4
  <2>8. tx_ch_num <= num_tx
    BY <1>1, <2>1
  <2> QED BY <2>6, <2>7, <2>8
<1> QED BY <1>1, <1>2, <1>3, <1>4, SomeShare

\* Settled budgets add up, and one queue at most has another than its own.
LEMMA SettledBudgets ==
  ASSUME RateInv, RatesTyped, Progress PROVE BudgetsCurrent
<1> SUFFICES ASSUME Quiet, ~ racing
             PROVE  /\ SumFunction([q \in Queues |-> budget[q]]) = PollWeight
                    /\ Cardinality({q \in Queues : budget[q] # BudgetOf(q, MaxRate, ChBudget)}) <= 1
  BY DEF BudgetsCurrent
<1> DEFINE f == [q \in Queues |-> budget[q]]
           Other == {q \in Queues : budget[q] # BudgetOf(q, MaxRate, ChBudget)}
<1>1. Settled /\ IsFiniteSet(Queues)
  BY QueueChannels DEF Progress
<1>2. \A q \in Queues : budget[q] \in Int
  BY QueueChannels DEF RatesTyped
<1>3. SumFunction(f) = PollWeight
  <2>1. SumFunction(f) = SumFunctionOnSet(f, Queues)
    BY DEF SumFunction
  <2>2. \A q \in Queues : budget[q] \in Int /\ f[q] = budget[q]
    BY <1>2
  <2> HIDE DEF f
  <2>3. SumFunctionOnSet(budget, Queues) = SumFunctionOnSet(f, Queues)
    BY <1>1, <2>2, SumOfSame
  <2> QED BY <1>1, <2>1, <2>3 DEF Settled
<1>4. Cardinality(Other) <= 1
  <2>1. PICK b \in Queues : \A q \in Queues \ {b} : budget[q] = BudgetOf(q, MaxRate, ChBudget)
    BY <1>1 DEF Settled
  <2>2. Other \subseteq {b}
    BY <2>1
  <2>3. IsFiniteSet({b}) /\ Cardinality({b}) = 1
    BY FS_Singleton
  <2> HIDE DEF Other
  <2> QED BY <2>2, <2>3, FS_Subset
<1> QED BY <1>3, <1>4

\* CpswRates moves in MCSpec by its own steps only.
LEMMA RatesMoves == MCSpec => Spec
<1>1. MCInit => Init
  BY DEF MCInit
<1>2. [MCNext]_MCVars => [Next]_vars
  BY DEF MCNext, MCVars, vars
<1> QED BY <1>1, <1>2, PTL DEF MCSpec, Spec

\* LimitsInOrder (cpdma_chan_fit_rate, cpdma_chan_set_rate, cpdma_ctlr_start).
THEOREM LimitsStayInOrder == ASSUME Rates \subseteq Nat PROVE MCSpec => []LimitsInOrder
<1>1. RateInv => LimitsInOrder
  BY DEF RateInv
<1> QED BY <1>1, RatesInvariance, RatesMoves, PTL

\* SharesAddUp (cpdma_chan_split_pool, cpdma_chan_set_descs): with the threads racing
\* as they may, and whatever the rates and the pool, no more descriptors are promised
\* than there are; a split that is not refused leaves none over, and one is refused
\* only where rates of another order of magnitude or two threads at a time were met.
THEOREM SharesAreDivided == ASSUME Requests, Directions PROVE MCSpec => []SharesAddUp
<1>1. RateInv /\ RatesTyped /\ Progress /\ RatesGiven /\ Divided => SharesAddUp
  BY SettledShares
<1> QED BY <1>1, ResourcesInvariance, DividedInvariance, RatesMoves, PTL

\* With rates of one order of magnitude, a pool of the usual size and one thread at a
\* time, the channels hold all that their direction has whenever cpsw_split_res is done.
THEOREM SharesAreUsedUp ==
  ASSUME Requests, Directions, Ample, Moderate
  PROVE  MCSpec => [](Quiet /\ ~ racing => Shares(TxNums) = num_tx /\ Shares(RxNums) = num_rx)
<1>1. RateInv /\ RatesTyped /\ Progress /\ RatesGiven /\ Divided
        => (Quiet /\ ~ racing => Shares(TxNums) = num_tx /\ Shares(RxNums) = num_rx)
  <2> SUFFICES ASSUME RateInv, RatesTyped, Progress, RatesGiven, Divided, Quiet, ~ racing
               PROVE  Shares(TxNums) = num_tx /\ Shares(RxNums) = num_rx
    OBVIOUS
  <2>1. Proportional
    <3>1. CASE RatedQueues = {}
      <4>1. MaxRate = Consumed /\ Consumed \in Nat
        BY <3>1, ReadTypes DEF MaxRate
      <4> QED BY <3>1, <4>1 DEF Proportional
    <3>2. CASE RatedQueues # {}
      BY <3>2, RateSuffices
    <3> QED BY <3>1, <3>2
  <2>2. Splits(chan) /\ UsedUp(TxNums, num_tx) /\ UsedUp(RxNums, num_rx)
    BY <2>1, SettledShares DEF SharesAddUp
  <2>3. AnyShare(chan, TxNums, num_tx) /\ AnyShare(chan, RxNums, num_rx)
    BY <2>2, SomeAreGiven DEF Divided
  <2> QED BY <2>2, <2>3 DEF UsedUp, AnyShare
<1> QED BY <1>1, ResourcesInvariance, DividedInvariance, RatesMoves, PTL

\* BudgetsCurrent (cpsw_split_res, cpsw_adjust_link): no change of a rate, of the
\* number of queues or of the link leaves the budgets stale.
THEOREM BudgetsStayCurrent == ASSUME Requests PROVE MCSpec => []BudgetsCurrent
<1>1. RateInv /\ RatesTyped /\ Progress /\ RatesGiven => BudgetsCurrent
  BY SettledBudgets
<1> QED BY <1>1, ResourcesInvariance, RatesMoves, PTL

-----------------------------------------------------------------------------
(* CpswShaper: sums and percentages.                                       *)

\* Slopes and link speeds are positive numbers.
Bandwidths == Slopes \subseteq Nat \ {0} /\ LinkSpeeds \subseteq Nat \ {0}

Fifos == Shaper!Fifos
Part(pct, S, f) == IF f \in S THEN pct[f] ELSE 0

\* The FIFOs that can be shaped, one by one.
LEMMA ThreeFifos == Fifos = {1, 2, 3}
  BY DEF Fifos, Shaper!Fifos, Shaper!ShapersNum

\* A sum of naturals, FIFO by FIFO.
LEMMA SumOfParts ==
  ASSUME NEW pct, NEW S
  PROVE Shaper!Sum(pct, S) = Part(pct, S, 1) + Part(pct, S, 2) + Part(pct, S, 3)
  BY DEF Shaper!Sum, Part

\* A sum depends on its own FIFOs, and grows with them.
LEMMA SumMonotonic ==
  ASSUME NEW p \in [Fifos -> Nat], NEW q \in [Fifos -> Nat], NEW S, NEW T, S \subseteq T,
         \A f \in Fifos \cap S : p[f] <= q[f]
  PROVE /\ Shaper!Sum(p, S) \in Nat /\ Shaper!Sum(q, T) \in Nat
        /\ Shaper!Sum(p, S) <= Shaper!Sum(q, T)
<1>1. ASSUME NEW f \in Fifos
      PROVE /\ Part(p, S, f) \in Nat /\ Part(q, T, f) \in Nat
            /\ Part(p, S, f) <= Part(q, T, f)
  BY <1>1 DEF Part
<1> QED BY <1>1, SumOfParts, ThreeFifos

\* One FIFO may be taken out of a sum.
LEMMA SumWithout ==
  ASSUME NEW p \in [Fifos -> Nat], NEW S, NEW f \in Fifos
  PROVE Shaper!Sum(p, S \cup {f}) = p[f] + Shaper!Sum(p, S \ {f})
<1>1. ASSUME NEW g \in Fifos
      PROVE /\ Part(p, S \cup {f}, g) \in Nat /\ Part(p, S \ {f}, g) \in Nat /\ p[g] \in Nat
            /\ Part(p, S \cup {f}, g) = IF g = f THEN p[g] ELSE Part(p, S \ {f}, g)
            /\ g = f => Part(p, S \ {f}, g) = 0
  BY <1>1 DEF Part
<1> QED BY <1>1, SumOfParts, ThreeFifos

\* The share of a speed that cpsw_set_fifo_bw reckons is a natural number.
LEMMA PercentIsNat ==
  ASSUME NEW bw \in Nat, NEW mbps \in Nat \ {0} PROVE Shaper!Percent(bw, mbps) \in Nat
<1>1. ASSUME NEW a \in Nat, NEW b \in Nat, b > 0 PROVE a \div b \in Nat
  BY <1>1
<1>2. mbps * 10 \in Nat /\ mbps * 10 > 0 /\ bw + mbps * 10 - 1 \in Nat
  OBVIOUS
<1>3. (bw + mbps * 10 - 1) \div (mbps * 10) \in Nat
  BY <1>1, <1>2
<1> QED BY <1>3 DEF Shaper!Percent

-----------------------------------------------------------------------------
(* CpswShaper: one shaper at a time.                                       *)

Asked(s) == {f \in Fifos : s.bw[f] > 0}

ShapersTyped(s) ==
  s \in [speed : Nat, bw : [Fifos -> Nat], pct : [Fifos -> Nat],
         en : SUBSET Fifos, rate : SUBSET Fifos, type : {0, 2}]

\* ShapersAgree, of a configuration.
Agree(s) ==
  /\ ShapersTyped(s)
  /\ s.en = s.rate /\ s.en \subseteq Asked(s)
  /\ s.type = 2 <=> s.en # {}
  /\ Shaper!Sum(s.pct, s.en) < 100

\* Is any shaper left on, and which FIFOs stay limited, before the new one is?
AllOff(s, f, bw) == (IF bw = 0 THEN s.en \ {f} ELSE s.en) = {}
StillLimited(s, f, bw) == IF AllOff(s, f, bw) THEN {} ELSE s.rate

\* The configuration that cpsw_set_fifo_rlimit stores, field by field.
Stored(t, s, f, bw) ==
  /\ ShapersTyped(t)
  /\ t.bw = [s.bw EXCEPT ![f] = bw]
  /\ t.pct = IF bw > 0 THEN [s.pct EXCEPT ![f] = Shaper!Percent(bw, s.speed)] ELSE s.pct
  /\ t.en = IF bw > 0 THEN s.en \cup {f} ELSE s.en \ {f}
  /\ t.rate = IF bw > 0 THEN StillLimited(s, f, bw) \cup {f}
                        ELSE StillLimited(s, f, bw) \ {f}
  /\ t.type = IF AllOff(s, f, bw) THEN (IF bw > 0 THEN 2 ELSE 0) ELSE s.type
  /\ t.speed = IF AllOff(s, f, bw) /\ bw = 0 THEN 0 ELSE s.speed

\* cpsw_set_fifo_rlimit stores a request that fits, in every register of its FIFO.
LEMMA SetFifoRlimitStores ==
  ASSUME NEW s, ShapersTyped(s), NEW f \in Fifos, NEW bw \in Nat, Shaper!FitsFifo(s, f, bw)
  PROVE Stored(Shaper!SetFifoRlimit(s, f, bw), s, f, bw)
<1> DEFINE u == Shaper!SetFifoBw(s, f, bw)
           t == Shaper!SetFifoRlimit(s, f, bw)
           pct == IF bw > 0 THEN Shaper!Percent(bw, s.speed) ELSE s.pct[f]
           off == AllOff(s, f, bw)
           kept == StillLimited(s, f, bw)
<1>1. s = [speed |-> s.speed, bw |-> s.bw, pct |-> s.pct, en |-> s.en, rate |-> s.rate,
           type |-> s.type]
  BY DEF ShapersTyped
<1>2. bw > 0 => s.speed \in Nat \ {0}
  <2>1. bw <= s.speed * 1000
    BY DEF Shaper!FitsFifo
  <2>2. s.speed \in Nat
    BY DEF ShapersTyped
  <2>3. s.speed = 0 => s.speed * 1000 = 0
    OBVIOUS
  <2> QED BY <2>1, <2>2, <2>3
<1>3. pct \in Nat
  BY <1>2, PercentIsNat DEF ShapersTyped
<1>4. u = [speed |-> s.speed, bw |-> [s.bw EXCEPT ![f] = bw],
           pct |-> [s.pct EXCEPT ![f] = pct], en |-> s.en, rate |-> s.rate, type |-> s.type]
  <2>1. u = [s EXCEPT !.bw[f] = bw, !.pct[f] = pct]
    BY DEF Shaper!SetFifoBw
  <2> HIDE DEF pct, u
  <2>2. u = [s EXCEPT !.bw = [s.bw EXCEPT ![f] = bw], !.pct = [s.pct EXCEPT ![f] = pct]]
    BY <2>1
  <2> QED BY <1>1, <2>2
<1>5. u.en = s.en /\ u.rate = s.rate /\ u.speed = s.speed /\ u.type = s.type
      /\ u.bw = [s.bw EXCEPT ![f] = bw] /\ u.pct = [s.pct EXCEPT ![f] = pct]
  BY <1>4
<1>6. t = [u EXCEPT !.en = IF bw > 0 THEN @ \cup {f} ELSE @ \ {f},
                    !.rate = IF bw > 0 THEN kept \cup {f} ELSE kept \ {f},
                    !.type = IF off THEN (IF bw > 0 THEN 2 ELSE 0) ELSE @,
                    !.speed = IF off /\ bw = 0 THEN 0 ELSE @]
  BY <1>5 DEF Shaper!SetFifoRlimit, AllOff, StillLimited
<1> HIDE DEF u, t, off, kept
<1>7. t = [speed |-> IF off /\ bw = 0 THEN 0 ELSE s.speed,
           bw |-> [s.bw EXCEPT ![f] = bw], pct |-> [s.pct EXCEPT ![f] = pct],
           en |-> IF bw > 0 THEN s.en \cup {f} ELSE s.en \ {f},
           rate |-> IF bw > 0 THEN kept \cup {f} ELSE kept \ {f},
           type |-> IF off THEN (IF bw > 0 THEN 2 ELSE 0) ELSE s.type]
  BY <1>4, <1>6
<1>8. bw = 0 => [s.pct EXCEPT ![f] = pct] = s.pct
  BY DEF ShapersTyped
<1> HIDE DEF pct
<1>9. ShapersTyped(t)
  <2>1. kept \subseteq Fifos
    BY DEF kept, StillLimited, ShapersTyped
  <2> QED BY <1>3, <1>7, <2>1 DEF ShapersTyped
<1>10. /\ t.bw = [s.bw EXCEPT ![f] = bw] /\ t.pct = [s.pct EXCEPT ![f] = pct]
       /\ t.en = IF bw > 0 THEN s.en \cup {f} ELSE s.en \ {f}
       /\ t.rate = IF bw > 0 THEN kept \cup {f} ELSE kept \ {f}
       /\ t.type = IF off THEN (IF bw > 0 THEN 2 ELSE 0) ELSE s.type
       /\ t.speed = IF off /\ bw = 0 THEN 0 ELSE s.speed
  BY <1>7
<1>11. t.pct = IF bw > 0 THEN [s.pct EXCEPT ![f] = Shaper!Percent(bw, s.speed)] ELSE s.pct
  BY <1>8, <1>10 DEF pct
<1> QED BY <1>9, <1>10, <1>11 DEF Stored, t, off, kept

\* cpsw_set_fifo_rlimit keeps the registers in agreement.
LEMMA SetFifoRlimitAgrees ==
  ASSUME NEW s, Agree(s), NEW f \in Fifos, NEW bw \in Nat
  PROVE Agree(Shaper!SetFifoRlimit(s, f, bw))
<1> DEFINE t == Shaper!SetFifoRlimit(s, f, bw)
<1>1. CASE ~Shaper!FitsFifo(s, f, bw)
  <2>1. t = s
    BY <1>1 DEF Shaper!SetFifoRlimit
  <2> QED BY <2>1
<1>2. CASE Shaper!FitsFifo(s, f, bw)
  <2>1. /\ ShapersTyped(t)
        /\ t.bw = [s.bw EXCEPT ![f] = bw]
        /\ t.pct = IF bw > 0 THEN [s.pct EXCEPT ![f] = Shaper!Percent(bw, s.speed)] ELSE s.pct
        /\ t.en = IF bw > 0 THEN s.en \cup {f} ELSE s.en \ {f}
        /\ t.rate = IF bw > 0 THEN StillLimited(s, f, bw) \cup {f}
                              ELSE StillLimited(s, f, bw) \ {f}
        /\ t.type = IF AllOff(s, f, bw) THEN (IF bw > 0 THEN 2 ELSE 0) ELSE s.type
    <3>1. ShapersTyped(s)
      BY DEF Agree
    <3>2. Stored(t, s, f, bw)
      BY <1>2, <3>1, SetFifoRlimitStores
    <3> HIDE DEF t
    <3> QED BY <3>2 DEF Stored
  <2> HIDE DEF t
  <2>2. /\ ShapersTyped(s) /\ s.en = s.rate /\ s.en \subseteq Asked(s)
        /\ s.type = 2 <=> s.en # {}
        /\ Shaper!Sum(s.pct, s.en) < 100
    BY DEF Agree
  <2>3. s.bw \in [Fifos -> Nat] /\ s.pct \in [Fifos -> Nat] /\ t.pct \in [Fifos -> Nat]
    BY <2>1, <2>2 DEF ShapersTyped
  <2>4. t.en = t.rate /\ (t.type = 2 <=> t.en # {})
    BY <2>1, <2>2 DEF StillLimited, AllOff
  <2>5. t.en \subseteq Asked(t)
    BY <2>1, <2>2, <2>3 DEF Asked
  <2>6. Shaper!Sum(t.pct, t.en) < 100
    <3>1. CASE bw > 0
      <4> DEFINE R == {g \in Shaper!Fifos \ {f} : s.bw[g] > 0}
      <4>1. Shaper!Percent(bw, s.speed) + Shaper!Sum(s.pct, R) < 100
        BY <1>2, <3>1 DEF Shaper!FitsFifo, Shaper!Total
      <4>2. t.pct[f] = Shaper!Percent(bw, s.speed)
            /\ \A g \in Fifos : g # f => t.pct[g] = s.pct[g]
        BY <2>1, <2>3, <3>1
      <4>3. Shaper!Sum(t.pct, t.en) = t.pct[f] + Shaper!Sum(t.pct, s.en \ {f})
        <5>1. t.en = s.en \cup {f}
          BY <2>1, <3>1
        <5>2. Shaper!Sum(t.pct, s.en \cup {f}) = t.pct[f] + Shaper!Sum(t.pct, s.en \ {f})
          BY <2>3, SumWithout, SMTT(30)
        <5> QED BY <5>1, <5>2
      <4>4. s.en \ {f} \subseteq R
        BY <2>2 DEF Asked, Fifos
      <4>5. \A g \in Fifos \cap (s.en \ {f}) : t.pct[g] <= s.pct[g]
        BY <2>3, <4>2
      <4> HIDE DEF R
      <4>6. /\ Shaper!Sum(t.pct, s.en \ {f}) <= Shaper!Sum(s.pct, R)
            /\ Shaper!Sum(t.pct, s.en \ {f}) \in Nat /\ Shaper!Sum(s.pct, R) \in Nat
        BY <2>3, <4>4, <4>5, SumMonotonic
      <4>7. t.pct[f] \in Nat
        BY <2>3
      <4> QED BY <4>1, <4>2, <4>3, <4>6, <4>7
    <3>2. CASE bw = 0
      <4>1. t.pct = s.pct /\ t.en \subseteq s.en
        BY <2>1, <3>2
      <4>2. \A g \in Fifos \cap t.en : t.pct[g] <= s.pct[g]
        BY <2>3, <4>1
      <4>3. /\ Shaper!Sum(t.pct, t.en) <= Shaper!Sum(s.pct, s.en)
            /\ Shaper!Sum(t.pct, t.en) \in Nat /\ Shaper!Sum(s.pct, s.en) \in Nat
        BY <2>3, <4>1, <4>2, SumMonotonic
      <4> QED BY <2>2, <4>3
    <3> QED BY <3>1, <3>2
  <2> QED BY <2>1, <2>4, <2>5, <2>6 DEF Agree, t
<1> QED BY <1>1, <1>2

-----------------------------------------------------------------------------
(* CpswShaper: cpsw_cbs_resume.                                            *)

Again(s, t, f) == IF s.bw[f] > 0 THEN Shaper!SetFifoRlimit(t, f, s.bw[f]) ELSE t

\* cpsw_cbs_resume takes the FIFOs from the highest down.
LEMMA CbsResumeByFifo ==
  ASSUME NEW s PROVE Shaper!CbsResume(s) = Again(s, Again(s, Again(s, s, 3), 2), 1)
  BY DEF Shaper!CbsResume, Again

\* It keeps the registers in agreement, whatever is refused.
LEMMA CbsResumeAgrees ==
  ASSUME NEW s, Agree(s) PROVE Agree(Shaper!CbsResume(s))
<1>1. ASSUME NEW t, Agree(t), NEW f \in Fifos PROVE Agree(Again(s, t, f))
  <2>1. s.bw[f] \in Nat
    BY DEF Agree, ShapersTyped
  <2> QED BY <1>1, <2>1, SetFifoRlimitAgrees DEF Again
<1>2. 1 \in Fifos /\ 2 \in Fifos /\ 3 \in Fifos
  BY ThreeFifos
<1>3. Agree(Again(s, s, 3))
  BY <1>1, <1>2
<1>4. Agree(Again(s, Again(s, s, 3), 2))
  BY <1>1, <1>2, <1>3
<1>5. Agree(Again(s, Again(s, Again(s, s, 3), 2), 1))
  BY <1>1, <1>2, <1>4
<1> QED BY <1>5, CbsResumeByFifo

Percents(s) == [f \in Fifos |-> Shaper!Percent(s.bw[f], s.speed)]

\* Restorable, of a configuration.
Fits(s) ==
  /\ s.speed > 0
  /\ \A f \in Asked(s) : s.bw[f] <= s.speed * 1000 /\ \A g \in Fifos : g > f => g \in Asked(s)
  /\ Shaper!Sum(Percents(s), Asked(s)) < 100

\* The FIFOs above k have got back what was asked of them in s.
Restored(t, s, k) ==
  /\ ShapersTyped(t) /\ t.bw = s.bw /\ t.speed = s.speed
  /\ t.en = {f \in Asked(s) : f > k}
  /\ \A f \in Fifos : t.pct[f] = IF f \in Asked(s) /\ f > k THEN Percents(s)[f] ELSE 0

\* One more is restored.
LEMMA OneMoreRestored ==
  ASSUME NEW s, ShapersTyped(s), Fits(s), NEW k \in Fifos, NEW t, Restored(t, s, k)
  PROVE Restored(Again(s, t, k), s, k - 1)
<1>1. /\ k \in Nat /\ \A f \in Fifos : f \in Nat /\ (f > k - 1 <=> f > k \/ f = k)
  BY ThreeFifos
<1>2. /\ s.bw \in [Fifos -> Nat] /\ s.speed \in Nat \ {0}
      /\ ShapersTyped(t) /\ t.pct \in [Fifos -> Nat] /\ t.bw = s.bw /\ t.speed = s.speed
      /\ t.en = {f \in Asked(s) : f > k}
      /\ \A f \in Fifos : t.pct[f] = IF f \in Asked(s) /\ f > k THEN Percents(s)[f] ELSE 0
  BY DEF Restored, ShapersTyped, Fits
<1>3. Percents(s) \in [Fifos -> Nat]
  BY <1>2, PercentIsNat DEF Percents
<1>4. Asked(s) \subseteq Fifos /\ (k \in Asked(s) <=> s.bw[k] > 0)
  BY DEF Asked
<1>5. CASE ~(s.bw[k] > 0)
  <2>1. Again(s, t, k) = t
    BY <1>5 DEF Again
  <2>2. \A f \in Asked(s) : f > k - 1 <=> f > k
    BY <1>1, <1>4, <1>5
  <2>3. t.en = {f \in Asked(s) : f > k - 1}
    BY <1>2, <2>2
  <2>4. \A f \in Fifos : t.pct[f] = IF f \in Asked(s) /\ f > k - 1 THEN Percents(s)[f] ELSE 0
    BY <1>2, <2>2
  <2> QED BY <1>2, <2>1, <2>3, <2>4 DEF Restored
<1>6. CASE s.bw[k] > 0
  <2> DEFINE bw == s.bw[k]
             R == {g \in Shaper!Fifos \ {k} : t.bw[g] > 0}
             u == Shaper!SetFifoRlimit(t, k, bw)
  <2>1. bw \in Nat /\ k \in Asked(s)
    BY <1>2, <1>4, <1>6
  <2>2. R = Asked(s) \ {k}
    BY <1>2 DEF Asked, Fifos
  <2>3. Percents(s)[k] = Shaper!Percent(bw, t.speed)
    BY <1>2 DEF Percents
  <2> HIDE DEF R, bw
  <2>4. Percents(s)[k] + Shaper!Sum(t.pct, R) < 100
    <3>1. Shaper!Sum(Percents(s), Asked(s)) < 100
      BY DEF Fits
    <3>2. Asked(s) \cup {k} = Asked(s)
      BY <2>1
    <3>3. Shaper!Sum(Percents(s), Asked(s) \cup {k})
            = Percents(s)[k] + Shaper!Sum(Percents(s), Asked(s) \ {k})
      BY <1>3, SumWithout, ZenonT(40)
    <3>4. \A f \in Fifos \cap R : t.pct[f] <= Percents(s)[f]
      BY <1>2, <1>3
    <3>5. /\ Shaper!Sum(t.pct, R) <= Shaper!Sum(Percents(s), Asked(s) \ {k})
          /\ Shaper!Sum(t.pct, R) \in Nat /\ Shaper!Sum(Percents(s), Asked(s) \ {k}) \in Nat
      BY <1>2, <1>3, <2>2, <3>4, SumMonotonic
    <3>6. Percents(s)[k] \in Nat
      BY <1>3
    <3> QED BY <3>1, <3>2, <3>3, <3>5, <3>6
  <2>5. Shaper!FitsFifo(t, k, bw)
    <3>1. bw <= t.speed * 1000
      BY <1>2, <2>1 DEF Fits, bw
    <3>2. \A g \in Fifos : g > k => t.bw[g] > 0
      BY <1>2, <2>1 DEF Fits, Asked
    <3>3. Shaper!Total(t, k, bw) < 100
      BY <2>3, <2>4 DEF Shaper!Total, R
    <3> QED BY <3>1, <3>2, <3>3 DEF Shaper!FitsFifo, Fifos
  <2>6. Stored(u, t, k, bw)
    BY <1>2, <2>1, <2>5, SetFifoRlimitStores
  <2>7. Again(s, t, k) = u /\ bw > 0
    BY <1>6 DEF Again, bw
  <2> HIDE DEF u
  <2>8. /\ ShapersTyped(u) /\ u.bw = [t.bw EXCEPT ![k] = bw]
        /\ u.pct = [t.pct EXCEPT ![k] = Shaper!Percent(bw, t.speed)]
        /\ u.en = t.en \cup {k} /\ u.speed = t.speed
    BY <2>1, <2>6, <2>7 DEF Stored
  <2>9. u.bw = s.bw
    BY <1>2, <2>8 DEF bw
  <2>10. u.en = {f \in Asked(s) : f > k - 1}
    BY <1>1, <1>2, <1>4, <2>1, <2>8, ZenonT(40)
  <2>11. ASSUME NEW f \in Fifos
         PROVE u.pct[f] = IF f \in Asked(s) /\ f > k - 1 THEN Percents(s)[f] ELSE 0
    <3>1. CASE f = k
      BY <1>1, <1>2, <2>1, <2>3, <2>8, <3>1
    <3>2. CASE f # k
      BY <1>1, <1>2, <2>8, <3>2
    <3> QED BY <3>1, <3>2
  <2> QED BY <1>2, <2>7, <2>8, <2>9, <2>10, <2>11 DEF Restored
<1> QED BY <1>5, <1>6

\* After a reset, it turns on every shaper that was asked for.
LEMMA CbsResumeRestores ==
  ASSUME NEW s, ShapersTyped(s), Fits(s), s.en = {}, s.pct = Shaper!Off
  PROVE Shaper!CbsResume(s).en = Asked(s)
<1>1. 1 \in Fifos /\ 2 \in Fifos /\ 3 \in Fifos /\ \A f \in Fifos : ~(f > 3) /\ f > 0
  BY ThreeFifos
<1>2. Asked(s) \subseteq Fifos
  BY DEF Asked
<1>3. \A f \in Fifos : s.pct[f] = 0
  BY DEF Shaper!Off, Fifos
<1>4. Restored(s, s, 3)
  BY <1>1, <1>2, <1>3 DEF Restored
<1>5. Restored(Again(s, s, 3), s, 2)
  <2>1. Restored(Again(s, s, 3), s, 3 - 1)
    BY <1>1, <1>4, OneMoreRestored
  <2> QED BY <2>1
<1>6. Restored(Again(s, Again(s, s, 3), 2), s, 1)
  <2>1. Restored(Again(s, Again(s, s, 3), 2), s, 2 - 1)
    BY <1>1, <1>5, OneMoreRestored
  <2> QED BY <2>1
<1>7. Restored(Again(s, Again(s, Again(s, s, 3), 2), 1), s, 0)
  <2>1. Restored(Again(s, Again(s, Again(s, s, 3), 2), 1), s, 1 - 1)
    BY <1>1, <1>6, OneMoreRestored
  <2> QED BY <2>1
<1>8. Shaper!CbsResume(s).en = {f \in Asked(s) : f > 0}
  BY <1>7, CbsResumeByFifo DEF Restored
<1> QED BY <1>1, <1>2, <1>8

-----------------------------------------------------------------------------
(* CpswShaper: the theorems.                                               *)

ShaperInv ==
  /\ Agree(Shaper!Shapers)
  /\ phy \in Nat
  /\ num_tc # 0 => mqprio_hw

\* What a handler computed is what the registers hold after it.
LEMMA StoreIsExact ==
  ASSUME NEW s, ShapersTyped(s), Shaper!Store(s) PROVE Shaper!Shapers' = s
<1>1. s = [speed |-> s.speed, bw |-> s.bw, pct |-> s.pct, en |-> s.en, rate |-> s.rate,
           type |-> s.type]
  BY DEF ShapersTyped
<1> QED BY <1>1 DEF Shaper!Store, Shaper!Shapers

\* What a reset of the switch leaves.
Reset(s) == [s EXCEPT !.pct = Shaper!Off, !.en = {}, !.rate = {}, !.type = 0]

\* With its shapers off the port agrees with itself.
LEMMA ResetAgrees ==
  ASSUME NEW s, ShapersTyped(s)
  PROVE /\ Agree(Reset(s)) /\ Reset(s).en = {} /\ Reset(s).pct = Shaper!Off
        /\ Reset(s).bw = s.bw /\ Reset(s).speed = s.speed
<1>1. Reset(s) = [speed |-> s.speed, bw |-> s.bw, pct |-> Shaper!Off, en |-> {}, rate |-> {},
                  type |-> 0]
  <2>1. s = [speed |-> s.speed, bw |-> s.bw, pct |-> s.pct, en |-> s.en, rate |-> s.rate,
             type |-> s.type]
    BY DEF ShapersTyped
  <2>2. ASSUME NEW t, t = [s EXCEPT !.pct = Shaper!Off, !.en = {}, !.rate = {}, !.type = 0]
        PROVE t = [speed |-> s.speed, bw |-> s.bw, pct |-> Shaper!Off, en |-> {}, rate |-> {},
                   type |-> 0]
    BY <2>1, <2>2
  <2> QED BY <2>2 DEF Reset
<1>2. Shaper!Off \in [Fifos -> Nat]
  BY DEF Shaper!Off, Fifos
<1>3. ShapersTyped(Reset(s))
  BY <1>1, <1>2 DEF ShapersTyped
<1>4. Shaper!Sum(Shaper!Off, {}) = 0
  BY SumOfParts DEF Part
<1> QED BY <1>1, <1>3, <1>4 DEF Agree, Asked

\* The speed is no matter of the registers.
LEMMA SpeedIsFree ==
  ASSUME NEW s, Agree(s), NEW v \in Nat
  PROVE Agree([s EXCEPT !.speed = v])
<1> DEFINE t == [s EXCEPT !.speed = v]
<1>1. t = [speed |-> v, bw |-> s.bw, pct |-> s.pct, en |-> s.en, rate |-> s.rate,
           type |-> s.type]
  BY DEF Agree, ShapersTyped
<1>2. ShapersTyped(t)
  BY <1>1 DEF Agree, ShapersTyped
<1>3. t.bw = s.bw /\ t.pct = s.pct /\ t.en = s.en /\ t.rate = s.rate /\ t.type = s.type
  BY <1>1
<1> HIDE DEF t
<1>4. Agree(t)
  BY <1>2, <1>3 DEF Agree, Asked
<1> QED BY <1>4 DEF t

\* At first no FIFO is shaped.
LEMMA ShaperInitial == Shaper!Init => ShaperInv
<1> SUFFICES ASSUME Shaper!Init PROVE ShaperInv
  OBVIOUS
<1> DEFINE s == Shaper!Shapers
<1>1. s = [speed |-> 0, bw |-> Shaper!Off, pct |-> Shaper!Off, en |-> {}, rate |-> {},
           type |-> 0]
  BY DEF Shaper!Init, Shaper!Shapers
<1>2. Shaper!Off \in [Fifos -> Nat]
  BY DEF Shaper!Off, Fifos
<1>3. Shaper!Sum(Shaper!Off, {}) = 0
  BY SumOfParts DEF Part
<1> HIDE DEF s
<1>4. ShapersTyped(s)
  BY <1>1, <1>2 DEF ShapersTyped
<1>5. Agree(s)
  BY <1>1, <1>3, <1>4 DEF Agree, Asked
<1> QED BY <1>5 DEF ShaperInv, Shaper!Init, s

\* cpsw_set_cbs: a request is refused, or shapes its FIFO.
LEMMA ShaperSetCbs ==
  ASSUME Bandwidths, ShaperInv, NEW tc \in 0 .. 3, NEW bw \in Slopes \cup {0},
         Shaper!SetCbs(tc, bw)
  PROVE ShaperInv'
<1> DEFINE fifo == Shaper!TcToFifo(tc, num_tc)
           known == IF phy > 0 THEN phy ELSE shp_cfg_speed
           prev == IF phy > 0 /\ shp_cfg_speed # phy THEN shp_cfg_speed ELSE 0
           s == [Shaper!Shapers EXCEPT !.speed = known]
           refused == [Shaper!Shapers EXCEPT !.speed = prev]
           new == IF Shaper!FitsFifo(s, fifo, bw) THEN Shaper!SetFifoRlimit(s, fifo, bw)
                  ELSE refused
<1>1. /\ fifo # 0 /\ Shaper!Store(new)
      /\ phy' = phy /\ num_tc' = num_tc /\ mqprio_hw' = mqprio_hw
  BY DEF Shaper!SetCbs, Shaper!port, Shaper!mapping
<1>2. fifo \in Fifos
  BY <1>1, ThreeFifos DEF Shaper!TcToFifo, Shaper!ShapersNum
<1>3. phy \in Nat /\ shp_cfg_speed \in Nat /\ bw \in Nat
  <2>1. Shaper!Shapers.speed = shp_cfg_speed
    BY DEF Shaper!Shapers
  <2> QED BY <2>1 DEF ShaperInv, Agree, ShapersTyped, Bandwidths
<1>4. known \in Nat /\ prev \in Nat
  BY <1>3
<1> HIDE DEF known, prev, fifo
<1>5. Agree(s) /\ Agree(refused)
  BY <1>4, SpeedIsFree DEF ShaperInv
<1> HIDE DEF s, refused
<1>6. Agree(new)
  BY <1>2, <1>3, <1>5, SetFifoRlimitAgrees
<1> HIDE DEF new
<1>7. Shaper!Shapers' = new
  BY <1>1, <1>6, StoreIsExact DEF Agree
<1>8. Agree(Shaper!Shapers')
  BY <1>6, <1>7
<1> QED BY <1>1, <1>8 DEF ShaperInv, Agree, ShapersTyped, Asked

\* Both netdevs may open first, and reset the registers of both.
LEMMA ShaperOpens ==
  ASSUME ShaperInv,
         \/ Shaper!Open
         \/ Shaper!OtherOpen
  PROVE ShaperInv'
<1> DEFINE S == Shaper!Shapers
<1>1. Agree(S) /\ Agree(Reset(S)) /\ Agree(Shaper!CbsResume(S))
      /\ Agree(Shaper!CbsResume(Reset(S)))
  BY ResetAgrees, CbsResumeAgrees DEF ShaperInv, Agree
<1>2. /\ num_tc' = num_tc /\ mqprio_hw' = mqprio_hw /\ phy' = phy
      /\ \/ Shaper!Store(Shaper!CbsResume(IF other THEN S ELSE Reset(S)))
         \/ Shaper!Store(IF up THEN S ELSE Reset(S))
  BY DEF Shaper!Open, Shaper!OtherOpen, Reset, Shaper!mapping
<1> HIDE DEF S
<1>3. Agree(Shaper!Shapers')
  <2>1. \E s : Agree(s) /\ Shaper!Store(s)
    BY <1>1, <1>2
  <2> PICK s : Agree(s) /\ Shaper!Store(s)
    BY <2>1
  <2>2. Shaper!Shapers' = s
    BY StoreIsExact DEF Agree
  <2> QED BY <2>2
<1> QED BY <1>2, <1>3 DEF ShaperInv, Agree, ShapersTyped, Asked

\* The steps that leave the shapers alone.
LEMMA ShapersUnchanged ==
  ASSUME ShaperInv, UNCHANGED Shaper!shaper, phy' \in Nat, num_tc' # 0 => mqprio_hw'
  PROVE ShaperInv'
<1>1. Shaper!Shapers' = Shaper!Shapers
  BY DEF Shaper!shaper, Shaper!Shapers
<1>2. Agree(Shaper!Shapers')
  BY <1>1 DEF ShaperInv
<1> QED BY <1>2 DEF ShaperInv, Agree, ShapersTyped, Asked

\* Every step of CpswShaper keeps the shapers in agreement.
LEMMA ShaperStep ==
  ASSUME Bandwidths, ShaperInv, [Shaper!Next]_Shaper!vars PROVE ShaperInv'
<1>0. phy \in Nat /\ (num_tc # 0 => mqprio_hw)
  BY DEF ShaperInv
<1>1. CASE UNCHANGED Shaper!vars
  BY <1>0, <1>1, ShapersUnchanged DEF Shaper!vars, Shaper!shaper
<1>2. ASSUME NEW m \in PrioMaps, Shaper!SetMqprio(m[1], m[2]) PROVE ShaperInv'
  BY <1>0, <1>2, ShapersUnchanged DEF Shaper!SetMqprio, Shaper!port
<1>3. CASE Shaper!ResetMqprio
  BY <1>0, <1>3, ShapersUnchanged DEF Shaper!ResetMqprio, Shaper!port
<1>4. CASE Shaper!Stop
  BY <1>0, <1>4, ShapersUnchanged DEF Shaper!Stop, Shaper!mapping
<1>5. CASE Shaper!OtherStop
  BY <1>0, <1>5, ShapersUnchanged DEF Shaper!OtherStop, Shaper!mapping
<1>6. ASSUME NEW s \in LinkSpeeds \cup {0}, Shaper!AdjustLink(s) PROVE ShaperInv'
  <2>1. s \in Nat
    BY DEF Bandwidths
  <2> QED BY <1>0, <1>6, <2>1, ShapersUnchanged DEF Shaper!AdjustLink, Shaper!mapping
<1> QED BY <1>1, <1>2, <1>3, <1>4, <1>5, <1>6, ShaperSetCbs, ShaperOpens DEF Shaper!Next

\* However shares are set, refused, dropped, reset and restored, the registers of
\* the shapers agree with each other and with the requests.
THEOREM ShaperInvariance == ASSUME Bandwidths PROVE Shaper!Spec => []ShaperInv
<1>1. Shaper!Init => ShaperInv
  BY ShaperInitial
<1>2. ShaperInv /\ [Shaper!Next]_Shaper!vars => ShaperInv'
  BY ShaperStep
<1> QED BY <1>1, <1>2, PTL DEF Shaper!Spec

\* CpswShaper moves in MCSpec by its own steps only.
LEMMA ShaperMoves == MCSpec => Shaper!Spec
<1>1. MCInit => Shaper!Init
  BY DEF MCInit
<1>2. [MCNext]_MCVars => [Shaper!Next]_Shaper!vars
  BY DEF MCNext, MCVars, shaping, Shaper!vars
<1> QED BY <1>1, <1>2, PTL DEF MCSpec, Shaper!Spec

\* ShapersAgree (cpsw_set_fifo_rlimit, cpsw_cbs_resume): the hardware shapes nothing
\* that nobody asked for, and never the whole bandwidth.
THEOREM ShapersStayInAgreement == ASSUME Bandwidths PROVE MCSpec => []ShapersAgree
<1>1. ShaperInv => ShapersAgree
  <2> SUFFICES ASSUME ShaperInv PROVE Shaper!ShapersAgree
    BY DEF ShapersAgree
  <2>1. /\ Shaper!Shapers.en = shape_en /\ Shaper!Shapers.rate = rate_en
        /\ Shaper!Shapers.type = queue_type /\ Shaper!Shapers.pct = send_pct
        /\ Shaper!Shapers.bw = fifo_bw
    BY DEF Shaper!Shapers
  <2>2. Asked(Shaper!Shapers) = Shaper!Shaped
    BY <2>1 DEF Asked, Fifos, Shaper!Shaped
  <2>3. /\ shape_en = rate_en /\ shape_en \subseteq Shaper!Shaped
        /\ queue_type = 2 <=> shape_en # {}
        /\ Shaper!Sum(send_pct, shape_en) < 100
    BY <2>1, <2>2 DEF ShaperInv, Agree
  <2> QED BY <2>3 DEF Shaper!ShapersAgree
<1> QED BY <1>1, ShaperInvariance, ShaperMoves, PTL

\* RestoredOnOpen (cpsw_restore): an open that resets the switch turns every shaper
\* on again that fits the speed, and the map of the priorities comes back.
THEOREM OpenRestores == ASSUME Bandwidths PROVE MCSpec => RestoredOnOpen
<1> DEFINE S == Shaper!Shapers
           Map == [p \in DOMAIN prio_tc |-> Shaper!TcToFifo(prio_tc[p], num_tc)]
           Back == /\ ~other /\ Shaper!Restorable => shape_en' = Shaper!Shaped
                   /\ num_tc = Shaper!ShapersNum + 1 => tx_pri_map' = Map
<1>1. ASSUME ShaperInv, [Shaper!Next]_Shaper!vars, ~up, up' PROVE Back
  <2>1. Shaper!Open
    BY <1>1 DEF Shaper!Next, Shaper!vars, Shaper!SetCbs, Shaper!SetMqprio, Shaper!ResetMqprio,
                Shaper!Stop, Shaper!OtherOpen, Shaper!OtherStop, Shaper!AdjustLink, Shaper!port
  <2>2. ASSUME ~other, Shaper!Restorable PROVE shape_en' = Shaper!Shaped
    <3>1. Shaper!Store(Shaper!CbsResume(Reset(S)))
      BY <2>1, <2>2 DEF Shaper!Open, Reset
    <3>2. /\ Agree(Reset(S)) /\ Reset(S).en = {} /\ Reset(S).pct = Shaper!Off
          /\ Reset(S).bw = S.bw /\ Reset(S).speed = S.speed
      BY <1>1, ResetAgrees DEF ShaperInv, Agree
    <3>3. S.bw = fifo_bw /\ S.speed = shp_cfg_speed
      BY DEF Shaper!Shapers
    <3> HIDE DEF S
    <3>4. Asked(Reset(S)) = Shaper!Shaped
      BY <3>2, <3>3 DEF Asked, Fifos, Shaper!Shaped
    <3>5. Fits(Reset(S))
      <4>1. Percents(Reset(S))
              = [f \in Fifos |-> Shaper!Percent(fifo_bw[f], shp_cfg_speed)]
        BY <3>2, <3>3 DEF Percents
      <4>2. ASSUME NEW f \in Shaper!Shaped, NEW g \in Fifos, g > f PROVE g \in Shaper!Shaped
        <5>1. f \in 1 .. 3 /\ g \in 1 .. 3
          BY ThreeFifos DEF Shaper!Shaped, Fifos
        <5>2. f .. 3 \subseteq Shaper!Shaped
          BY <2>2 DEF Shaper!Restorable, Shaper!ShapersNum
        <5> QED BY <4>2, <5>1, <5>2
      <4>3. \A f \in Shaper!Shaped : fifo_bw[f] <= shp_cfg_speed * 1000
        BY <2>2 DEF Shaper!Restorable
      <4>4. /\ shp_cfg_speed > 0
            /\ Shaper!Sum([f \in Fifos |-> Shaper!Percent(fifo_bw[f], shp_cfg_speed)],
                          Shaper!Shaped) < 100
        BY <2>2 DEF Shaper!Restorable, Fifos
      <4> QED BY <3>2, <3>3, <3>4, <4>1, <4>2, <4>3, <4>4 DEF Fits
    <3>6. Shaper!CbsResume(Reset(S)).en = Shaper!Shaped
      BY <3>2, <3>4, <3>5, CbsResumeRestores DEF Agree
    <3> QED BY <3>1, <3>6 DEF Shaper!Store
  <2>3. ASSUME num_tc = Shaper!ShapersNum + 1 PROVE tx_pri_map' = Map
    <3>1. num_tc = 4
      BY <2>3 DEF Shaper!ShapersNum
    <3>2. mqprio_hw
      BY <1>1, <3>1 DEF ShaperInv
    <3>3. tx_pri_map' = [p \in DOMAIN prio_tc |-> 3 - prio_tc[p]]
      BY <2>1, <3>2 DEF Shaper!Open, Shaper!MqprioResume, Shaper!ShapersNum
    <3>4. ASSUME NEW tc PROVE Shaper!TcToFifo(tc, 4) = 3 - tc
      BY DEF Shaper!TcToFifo, Shaper!ShapersNum
    <3> QED BY <3>1, <3>3, <3>4
  <2> QED BY <2>2, <2>3
<1>2. ShaperInv /\ [Shaper!Next]_Shaper!vars => [~up /\ up' => Back]_Shaper!vars
  BY <1>1
<1>3. Shaper!Spec => [][~up /\ up' => Back]_Shaper!vars
  BY <1>2, ShaperInvariance, PTL DEF Shaper!Spec
<1> QED BY <1>3, ShaperMoves, PTL DEF RestoredOnOpen, Shaper!RestoredOnOpen

-----------------------------------------------------------------------------
(* The components with proofs of their own: their invariants in MCSpec.    *)

BlockingP == INSTANCE BlockingDevicesProofs
DeferredP == INSTANCE DeferredWorkProofs
RingP == INSTANCE RingSimulationProofs

\* BlockingDevices moves in MCSpec by its own steps only.
LEMMA BlockingMoves == MCSpec => BlockingP!Spec
<1> USE DEF Blocking!Devices, BlockingP!Devices, Blocking!Go, BlockingP!Go
<1>1. MCInit => BlockingP!Init
  BY DEF MCInit, Blocking!Init, BlockingP!Init
<1>2. Blocking!Next => BlockingP!Next
  <2>1. ASSUME NEW w PROVE Blocking!Write(w) => BlockingP!Write(w)
    BY DEF Blocking!Write, BlockingP!Write
  <2>2. ASSUME NEW w PROVE Blocking!WriteNothing(w) => BlockingP!WriteNothing(w)
    BY DEF Blocking!WriteNothing, BlockingP!WriteNothing
  <2>3. ASSUME NEW w PROVE Blocking!BufferPut(w) => BlockingP!BufferPut(w)
    BY DEF Blocking!BufferPut, BlockingP!BufferPut, Blocking!Put, BlockingP!Put
  <2>4. ASSUME NEW w PROVE Blocking!WakeUp(w) => BlockingP!WakeUp(w)
    BY DEF Blocking!WakeUp, BlockingP!WakeUp
  <2>5. ASSUME NEW r PROVE Blocking!Read(r) => BlockingP!Read(r)
    BY DEF Blocking!Read, BlockingP!Read
  <2>6. ASSUME NEW r PROVE Blocking!Test(r) => BlockingP!Test(r)
    BY DEF Blocking!Test, BlockingP!Test
  <2>7. ASSUME NEW r PROVE Blocking!Interrupted(r) => BlockingP!Interrupted(r)
    BY DEF Blocking!Interrupted, BlockingP!Interrupted
  <2>8. ASSUME NEW r PROVE Blocking!ReadSection(r) => BlockingP!ReadSection(r)
    BY DEF Blocking!ReadSection, BlockingP!ReadSection
  <2>9. ASSUME NEW r PROVE Blocking!BufferGet(r) => BlockingP!BufferGet(r)
    BY DEF Blocking!BufferGet, BlockingP!BufferGet
  <2>10. ASSUME NEW r PROVE Blocking!NoMoreKeys(r) => BlockingP!NoMoreKeys(r)
    BY DEF Blocking!NoMoreKeys, BlockingP!NoMoreKeys
  <2>11. ASSUME NEW r PROVE Blocking!ReadNonblock(r) => BlockingP!ReadNonblock(r)
    BY DEF Blocking!ReadNonblock, BlockingP!ReadNonblock
  <2>12. ASSUME NEW r PROVE Blocking!ResetNonblock(r) => BlockingP!ResetNonblock(r)
    BY DEF Blocking!ResetNonblock, BlockingP!ResetNonblock
  <2> QED BY <2>1, <2>2, <2>3, <2>4, <2>5, <2>6, <2>7, <2>8, <2>9, <2>10, <2>11, <2>12 DEF Blocking!Next, BlockingP!Next
<1>3. [MCNext]_MCVars => [BlockingP!Next]_BlockingP!vars
  BY <1>2 DEF MCNext, MCVars, blocking, BlockingP!vars
<1> QED BY <1>1, <1>3, PTL DEF MCSpec, BlockingP!Spec

\* ChangeSeen (vled_read, my_read of blocking.c): when the flag is down, the last
\* read has returned the last change.
THEOREM ChangesAreSeen == ASSUME BlockingP!Sizes PROVE MCSpec => []ChangeSeen
<1>1. BlockingP!Spec => []BlockingP!ChangeSeen
  BY BlockingP!NoChangeSwallowed
<1>2. BlockingP!ChangeSeen => ChangeSeen
  BY DEF ChangeSeen, Blocking!ChangeSeen, BlockingP!ChangeSeen
<1> QED BY <1>1, <1>2, BlockingMoves, PTL

\* KeysInOrder (buffer_put, buffer_get): keys come out in order, each once, and
\* data_available tells of them.
THEOREM KeysComeInOrder == ASSUME BlockingP!Sizes PROVE MCSpec => []KeysInOrder
<1>1. BlockingP!Spec => []BlockingP!KeysInOrder
  BY BlockingP!KeysStayInOrder
<1>2. BlockingP!KeysInOrder => KeysInOrder
  BY DEF KeysInOrder, Blocking!KeysInOrder, BlockingP!KeysInOrder
<1> QED BY <1>1, <1>2, BlockingMoves, PTL

\* NobodyOversleeps (wait_event_interruptible, wake_up_interruptible): a reader
\* asleep beside a set flag will be woken.
THEOREM NobodySleepsOn == ASSUME BlockingP!Sizes PROVE MCSpec => []NobodyOversleeps
<1>1. BlockingP!Spec => []BlockingP!NobodyOversleeps
  BY BlockingP!NoWakeUpLost
<1>2. BlockingP!NobodyOversleeps => NobodyOversleeps
  BY DEF NobodyOversleeps, Blocking!NobodyOversleeps, BlockingP!NobodyOversleeps
<1> QED BY <1>1, <1>2, BlockingMoves, PTL

\* DeferredWork moves in MCSpec by its own steps only.
LEMMA DeferredMoves == MCSpec => DeferredP!Spec
<1> USE DEF Deferred!ExitSteps, DeferredP!ExitSteps, Deferred!Examples, DeferredP!Examples,
            Deferred!IrqExamples, DeferredP!IrqExamples,
            Deferred!NetExamples, DeferredP!NetExamples,
            Deferred!TheItem, DeferredP!TheItem, Deferred!NoCall, DeferredP!NoCall,
            Deferred!Queued, DeferredP!Queued, Deferred!Schedule, DeferredP!Schedule
<1>1. MCInit => DeferredP!Init
  BY DEF MCInit, Deferred!Init, DeferredP!Init
<1>2. Deferred!Next => DeferredP!Next
  <2>1. Deferred!Interrupt => DeferredP!Interrupt
    BY DEF Deferred!Interrupt, DeferredP!Interrupt
  <2>2. Deferred!PseudoOpen => DeferredP!PseudoOpen
    BY DEF Deferred!PseudoOpen, DeferredP!PseudoOpen
  <2>3. Deferred!PseudoClose => DeferredP!PseudoClose
    BY DEF Deferred!PseudoClose, DeferredP!PseudoClose
  <2>4. Deferred!PseudoStop => DeferredP!PseudoStop
    BY DEF Deferred!PseudoStop, DeferredP!PseudoStop
  <2>5. Deferred!Start => DeferredP!Start
    BY DEF Deferred!Start, DeferredP!Start
  <2>6. Deferred!Finish => DeferredP!Finish
    BY DEF Deferred!Finish, DeferredP!Finish, Deferred!Again, DeferredP!Again
  <2>7. Deferred!BeginExit => DeferredP!BeginExit
    BY DEF Deferred!BeginExit, DeferredP!BeginExit
  <2>8. Deferred!ExitStep => DeferredP!ExitStep
    BY DEF Deferred!ExitStep, DeferredP!ExitStep
  <2>9. Deferred!Gone => DeferredP!Gone
    BY DEF Deferred!Gone, DeferredP!Gone
  <2>10. ASSUME NEW c PROVE Deferred!IoctlSchedule(c) => DeferredP!IoctlSchedule(c)
    BY DEF Deferred!IoctlSchedule, DeferredP!IoctlSchedule
  <2>11. ASSUME NEW c PROVE Deferred!IoctlReturn(c) => DeferredP!IoctlReturn(c)
    BY DEF Deferred!IoctlReturn, DeferredP!IoctlReturn, Deferred!Waited, DeferredP!Waited
  <2>12. ASSUME NEW c, NEW v PROVE Deferred!Ioctl(c, v) => DeferredP!Ioctl(c, v)
    BY DEF Deferred!Ioctl, DeferredP!Ioctl
  <2> QED BY <2>1, <2>2, <2>3, <2>4, <2>5, <2>6, <2>7, <2>8, <2>9, <2>10, <2>11, <2>12 DEF Deferred!Next, DeferredP!Next
<1>3. [MCNext]_MCVars => [DeferredP!Next]_DeferredP!vars
  BY <1>2 DEF MCNext, MCVars, deferred, DeferredP!vars
<1> QED BY <1>1, <1>3, PTL DEF MCSpec, DeferredP!Spec

\* QuietWhenGone (the module exits): nothing is queued or runs after rmmod, in the
\* six modules that wait for their work or cancel it once no more can come.
THEOREM GoneIsQuiet == ASSUME DeferredP!Given PROVE MCSpec => []QuietWhenGone
<1>1. DeferredP!Spec => []DeferredP!QuietWhenGone
  BY DeferredP!UnloadedIsQuiet
<1>2. DeferredP!QuietWhenGone => QuietWhenGone
  BY DEF QuietWhenGone, Deferred!QuietWhenGone, DeferredP!QuietWhenGone
<1> QED BY <1>1, <1>2, DeferredMoves, PTL

\* ResultIsOwn (my_ioctl of userdata.c): a process gets the double of its own
\* argument.
THEOREM ResultsAreOwn == ASSUME DeferredP!Given PROVE MCSpec => []ResultIsOwn
<1>1. DeferredP!Spec => []DeferredP!ResultIsOwn
  BY DeferredP!OwnResults
<1>2. DeferredP!ResultIsOwn => ResultIsOwn
  BY DEF ResultIsOwn, Deferred!ResultIsOwn, DeferredP!ResultIsOwn
<1> QED BY <1>1, <1>2, DeferredMoves, PTL

\* RingSimulation moves in MCSpec by its own steps only.
LEMMA RingMoves == MCSpec => RingP!Spec
<1> USE DEF Ring!Programs, RingP!Programs, Ring!Hardware, RingP!Hardware, Ring!Cpu,
            RingP!Cpu, Ring!Slots, RingP!Slots, Ring!Succ, RingP!Succ
<1>1. MCInit => RingP!Init
  BY DEF MCInit, Ring!Init, RingP!Init
<1>2. Ring!Next => RingP!Next
  <2>1. Ring!Arrive => RingP!Arrive
    BY DEF Ring!Arrive, RingP!Arrive
  <2>2. Ring!Signal => RingP!Signal
    BY DEF Ring!Signal, RingP!Signal
  <2>3. Ring!Scan => RingP!Scan
    BY DEF Ring!Scan, RingP!Scan
  <2>4. Ring!Wait => RingP!Wait
    BY DEF Ring!Wait, RingP!Wait
  <2>5. Ring!Process => RingP!Process
    BY DEF Ring!Process, RingP!Process, Ring!MoreInBatch, RingP!MoreInBatch
  <2>6. Ring!EndBatch => RingP!EndBatch
    BY DEF Ring!EndBatch, RingP!EndBatch, Ring!MoreInBatch, RingP!MoreInBatch
  <2> QED BY <2>1, <2>2, <2>3, <2>4, <2>5, <2>6 DEF Ring!Next, RingP!Next
<1>3. [MCNext]_MCVars => [RingP!Next]_RingP!vars
  BY <1>2 DEF MCNext, MCVars, rings, RingP!vars
<1> QED BY <1>1, <1>3, PTL DEF MCSpec, RingP!Spec

\* PacketsInOrder (the NIC and the CPU threads of threaded_rx.c and dma_simulation.c):
\* in both programs packets are processed in the order in which they were written,
\* each once; that the CPU does not wait beside one is said of threaded_rx.c only.
THEOREM PacketsComeInOrder == ASSUME RingP!Sizes PROVE MCSpec => []PacketsInOrder
<1>1. RingP!Spec => []RingP!PacketsInOrder
  BY RingP!RingIsQueue
<1>2. RingP!PacketsInOrder => PacketsInOrder
  BY DEF PacketsInOrder, Ring!PacketsInOrder, RingP!PacketsInOrder, Ring!Pending,
         RingP!Pending, Ring!Slots, RingP!Slots, Ring!Cpu, RingP!Cpu
<1> QED BY <1>1, <1>2, RingMoves, PTL

-----------------------------------------------------------------------------
(* CpswRates: the declared types.                                          *)

\* CpswRates: channels, budgets and requests have their types.
LEMMA RatesTypeOK == ASSUME RateInv, RatesTyped PROVE TypeOK
<1>1. tx_ch_num \in 1 .. MaxQueues /\ MaxQueues \in Nat /\ MaxChannels \in Nat
  BY QueueAssumption, ResourceAssumption DEF RateInv, ChannelsUp
<1>2. DOMAIN chan = {ChanOf(q) : q \in Queues} \cup {rx_chan_num(0)}
  <2>1. DOMAIN chan = (MaxChannels - tx_ch_num .. MaxChannels - 1) \cup {MaxChannels}
    BY DEF RateInv, ChannelsUp
  <2>2. ASSUME NEW q \in Queues PROVE ChanOf(q) \in MaxChannels - tx_ch_num .. MaxChannels - 1
    BY <1>1 DEF Queues, ChanOf
  <2>3. ASSUME NEW c \in MaxChannels - tx_ch_num .. MaxChannels - 1
        PROVE  MaxChannels - 1 - c \in Queues /\ ChanOf(MaxChannels - 1 - c) = c
    BY <1>1 DEF Queues, ChanOf
  <2>4. rx_chan_num(0) = MaxChannels
    BY <1>1 DEF rx_chan_num
  <2> QED BY <2>1, <2>2, <2>3, <2>4
<1>3. \A c \in DOMAIN chan : chan[c] \in [weight : Nat, rate : Nat, desc_num : Nat]
  BY DEF RatesTyped, Typed, ChannelType
<1> QED BY <1>1, <1>2, <1>3 DEF TypeOK, RatesTyped

-----------------------------------------------------------------------------
(* CpswShaper: types.                                                      *)

\* A configuration of bandwidths that were asked for, at a speed of the link.
Within(s) ==
  /\ ShapersTyped(s)
  /\ s.speed \in LinkSpeeds \cup {0}
  /\ s.bw \in [Fifos -> Slopes \cup {0}] /\ s.pct \in [Fifos -> 0 .. 100]

\* A share that cpsw_set_fifo_bw accepts is less than the whole.
LEMMA SharesFitWhole ==
  ASSUME NEW s, ShapersTyped(s), NEW f \in Fifos, NEW bw \in Nat, bw > 0,
         Shaper!FitsFifo(s, f, bw)
  PROVE  Shaper!Percent(bw, s.speed) \in 0 .. 100
<1> DEFINE R == {g \in Shaper!Fifos \ {f} : s.bw[g] > 0}
<1>1. s.speed \in Nat \ {0}
  <2>1. bw <= s.speed * 1000
    BY DEF Shaper!FitsFifo
  <2>2. s.speed \in Nat
    BY DEF ShapersTyped
  <2>3. s.speed = 0 => s.speed * 1000 = 0
    OBVIOUS
  <2> QED BY <2>1, <2>2, <2>3
<1>2. Shaper!Percent(bw, s.speed) \in Nat
  BY <1>1, PercentIsNat
<1>3. Shaper!Percent(bw, s.speed) + Shaper!Sum(s.pct, R) < 100
  BY DEF Shaper!FitsFifo, Shaper!Total
<1> HIDE DEF R
<1>4. Shaper!Sum(s.pct, R) \in Nat
  <2>1. s.pct \in [Fifos -> Nat] /\ \A g \in Fifos \cap R : s.pct[g] <= s.pct[g]
    BY DEF ShapersTyped
  <2> QED BY <2>1, SumMonotonic
<1> QED BY <1>2, <1>3, <1>4

\* cpsw_set_fifo_rlimit stores nothing else.
LEMMA SetFifoRlimitWithin ==
  ASSUME Bandwidths, NEW s, Within(s), NEW f \in Fifos, NEW bw \in Slopes \cup {0}
  PROVE  Within(Shaper!SetFifoRlimit(s, f, bw))
<1> DEFINE t == Shaper!SetFifoRlimit(s, f, bw)
<1>1. CASE ~ Shaper!FitsFifo(s, f, bw)
  <2>1. t = s
    BY <1>1 DEF Shaper!SetFifoRlimit
  <2> QED BY <2>1
<1>2. CASE Shaper!FitsFifo(s, f, bw)
  <2>1. bw \in Nat /\ ShapersTyped(s)
    BY DEF Bandwidths, Within
  <2>2. Stored(t, s, f, bw)
    BY <1>2, <2>1, SetFifoRlimitStores
  <2>3. bw > 0 => Shaper!Percent(bw, s.speed) \in 0 .. 100
    BY <1>2, <2>1, SharesFitWhole
  <2> HIDE DEF t
  <2>4. /\ ShapersTyped(t) /\ t.bw = [s.bw EXCEPT ![f] = bw]
        /\ t.pct = IF bw > 0 THEN [s.pct EXCEPT ![f] = Shaper!Percent(bw, s.speed)] ELSE s.pct
        /\ t.speed = s.speed \/ t.speed = 0
    BY <2>2 DEF Stored
  <2>5. t.bw \in [Fifos -> Slopes \cup {0}] /\ t.speed \in LinkSpeeds \cup {0}
    BY <2>4 DEF Within
  <2>6. t.pct \in [Fifos -> 0 .. 100]
    BY <2>3, <2>4 DEF Within
  <2> QED BY <2>4, <2>5, <2>6 DEF Within, t
<1> QED BY <1>1, <1>2

\* Nor does cpsw_cbs_resume.
LEMMA CbsResumeWithin ==
  ASSUME Bandwidths, NEW s, Within(s) PROVE Within(Shaper!CbsResume(s))
<1>1. ASSUME NEW t, Within(t), NEW f \in Fifos PROVE Within(Again(s, t, f))
  <2>1. s.bw[f] \in Slopes \cup {0}
    BY DEF Within
  <2> QED BY <1>1, <2>1, SetFifoRlimitWithin DEF Again
<1>2. 1 \in Fifos /\ 2 \in Fifos /\ 3 \in Fifos
  BY ThreeFifos
<1>3. Within(Again(s, s, 3))
  BY <1>1, <1>2
<1>4. Within(Again(s, Again(s, s, 3), 2))
  BY <1>1, <1>2, <1>3
<1>5. Within(Again(s, Again(s, Again(s, s, 3), 2), 1))
  BY <1>1, <1>2, <1>4
<1> QED BY <1>5, CbsResumeByFifo

\* Nor a reset.
LEMMA ResetWithin ==
  ASSUME NEW s, Within(s) PROVE Within(Reset(s))
<1>1. ShapersTyped(Reset(s)) /\ Reset(s).pct = Shaper!Off
      /\ Reset(s).bw = s.bw /\ Reset(s).speed = s.speed
  BY ResetAgrees DEF Within, Agree
<1>2. Shaper!Off \in [Fifos -> 0 .. 100]
  BY DEF Shaper!Off, Fifos
<1> QED BY <1>1, <1>2 DEF Within

\* The speed may be any that the link may have.
LEMMA SpeedWithin ==
  ASSUME Bandwidths, NEW s, Within(s), NEW v \in LinkSpeeds \cup {0}
  PROVE  Within([s EXCEPT !.speed = v])
<1> DEFINE t == [s EXCEPT !.speed = v]
<1>1. t = [speed |-> v, bw |-> s.bw, pct |-> s.pct, en |-> s.en, rate |-> s.rate,
           type |-> s.type]
  BY DEF Within, ShapersTyped
<1>2. v \in Nat
  BY DEF Bandwidths
<1>3. ShapersTyped(t)
  BY <1>1, <1>2 DEF Within, ShapersTyped
<1>4. t.speed = v /\ t.bw = s.bw /\ t.pct = s.pct
  BY <1>1
<1> HIDE DEF t
<1>5. Within(t)
  BY <1>3, <1>4 DEF Within
<1> QED BY <1>5 DEF t

\* Types that every operation on the shapers keeps.
ShaperTypes ==
  /\ Within(Shaper!Shapers)
  /\ phy \in LinkSpeeds \cup {0}
  /\ up \in BOOLEAN /\ other \in BOOLEAN /\ mqprio_hw \in BOOLEAN

\* At first nothing is shaped, and the link is down.
LEMMA ShaperTypesInit == Bandwidths /\ Shaper!Init => ShaperTypes
<1> SUFFICES ASSUME Bandwidths, Shaper!Init PROVE ShaperTypes
  OBVIOUS
<1> DEFINE s == Shaper!Shapers
<1>1. s = [speed |-> 0, bw |-> Shaper!Off, pct |-> Shaper!Off, en |-> {}, rate |-> {},
           type |-> 0]
  BY DEF Shaper!Init, Shaper!Shapers
<1>2. /\ Shaper!Off \in [Fifos -> Nat] /\ Shaper!Off \in [Fifos -> Slopes \cup {0}]
      /\ Shaper!Off \in [Fifos -> 0 .. 100]
  BY DEF Shaper!Off, Fifos
<1> HIDE DEF s
<1>3. ShapersTyped(s)
  BY <1>1, <1>2 DEF ShapersTyped
<1>4. Within(s)
  BY <1>1, <1>2, <1>3 DEF Within
<1> QED BY <1>4 DEF ShaperTypes, Shaper!Init, s

\* What a handler stores within the types stays there.
LEMMA WithinStored ==
  ASSUME NEW s, Within(s), Shaper!Store(s) PROVE Within(Shaper!Shapers')
<1>1. Shaper!Shapers' = s
  BY StoreIsExact DEF Within
<1> QED BY <1>1

\* Every step of CpswShaper keeps to the types.
LEMMA ShaperTypesStep ==
  ASSUME Bandwidths, ShaperTypes, [Shaper!Next]_Shaper!vars PROVE ShaperTypes'
<1> DEFINE S == Shaper!Shapers
<1>0. /\ Within(S) /\ phy \in LinkSpeeds \cup {0}
      /\ up \in BOOLEAN /\ other \in BOOLEAN /\ mqprio_hw \in BOOLEAN
  BY DEF ShaperTypes
<1>1. UNCHANGED Shaper!shaper => S' = S
  BY DEF Shaper!shaper, Shaper!Shapers
<1> HIDE DEF S
<1>2. ASSUME UNCHANGED Shaper!shaper PROVE Within(S')
  BY <1>0, <1>1, <1>2
<1>3. ASSUME NEW tc \in 0 .. 3, NEW bw \in Slopes \cup {0}, Shaper!SetCbs(tc, bw)
      PROVE Within(S')
  <2> DEFINE fifo == Shaper!TcToFifo(tc, num_tc)
             known == IF phy > 0 THEN phy ELSE shp_cfg_speed
             prev == IF phy > 0 /\ shp_cfg_speed # phy THEN shp_cfg_speed ELSE 0
             s == [Shaper!Shapers EXCEPT !.speed = known]
             refused == [Shaper!Shapers EXCEPT !.speed = prev]
             new == IF Shaper!FitsFifo(s, fifo, bw) THEN Shaper!SetFifoRlimit(s, fifo, bw)
                    ELSE refused
  <2>1. fifo # 0 /\ Shaper!Store(new)
    BY <1>3 DEF Shaper!SetCbs
  <2>2. fifo \in Fifos
    BY <2>1, ThreeFifos DEF Shaper!TcToFifo, Shaper!ShapersNum
  <2>3. shp_cfg_speed \in LinkSpeeds \cup {0}
    <3>1. Shaper!Shapers.speed = shp_cfg_speed
      BY DEF Shaper!Shapers
    <3> QED BY <1>0, <3>1 DEF Within, S
  <2>4. known \in LinkSpeeds \cup {0} /\ prev \in LinkSpeeds \cup {0}
    BY <1>0, <2>3
  <2> HIDE DEF known, prev, fifo
  <2>5. Within(s) /\ Within(refused)
    BY <1>0, <2>4, SpeedWithin DEF S
  <2> HIDE DEF s, refused
  <2>6. Within(new)
    BY <2>2, <2>5, SetFifoRlimitWithin
  <2> HIDE DEF new
  <2> QED BY <2>1, <2>6, WithinStored DEF S
<1>4. ASSUME Shaper!Open \/ Shaper!OtherOpen PROVE Within(S')
  <2>1. Within(S) /\ Within(Reset(S)) /\ Within(Shaper!CbsResume(S))
        /\ Within(Shaper!CbsResume(Reset(S)))
    BY <1>0, ResetWithin, CbsResumeWithin
  <2>2. \/ Shaper!Store(Shaper!CbsResume(IF other THEN S ELSE Reset(S)))
        \/ Shaper!Store(IF up THEN S ELSE Reset(S))
    BY <1>4 DEF Shaper!Open, Shaper!OtherOpen, Reset, S
  <2>3. \E s : Within(s) /\ Shaper!Store(s)
    BY <2>1, <2>2
  <2> QED BY <2>3, WithinStored DEF S
<1>5. Within(S')
  BY <1>2, <1>3, <1>4 DEF Shaper!Next, Shaper!SetMqprio, Shaper!ResetMqprio, Shaper!Stop,
                          Shaper!OtherStop, Shaper!AdjustLink, Shaper!vars, Shaper!shaper
<1>6. /\ phy' \in LinkSpeeds \cup {0}
      /\ up' \in BOOLEAN /\ other' \in BOOLEAN /\ mqprio_hw' \in BOOLEAN
  BY <1>0 DEF Shaper!Next, Shaper!SetCbs, Shaper!SetMqprio, Shaper!ResetMqprio, Shaper!Open,
              Shaper!Stop, Shaper!OtherOpen, Shaper!OtherStop, Shaper!AdjustLink,
              Shaper!vars, Shaper!port, Shaper!mapping
<1> QED BY <1>5, <1>6 DEF ShaperTypes, S

\* Reached states have the types that the module declares.
LEMMA ShaperTypesOK == ASSUME ShaperTypes PROVE Shaper!TypeOK
<1>1. /\ Shaper!Shapers.en = shape_en /\ Shaper!Shapers.rate = rate_en
      /\ Shaper!Shapers.type = queue_type /\ Shaper!Shapers.pct = send_pct
      /\ Shaper!Shapers.bw = fifo_bw /\ Shaper!Shapers.speed = shp_cfg_speed
  BY DEF Shaper!Shapers
<1>2. /\ shape_en \subseteq Fifos /\ rate_en \subseteq Fifos /\ queue_type \in {0, 2}
      /\ shp_cfg_speed \in LinkSpeeds \cup {0}
      /\ fifo_bw \in [Fifos -> Slopes \cup {0}] /\ send_pct \in [Fifos -> 0 .. 100]
  BY <1>1 DEF ShaperTypes, Within, ShapersTyped
<1> QED BY <1>2 DEF ShaperTypes, Shaper!TypeOK, Fifos

-----------------------------------------------------------------------------
(* CpswAle: types.                                                         *)

\* The multicast entries that there can be, and what the table consists of.
Entries == (Groups \cup {Broadcast}) \X Vids

AleTypes ==
  /\ promisc \subseteq Netdevs /\ bypass \in BOOLEAN
  /\ DOMAIN vlan \subseteq Vids
  /\ \A v \in DOMAIN vlan : vlan[v] \subseteq Netdevs \cup {Host}
  /\ ucast \subseteq Macs \X Vids /\ mcast \subseteq Entries

\* cpsw_add_mc_addr adds entries for groups and VLANs.
LEMMA RefSyncWithin ==
  ASSUME Ports, StackTyped, vids' = vids, NEW n \in Netdevs, NEW E \in SUBSET Entries
  PROVE  Ale!RefSync(n, E) \subseteq Entries
<1> DEFINE num(g) == Ale!Cardinality(members'[n][g])
           more == {g \in Groups : num(g) > Ale!Cardinality(synced[n][g])}
           fewer == {g \in Groups : num(g) < Ale!Cardinality(synced[n][g])}
           Dels == UNION {Ale!DelMcAddr(n, g, num(g)) : g \in fewer}
           Adds == UNION {Ale!AddMcAddr(n, g, num(g)) : g \in more}
<1>1. Ale!RefSync(n, E) = (E \ Dels) \cup Adds
  BY DEF Ale!RefSync
<1>2. vids'[n] \subseteq Vids /\ PortVlan[n] \in Vids
  BY DEF Ports, StackTyped
<1>3. more \subseteq Groups
  OBVIOUS
<1> HIDE DEF num, more
<1>4. ASSUME NEW g \in more PROVE Ale!AddMcAddr(n, g, num(g)) \subseteq Entries
  <2>1. \A e \in Ale!AddMcAddr(n, g, num(g)) :
          \E v \in vids'[n] \cup {PortVlan[n]} : e = <<g, v>>
    BY DEF Ale!AddMcAddr, Ale!Listening
  <2>2. \A v \in Vids : <<g, v>> \in Entries
    BY <1>3 DEF Entries
  <2> QED BY <1>2, <2>1, <2>2
<1>5. Adds \subseteq Entries
  BY <1>4
<1> HIDE DEF Dels, Adds
<1> QED BY <1>1, <1>5

\* cpsw_ndo_set_rx_mode leaves entries of the same types, whatever is refused.
LEMMA SetRxModeWithin ==
  ASSUME Ports, StackTyped, vids' = vids, NEW n \in Netdevs, NEW E \in SUBSET Entries,
         Ale!SetRxMode(n, E)
  PROVE  mcast' \subseteq Entries /\ bypass' \in BOOLEAN
<1>1. mcast' = E \/ mcast' = Ale!RefSync(n, E)
  BY DEF Ale!SetRxMode
<1>2. bypass' \in BOOLEAN
  BY DEF Ale!SetRxMode, Ale!Bypass
<1> QED BY <1>1, <1>2, RefSyncWithin

\* The VLANs of a table that a netdev's are put into, or one is taken out of.
LEMMA TableWithin ==
  ASSUME Ports, NEW n \in Netdevs, NEW vs \in SUBSET Vids, NEW old,
         DOMAIN old \subseteq Vids, \A v \in DOMAIN old : old[v] \subseteq Netdevs \cup {Host}
  PROVE  /\ DOMAIN Ale!With(old, vs, Ale!VlanMembers(n)) \subseteq Vids
         /\ \A v \in DOMAIN Ale!With(old, vs, Ale!VlanMembers(n)) :
              Ale!With(old, vs, Ale!VlanMembers(n))[v] \subseteq Netdevs \cup {Host}
         /\ \A w : /\ DOMAIN Ale!Without(old, w) \subseteq Vids
                   /\ \A v \in DOMAIN Ale!Without(old, w) :
                        Ale!Without(old, w)[v] \subseteq Netdevs \cup {Host}
<1>1. Ale!VlanMembers(n) \subseteq Netdevs \cup {Host}
  BY DEF Ale!VlanMembers
<1> QED BY <1>1 DEF Ale!With, Ale!Without

\* At first there is nothing in the table.
LEMMA AleTypesInit == ASSUME Ale!Init PROVE AleTypes
<1>1. vlan = <<>> /\ ucast = {} /\ mcast = {} /\ promisc = {} /\ bypass = FALSE
  BY DEF Ale!Init
<1>2. DOMAIN vlan = {}
  BY <1>1
<1> QED BY <1>1, <1>2 DEF AleTypes

\* Every step of CpswAle keeps to the types.
LEMMA AleTypesStep ==
  ASSUME Ports, StackTyped, AleTypes, [Ale!Next]_Ale!vars PROVE AleTypes'
<1>0. /\ promisc \subseteq Netdevs /\ bypass \in BOOLEAN
      /\ DOMAIN vlan \subseteq Vids
      /\ \A v \in DOMAIN vlan : vlan[v] \subseteq Netdevs \cup {Host}
      /\ ucast \subseteq Macs \X Vids /\ mcast \subseteq Entries
  BY DEF AleTypes
<1>1. ASSUME NEW n \in Netdevs
      PROVE  /\ PortVlan[n] \in Vids /\ vids[n] \subseteq Vids /\ mac[n] \in Macs
             /\ vids[n] \cup {PortVlan[n]} \subseteq Vids
  BY DEF Ports, StackTyped
<1>2. \A v \in Vids, g \in Groups \cup {Broadcast} : <<g, v>> \in Entries
  BY DEF Entries
<1>3. ASSUME NEW n \in Netdevs, Ale!Open(n) PROVE AleTypes'
  <2> DEFINE old == IF open = {} THEN <<>> ELSE vlan
             mine == vids[n] \cup {PortVlan[n]}
             kept == IF open = {} THEN {} ELSE mcast
             E == kept \cup {<<Broadcast, v>> : v \in mine}
  <2>1. /\ UNCHANGED <<promisc, vids>> /\ vlan' = Ale!With(old, mine, Ale!VlanMembers(n))
        /\ ucast' = (IF open = {} THEN {} ELSE ucast) \cup {<<mac[n], v>> : v \in mine}
        /\ Ale!SetRxMode(n, E)
    BY <1>3 DEF Ale!Open
  <2>2. mine \subseteq Vids /\ mac[n] \in Macs
    BY <1>1
  <2>3. /\ DOMAIN old \subseteq Vids
        /\ \A v \in DOMAIN old : old[v] \subseteq Netdevs \cup {Host}
    BY <1>0
  <2> HIDE DEF old, mine
  <2>4. E \subseteq Entries
    BY <1>0, <1>2, <2>2
  <2>5. ucast' \subseteq Macs \X Vids
    BY <1>0, <2>1, <2>2
  <2> HIDE DEF E
  <2>6. mcast' \subseteq Entries /\ bypass' \in BOOLEAN
    BY <2>1, <2>4, SetRxModeWithin
  <2>7. /\ DOMAIN vlan' \subseteq Vids
        /\ \A v \in DOMAIN vlan' : vlan'[v] \subseteq Netdevs \cup {Host}
    BY <2>1, <2>2, <2>3, TableWithin
  <2> QED BY <1>0, <2>1, <2>5, <2>6, <2>7 DEF AleTypes
<1>4. ASSUME NEW n \in Netdevs, Ale!Stop(n) PROVE AleTypes'
  <2>1. mcast' \subseteq mcast /\ UNCHANGED <<promisc, vlan, ucast, bypass>>
    BY <1>4 DEF Ale!Stop
  <2> QED BY <1>0, <2>1 DEF AleTypes
<1>5. ASSUME NEW n \in Netdevs, NEW v \in Vids, Ale!AddVid(n, v) PROVE AleTypes'
  <2>1. /\ vlan' = Ale!With(vlan, {v}, Ale!VlanMembers(n)) /\ ucast' = ucast \cup {<<mac[n], v>>}
        /\ mcast' = mcast \cup {<<Broadcast, v>>} /\ UNCHANGED <<promisc, bypass>>
    BY <1>5 DEF Ale!AddVid
  <2>2. /\ DOMAIN vlan' \subseteq Vids
        /\ \A w \in DOMAIN vlan' : vlan'[w] \subseteq Netdevs \cup {Host}
    BY <1>0, <2>1, TableWithin
  <2>3. ucast' \subseteq Macs \X Vids /\ mcast' \subseteq Entries
    BY <1>0, <1>1, <1>2, <2>1
  <2> QED BY <1>0, <2>1, <2>2, <2>3 DEF AleTypes
<1>6. ASSUME NEW n \in Netdevs, NEW v \in Vids, Ale!AddVidFails(n, v) \/ Ale!KillVid(n, v)
      PROVE AleTypes'
  <2>1. /\ vlan' = Ale!Without(vlan, v) /\ ucast' \subseteq ucast /\ mcast' \subseteq mcast
        /\ UNCHANGED <<promisc, bypass>>
    BY <1>6 DEF Ale!AddVidFails, Ale!KillVid
  <2>2. /\ DOMAIN vlan' \subseteq Vids
        /\ \A w \in DOMAIN vlan' : vlan'[w] \subseteq Netdevs \cup {Host}
    BY <1>0, <2>1, TableWithin
  <2> QED BY <1>0, <2>1, <2>2 DEF AleTypes
<1>7. ASSUME NEW n \in Netdevs, NEW g, NEW who, Ale!Listen(n, g, who) PROVE AleTypes'
  <2>1. /\ UNCHANGED <<promisc, vids, vlan, ucast>>
        /\ Ale!SetRxMode(n, mcast) \/ UNCHANGED <<mcast, bypass>>
    BY <1>7 DEF Ale!Listen
  <2>2. mcast' \subseteq Entries /\ bypass' \in BOOLEAN
    BY <1>0, <2>1, SetRxModeWithin
  <2> QED BY <1>0, <2>1, <2>2 DEF AleTypes
<1>8. ASSUME NEW n \in Netdevs, Ale!SetPromisc(n) PROVE AleTypes'
  <2>1. /\ promisc' \subseteq promisc \cup {n} /\ UNCHANGED <<vids, vlan, ucast>>
        /\ Ale!SetRxMode(n, mcast) \/ UNCHANGED <<mcast, bypass>>
    BY <1>8 DEF Ale!SetPromisc
  <2>2. mcast' \subseteq Entries /\ bypass' \in BOOLEAN
    BY <1>0, <2>1, SetRxModeWithin
  <2> QED BY <1>0, <2>1, <2>2 DEF AleTypes
<1>9. ASSUME NEW n \in Netdevs, NEW m \in Macs, Ale!SetMacAddress(n, m) PROVE AleTypes'
  <2>1. /\ ucast' \subseteq ucast \cup {<<m, PortVlan[n]>>}
        /\ UNCHANGED <<promisc, vlan, mcast, bypass>>
    BY <1>9 DEF Ale!SetMacAddress
  <2> QED BY <1>0, <1>1, <2>1 DEF AleTypes
<1>10. CASE UNCHANGED Ale!vars
  BY <1>0, <1>10 DEF Ale!vars, AleTypes
<1> QED BY <1>3, <1>4, <1>5, <1>6, <1>7, <1>8, <1>9, <1>10 DEF Ale!Next

\* Who listens, and who has been synced, is a netdev or a VLAN of it.
LEMMA AleTypesOK == ASSUME AleInv, AleTypes PROVE Ale!TypeOK
<1>1. open \subseteq Netdevs /\ mac \in [Netdevs -> Macs] /\ vids \in [Netdevs -> SUBSET Vids]
  BY DEF AleInv, StackTyped
<1>2. ASSUME NEW n \in Netdevs, NEW g \in Groups
      PROVE  members[n][g] \cup synced[n][g] \subseteq Vids \cup {n}
  <2>1. members[n][g] \subseteq Vids \cup {n}
    BY <1>1 DEF AleInv, StackTyped, Known
  <2>2. synced[n][g] = members[n][g] \/ synced[n][g] = {}
    BY DEF AleInv, SyncedUpToDate
  <2> QED BY <2>1, <2>2
<1> QED BY <1>1, <1>2 DEF AleTypes, Ale!TypeOK, Entries

-----------------------------------------------------------------------------
(* MCSeparate: the declared types of all.                                  *)

\* TypesOK: each component keeps to its types, beside the others.
THEOREM TypesAreCorrect ==
  ASSUME Requests, Ports, Bandwidths, BlockingP!Sizes, DeferredP!Given, RingP!Sizes
  PROVE  MCSpec => []TypesOK
<1>1. MCSpec => []TypeOK
  <2>1. RateInv /\ RatesTyped /\ Progress /\ RatesGiven => TypeOK
    BY RatesTypeOK
  <2> QED BY <2>1, ResourcesInvariance, RatesMoves, PTL
<1>2. MCSpec => []Shaper!TypeOK
  <2>1. Shaper!Init => ShaperTypes
    BY ShaperTypesInit
  <2>2. ShaperTypes /\ [Shaper!Next]_Shaper!vars => ShaperTypes'
    BY ShaperTypesStep
  <2>3. ShaperTypes => Shaper!TypeOK
    BY ShaperTypesOK
  <2> QED BY <2>1, <2>2, <2>3, ShaperMoves, PTL DEF Shaper!Spec
<1>3. MCSpec => []Ale!TypeOK
  <2>1. Ale!Init => AleTypes
    BY AleTypesInit
  <2>2. AleInv /\ AleTypes /\ [Ale!Next]_Ale!vars => AleTypes'
    BY AleTypesStep DEF AleInv
  <2>3. AleInv /\ AleTypes => Ale!TypeOK
    BY AleTypesOK
  <2> QED BY <2>1, <2>2, <2>3, AleInvariance, AleMoves, PTL DEF Ale!Spec
<1>4. MCSpec => []Blocking!TypeOK
  <2>1. BlockingP!Spec => []BlockingP!TypeOK
    BY BlockingP!TypeCorrect
  <2>2. BlockingP!TypeOK => Blocking!TypeOK
    BY DEF BlockingP!TypeOK, Blocking!TypeOK, BlockingP!Devices, Blocking!Devices
  <2> QED BY <2>1, <2>2, BlockingMoves, PTL
<1>5. MCSpec => []Deferred!TypeOK
  <2>1. DeferredP!Spec => []DeferredP!TypeOK
    BY DeferredP!TypeCorrect
  <2>2. DeferredP!TypeOK => Deferred!TypeOK
    BY DEF DeferredP!TypeOK, Deferred!TypeOK, DeferredP!Examples, Deferred!Examples,
           DeferredP!ExitSteps, Deferred!ExitSteps, DeferredP!TheItem, Deferred!TheItem
  <2> QED BY <2>1, <2>2, DeferredMoves, PTL
<1>6. MCSpec => []Ring!TypeOK
  <2>1. RingP!Spec => []RingP!TypeOK
    BY RingP!TypeCorrect
  <2>2. RingP!TypeOK => Ring!TypeOK
    BY DEF RingP!TypeOK, Ring!TypeOK, RingP!Programs, Ring!Programs, RingP!Slots, Ring!Slots,
           RingP!Hardware, Ring!Hardware, RingP!Cpu, Ring!Cpu
  <2> QED BY <2>1, <2>2, RingMoves, PTL
<1>7. MCSpec => [](part \in Parts)
  <2>1. MCInit => part \in Parts
    BY DEF MCInit
  <2>2. part \in Parts /\ [MCNext]_MCVars => (part \in Parts)'
    BY DEF MCNext, MCVars
  <2> QED BY <2>1, <2>2, PTL DEF MCSpec
<1>8. TypeOK /\ Shaper!TypeOK /\ Ale!TypeOK /\ Blocking!TypeOK /\ Deferred!TypeOK
        /\ Ring!TypeOK /\ part \in Parts => TypesOK
  BY DEF TypesOK, Parts
<1> QED BY <1>1, <1>2, <1>3, <1>4, <1>5, <1>6, <1>7, <1>8, PTL
=============================================================================

----------------------------- MODULE CpswShaper -----------------------------
(***************************************************************************)
(* The FIFO shapers of one CPSW port (priv.c): credit based shaping, the   *)
(* mapping of priorities to FIFOs, and what an open restores of both after *)
(* the port has been reset.                                                *)
(***************************************************************************)
EXTENDS Integers

CONSTANTS Slopes,       \* idle slopes that are asked for, in Kb/s, not 0
          LinkSpeeds,   \* speeds the PHY may report, in Mb/s
          PrioMaps      \* pairs: a number of traffic classes, and a map from
                        \* priorities to them

ShapersNum == 3              \* CPSW_FIFO_SHAPERS_NUM
Fifos == 1 .. ShapersNum     \* FIFO 0 is never shaped
Off == [f \in Fifos |-> 0]

VARIABLES
  up,            \* the netdev is open
  other,         \* the other netdev of the switch is open
  phy,           \* link speed, 0 while the link is down
  shp_cfg_speed, \* the speed that the shares were computed for, 0 if unknown
  fifo_bw,       \* what was asked of each FIFO
  send_pct,      \* SEND_PERCENT
  shape_en,      \* the shaper enable bits of PTYPE
  rate_en,       \* TX_IN_CTL: the FIFOs that are rate limited
  queue_type,    \* TX_IN_CTL: 0 for normal priority mode, 2 for rate limited
  num_tc,        \* traffic classes of the netdev, 0 if none
  prio_tc,       \* the netdev's map from priorities to traffic classes
  mqprio_hw,     \* a mapping has been offloaded
  tx_pri_map     \* TX_PRI_MAP: the FIFO of each priority

vars == <<up, other, phy, shp_cfg_speed, fifo_bw, send_pct, shape_en, rate_en,
          queue_type, num_tc, prio_tc, mqprio_hw, tx_pri_map>>

port == <<up, other, phy>>
shaper == <<shp_cfg_speed, fifo_bw, send_pct, shape_en, rate_en, queue_type>>
mapping == <<num_tc, prio_tc, mqprio_hw, tx_pri_map>>

Default == "TX_PRIORITY_MAPPING"
TcToFifo(tc, n) == IF tc = n - 1 THEN 0 ELSE ShapersNum - tc

Init ==
  /\ up = FALSE /\ other = FALSE /\ phy = 0
  /\ shp_cfg_speed = 0 /\ fifo_bw = Off /\ send_pct = Off
  /\ shape_en = {} /\ rate_en = {} /\ queue_type = 0
  /\ num_tc = 0 /\ prio_tc = <<>> /\ mqprio_hw = FALSE /\ tx_pri_map = Default

-----------------------------------------------------------------------------
\* The configuration of the shapers is a record, for the functions of priv.c.
Shapers == [speed |-> shp_cfg_speed, bw |-> fifo_bw, pct |-> send_pct,
            en |-> shape_en, rate |-> rate_en, type |-> queue_type]

Store(s) ==
  /\ shp_cfg_speed' = s.speed /\ fifo_bw' = s.bw /\ send_pct' = s.pct
  /\ shape_en' = s.en /\ rate_en' = s.rate /\ queue_type' = s.type

Percent(bw, mbps) == (bw + mbps * 10 - 1) \div (mbps * 10)

\* The sum over the FIFOs in S.
Sum(pct, S) == LET of(f) == IF f \in S THEN pct[f] ELSE 0 IN of(1) + of(2) + of(3)

\* The percentages of all the FIFOs that are, or would be, shaped.
Total(s, fifo, bw) ==
  Percent(bw, s.speed) + Sum(s.pct, {f \in Fifos \ {fifo} : s.bw[f] > 0})

\* cpsw_set_fifo_bw: a bandwidth must fit the speed, with what the others have,
\* and the FIFOs above have to be shaped already; 0 is always accepted.
FitsFifo(s, fifo, bw) ==
  /\ bw <= s.speed * 1000
  /\ bw > 0 => /\ \A f \in Fifos : f > fifo => s.bw[f] > 0
               /\ Total(s, fifo, bw) < 100

SetFifoBw(s, fifo, bw) ==
  [s EXCEPT !.bw[fifo] = bw,
            !.pct[fifo] = IF bw > 0 THEN Percent(bw, s.speed) ELSE @]

\* Mutant: a FIFO stays rate limited when its shaper is dropped.
SetFifoRlimitKept(s, fifo, bw) ==
  IF ~FitsFifo(s, fifo, bw) THEN s
  ELSE LET t == SetFifoBw(s, fifo, bw)
       IN [t EXCEPT !.en = IF bw > 0 THEN @ \cup {fifo} ELSE @ \ {fifo},
                    !.rate = @ \cup {fifo},
                    !.type = 2]

\* cpsw_set_fifo_rlimit: the shaper's bit goes off before, and on after, TX_IN_CTL
\* is written; without any shaper the FIFOs go back to priority mode, and the
\* speed is forgotten.
SetFifoRlimit(s, fifo, bw) ==
  IF ~FitsFifo(s, fifo, bw) THEN s
  ELSE LET t == SetFifoBw(s, fifo, bw)
           off == (IF bw = 0 THEN t.en \ {fifo} ELSE t.en) = {}
           kept == IF off THEN {} ELSE t.rate
       IN [t EXCEPT !.en = IF bw > 0 THEN @ \cup {fifo} ELSE @ \ {fifo},
                    !.rate = IF bw > 0 THEN kept \cup {fifo} ELSE kept \ {fifo},
                    !.type = IF off THEN (IF bw > 0 THEN 2 ELSE 0) ELSE @,
                    !.speed = IF off /\ bw = 0 THEN 0 ELSE @]

\* Mutant: the loop ends before the last FIFO.
CbsResumeOffByOne(s) ==
  LET again(t, f) == IF s.bw[f] > 0 THEN SetFifoRlimit(t, f, s.bw[f]) ELSE t
  IN again(again(s, 3), 2)

\* cpsw_cbs_resume, from the highest FIFO down; failures are ignored.
CbsResume(s) ==
  LET again(t, f) == IF s.bw[f] > 0 THEN SetFifoRlimit(t, f, s.bw[f]) ELSE t
  IN again(again(again(s, 3), 2), 1)

-----------------------------------------------------------------------------
\* cpsw_set_cbs.  A change of the link's speed is taken over; if the shaper is
\* refused, the old speed comes back, or 0 if the speed had not changed.
SetCbs(tc, bw) ==
  LET fifo == TcToFifo(tc, num_tc)
      known == IF phy > 0 THEN phy ELSE shp_cfg_speed
      prev == IF phy > 0 /\ shp_cfg_speed # phy THEN shp_cfg_speed ELSE 0
      s == [Shapers EXCEPT !.speed = known]
  IN /\ tc < num_tc \/ tc = 0
     /\ fifo # 0
     /\ bw > 0 \/ fifo_bw[fifo] > 0
     /\ known > 0
     /\ Store(IF FitsFifo(s, fifo, bw) THEN SetFifoRlimit(s, fifo, bw)
                                       ELSE [Shapers EXCEPT !.speed = prev])
     /\ UNCHANGED <<port, mapping>>

\* cpsw_set_mqprio: the offloaded map, or the default when hw is 0.  The classes
\* of the netdev are set with it (netdev_set_num_tc, netdev_reset_tc).
SetMqprio(n, map) ==
  /\ num_tc' = n /\ prio_tc' = map /\ mqprio_hw' = TRUE
  /\ tx_pri_map' = [p \in DOMAIN map |-> TcToFifo(map[p], n)]
  /\ UNCHANGED <<port, shaper>>

ResetMqprio ==
  /\ num_tc > 0
  /\ num_tc' = 0 /\ prio_tc' = <<>> /\ mqprio_hw' = FALSE
  /\ tx_pri_map' = Default
  /\ UNCHANGED <<port, shaper>>

\* cpsw_mqprio_resume.
MqprioResume ==
  tx_pri_map' = IF mqprio_hw THEN [p \in DOMAIN prio_tc |-> ShapersNum - prio_tc[p]]
                             ELSE Default

\* ndo_open: the first user resets the switch and clears PTYPE, every user sets
\* the default map of its port, and then cpsw_restore.
Open ==
  /\ ~up /\ up' = TRUE
  /\ Store(CbsResume(IF other THEN Shapers
                     ELSE [Shapers EXCEPT !.pct = Off, !.en = {}, !.rate = {}, !.type = 0]))
  /\ MqprioResume
  /\ UNCHANGED <<other, phy, num_tc, prio_tc, mqprio_hw>>

\* ndo_stop leaves the shapers alone; the PHY is disconnected.
Stop ==
  /\ up /\ up' = FALSE /\ phy' = 0
  /\ UNCHANGED <<other, shaper, mapping>>

\* The other netdev opens, alone in resetting the switch if it is the first.
OtherOpen ==
  /\ ~other /\ other' = TRUE
  /\ Store(IF up THEN Shapers
           ELSE [Shapers EXCEPT !.pct = Off, !.en = {}, !.rate = {}, !.type = 0])
  /\ UNCHANGED <<up, phy, mapping>>

OtherStop ==
  /\ other /\ other' = FALSE
  /\ UNCHANGED <<up, phy, shaper, mapping>>

\* The PHY reports a speed, or that the link is gone; the shapers are not touched.
AdjustLink(s) ==
  /\ up /\ phy' = s
  /\ UNCHANGED <<up, other, shaper, mapping>>

Next ==
  \/ \E tc \in 0 .. 3, bw \in Slopes \cup {0} : SetCbs(tc, bw)
  \/ \E m \in PrioMaps : SetMqprio(m[1], m[2])
  \/ ResetMqprio \/ Open \/ Stop \/ OtherOpen \/ OtherStop
  \/ \E s \in LinkSpeeds \cup {0} : AdjustLink(s)

Spec == Init /\ [][Next]_vars

-----------------------------------------------------------------------------
Shaped == {f \in Fifos : fifo_bw[f] > 0}

\* The state is well typed.
TypeOK ==
  /\ up \in BOOLEAN /\ other \in BOOLEAN /\ mqprio_hw \in BOOLEAN
  /\ phy \in LinkSpeeds \cup {0} /\ shp_cfg_speed \in LinkSpeeds \cup {0}
  /\ fifo_bw \in [Fifos -> Slopes \cup {0}] /\ send_pct \in [Fifos -> 0 .. 100]
  /\ shape_en \subseteq Fifos /\ rate_en \subseteq Fifos /\ queue_type \in {0, 2}

\* However the shares are set, changed, dropped and restored, at whatever speeds and
\* across resets by either netdev, the hardware shapes no FIFO that nobody asked
\* for: the enable bits, the rate limited FIFOs and the type of the queues agree and
\* stay within the requests, and the shaped FIFOs never get the whole bandwidth.
ShapersAgree ==
  /\ shape_en = rate_en /\ shape_en \subseteq Shaped
  /\ (queue_type = 2) = (shape_en # {})
  /\ Sum(send_pct, shape_en) < 100

\* What a reset took away comes back: an open that resets the switch turns every
\* requested shaper on again, provided that the speed is known, the order was kept
\* and the requests fit that speed together.
Restorable ==
  /\ shp_cfg_speed > 0
  /\ \A f \in Shaped : fifo_bw[f] <= shp_cfg_speed * 1000 /\ f .. ShapersNum \subseteq Shaped
  /\ Sum([f \in Fifos |-> Percent(fifo_bw[f], shp_cfg_speed)], Shaped) < 100

\* The map of the priorities comes back as well, if there is a class for every FIFO
\* (cpsw_mqprio_resume does not know that the last class belongs on FIFO 0).
RestoredOnOpen ==
  [][~up /\ up' =>
       /\ ~other /\ Restorable => shape_en' = Shaped
       /\ num_tc = ShapersNum + 1 =>
            tx_pri_map' = [p \in DOMAIN prio_tc |-> TcToFifo(prio_tc[p], num_tc)]]_vars
=============================================================================

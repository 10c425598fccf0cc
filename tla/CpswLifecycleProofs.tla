------------------------ MODULE CpswLifecycleProofs ------------------------
(***************************************************************************)
(* Proofs about CpswLifecycle: for every set of netdevs the users are      *)
(* counted, the shared hardware follows them, and the interrupts of an     *)
(* interface in use come back on.                                          *)
(***************************************************************************)
EXTENDS CpswLifecycle, FiniteSetTheorems, TLAPS

\* cpsw_resume ignores that an open fails.  The proofs are about the systems in
\* which none does while the system resumes; run lifecycle_resume has the others.
ResumeSucceeds == "resume" \notin Failures

-----------------------------------------------------------------------------
(* The inductive invariant.                                                *)

\* Where the operation in progress can be, and on which of the netdevs.
OpInOrder ==
  /\ rtnl.op = "none" => rtnl.n = NULL /\ rtnl.pc = "idle"
  /\ rtnl.op # "none" => rtnl.n \in Netdevs /\ rtnl.pc # "idle" /\ rtnl.n \notin rtnl.todo
  /\ rtnl.op = "open" => rtnl.pc # "stop" /\ rtnl.bulk # "suspend"
  /\ rtnl.op = "stop" => rtnl.pc \in {"stop", "rx", "tx", "hw", "end"} /\ rtnl.bulk # "resume"
  /\ rtnl.bulk = "resume" => rtnl.pc \in {"idle", "queues", "napi", "rxqs", "fill", "start", "intr"}
  /\ rtnl.bulk = "none" => rtnl.todo = {}
  /\ \A n \in rtnl.todo : up[n]
  /\ IF rtnl.bulk = "none" THEN rtnl.op # "none" => ~asleep
     ELSE asleep = (rtnl.bulk = "resume")

\* The netdev of the operation in progress.
Busy(n) == rtnl.op # "none" /\ rtnl.n = n

\* Which interfaces are open: the running ones, unless the system sleeps; in between,
\* those that suspend has yet to visit, or that resume has visited.
OpenFollowsUp ==
  /\ \A n \in Netdevs :
       ~Busy(n) =>
         open[n] = (up[n] /\ CASE rtnl.bulk = "none" -> ~asleep
                               [] rtnl.bulk = "suspend" -> n \in rtnl.todo
                               [] rtnl.bulk = "resume" -> n \notin rtnl.todo)
  /\ rtnl.op = "open" => ~open[rtnl.n] /\ up[rtnl.n]
  /\ rtnl.op = "stop" => open[rtnl.n] /\ up[rtnl.n] = (rtnl.bulk = "suspend")

\* The counts; an open in progress has its runtime PM reference already.
Accounts ==
  /\ usage = Cardinality(Users)
  /\ pm = usage + (IF rtnl.op = "open" THEN 1 ELSE 0)

\* The stop of the last user has begun to shut the hardware down.
LastStop ==
  /\ rtnl.op = "stop" /\ rtnl.pc \in {"rx", "tx", "hw", "end"}
  /\ Users = {rtnl.n}

\* Some interface uses the hardware, and its stop has not begun to shut it down.
InUse == Users # {} /\ ~LastStop

\* The shared hardware in every phase of an operation.
Phases ==
  /\ rtnl.pc \in {"napi", "rxqs", "fill", "rx", "tx", "hw"} => ~InUse
  /\ InUse \/ rtnl.pc = "intr" =>
       dma = "ACTIVE" /\ ring = RxNum /\ \A i \in Lines : line[i].napi # "off"
  /\ ~InUse =>
       /\ rtnl.pc \in {"idle", "queues", "napi"} =>
            dma = "IDLE" /\ \A i \in Lines : line[i].napi = "off"
       /\ rtnl.pc \in {"rxqs", "fill", "start"} =>
            dma = "IDLE" /\ \A i \in Lines : line[i].napi # "off"
       /\ rtnl.pc = "start" => ring = RxNum
       /\ rtnl.op = "open" /\ rtnl.pc \in {"err", "rx", "tx", "hw", "end"} => dma = "IDLE"
       /\ rtnl.op = "stop" /\ rtnl.pc \in {"rx", "tx", "hw"} => dma = "ACTIVE"
       /\ rtnl.op = "stop" /\ rtnl.pc = "end" => dma = "IDLE" /\ ring = 0
       /\ rtnl.pc \in {"tx", "hw", "end"} => line["rx"].napi = "off"
       /\ rtnl.pc \in {"hw", "end"} => line["tx"].napi = "off"

\* Once suspend has stopped the last of the running interfaces the ring is empty, so
\* that resume can fill it.
RingEmptied ==
  /\ asleep \/ rtnl.bulk = "suspend"
  /\ Users = {} /\ \E n \in Netdevs : up[n]
  /\ rtnl.pc \in {"idle", "queues", "napi", "rxqs", "fill"}
  => ring = 0

\* Of every line: who disables it flags it, and napi_disable is the operation's.
LineFlags ==
  \A i \in Lines :
    /\ line[i].off => line[i].depth > 0
    /\ line[i].dis => rtnl.pc = i

\* NAPI is enabled and not about to be disabled.
NapiOn == InUse \/ (rtnl.op = "open" /\ rtnl.pc \in {"rxqs", "fill", "start", "intr"})

\* Where netpoll does not call the handlers under the quirk, a line is disabled at most
\* once and with its flag;
Exact(l, q) ==
  /\ l.depth = IF l.off THEN 1 ELSE 0
  /\ l.off \/ l.tail = "irq" => q

\* a poll that will come, or is there,
Due(l) == l.napi \in {"sched", "done"}

\* will enable the line,
Reopens(l) == l.off => Due(l) \/ l.tail # "none"

\* and set the wrapper's bit, unless a masker will.
Enabled(l) == l.en \/ Due(l) \/ l.tail = "en"

LinesServed ==
  TRUE \notin Netpoll =>
    \A i \in Lines :
      /\ Exact(line[i], quirk)
      /\ NapiOn => Reopens(line[i])
      /\ InUse /\ (\A n \in Netdevs : mask[n] = "none") => Enabled(line[i])

\* Netpoll is used where it may be.
NetpollUsed == \A n \in Netdevs : mask[n] = "netpoll" => quirk \in Netpoll

IInv ==
  /\ TypeOK /\ OpInOrder /\ OpenFollowsUp /\ Accounts
  /\ Phases /\ RingEmptied /\ LineFlags /\ LinesServed /\ NetpollUsed
-----------------------------------------------------------------------------
(* What handlers and polls do to a line.                                   *)

\* What scheduling its NAPI does to an interrupt line.
LEMMA ScheduledLine ==
  ASSUME NEW l \in LineRecord
  PROVE  /\ Scheduled(l) \in LineRecord
         /\ Scheduled(l).en = l.en /\ Scheduled(l).depth = l.depth /\ Scheduled(l).off = l.off
         /\ Scheduled(l).dis = l.dis /\ Scheduled(l).tail = l.tail
         /\ Scheduled(l).napi = "off" <=> l.napi = "off"
         /\ ~l.dis /\ l.napi # "off" => Due(Scheduled(l))
BY DEF Scheduled, LineRecord, Due

\* What its handler does to it.
LEMMA HandledLine ==
  ASSUME TypeOK, NEW l \in LineRecord
  PROVE  /\ Handled(l) \in LineRecord
         /\ Handled(l).en = FALSE /\ Handled(l).dis = l.dis /\ Handled(l).tail = l.tail
         /\ IF quirk THEN Handled(l).off /\ Handled(l).depth = l.depth + 1
            ELSE Handled(l).off = l.off /\ Handled(l).depth = l.depth
         /\ Handled(l).napi = "off" <=> l.napi = "off"
         /\ ~l.dis /\ l.napi # "off" => Due(Handled(l))
<1>1. CASE quirk
  <2> DEFINE m == [l EXCEPT !.en = FALSE, !.off = TRUE, !.depth = @ + 1]
  <2>1. /\ m \in LineRecord /\ m.en = FALSE /\ m.dis = l.dis /\ m.tail = l.tail
        /\ m.off /\ m.depth = l.depth + 1 /\ m.napi = l.napi
    <3>1. l.depth + 1 \in Nat
      BY DEF LineRecord
    <3> QED BY <3>1 DEF LineRecord
  <2>2. Handled(l) = Scheduled(m)
    BY <1>1 DEF Handled
  <2> HIDE DEF m
  <2> QED BY <1>1, <2>1, <2>2, ScheduledLine
<1>2. CASE ~quirk
  <2> DEFINE m == [l EXCEPT !.en = FALSE]
  <2>1. /\ m \in LineRecord /\ m.en = FALSE /\ m.dis = l.dis /\ m.tail = l.tail
        /\ m.off = l.off /\ m.depth = l.depth /\ m.napi = l.napi
    BY DEF LineRecord
  <2>2. Handled(l) = Scheduled(m)
    BY <1>2 DEF Handled
  <2> HIDE DEF m
  <2> QED BY <1>2, <2>1, <2>2, ScheduledLine
<1> QED BY <1>1, <1>2

\* What enabling it again does to it.
LEMMA ReenabledLine ==
  ASSUME NEW l \in LineRecord, l.off => l.depth > 0
  PROVE  /\ Reenabled(l) \in LineRecord /\ Reenabled(l).off = FALSE
         /\ Reenabled(l).depth = l.depth - (IF l.off THEN 1 ELSE 0)
         /\ Reenabled(l).en = l.en /\ Reenabled(l).dis = l.dis /\ Reenabled(l).napi = l.napi
         /\ Reenabled(l).tail = l.tail
<1>1. l.off \in BOOLEAN /\ l.depth \in Nat
  BY DEF LineRecord
<1>2. CASE l.off
  <2>1. l.depth - 1 \in Nat
    BY <1>1, <1>2
  <2> QED BY <1>2, <2>1 DEF Reenabled, LineRecord
<1>3. CASE ~l.off
  BY <1>1, <1>3 DEF Reenabled
<1> QED BY <1>2, <1>3

\* What the completion of its poll does to it.
LEMMA CompletedLine ==
  ASSUME NEW l \in LineRecord, Due(l)
  PROVE  /\ Completed(l) \in LineRecord /\ Completed(l).napi # "off"
         /\ Completed(l).en = l.en /\ Completed(l).depth = l.depth /\ Completed(l).off = l.off
         /\ Completed(l).dis = l.dis /\ Completed(l).tail = l.tail
BY DEF Completed, LineRecord, Due
-----------------------------------------------------------------------------
(* Steps of the hardware, of handlers, polls and maskers.                  *)

\* After the probe no netdev is open and all is off.
LEMMA InitIInv == ASSUME Init PROVE IInv
<1>1. Users = {} /\ Cardinality(Users) = 0
  BY FS_EmptySet DEF Init, Users
<1>2. Cardinality(Netdevs) \in Nat /\ 0 \in 0 .. Cardinality(Netdevs) /\ 0 \in 0 .. RxNum
  BY ConstantsAssumption, FS_CardinalityType
<1>3. TypeOK
  BY <1>2 DEF Init, TypeOK, LineRecord, RtnlRecord, NoOp
<1>4. OpInOrder /\ OpenFollowsUp
  BY DEF Init, NoOp, OpInOrder, OpenFollowsUp, Busy
<1>5. Accounts
  BY <1>1 DEF Init, NoOp, Accounts
<1>6. Phases /\ RingEmptied /\ LineFlags /\ LinesServed /\ NetpollUsed
  BY <1>1 DEF Init, NoOp, Phases, RingEmptied, LineFlags, LinesServed, InUse, NapiOn, Exact,
              Reopens, Enabled, NetpollUsed
<1> QED BY <1>3, <1>4, <1>5, <1>6 DEF IInv

\* While NAPI is on nobody waits to disable it.
LEMMA NapiOnLine ==
  ASSUME IInv, NapiOn
  PROVE  \A i \in Lines : line[i].napi # "off" /\ ~line[i].dis
<1>1. rtnl.pc \notin {"rx", "tx"}
  BY DEF IInv, NapiOn, Phases
<1>2. \A i \in Lines : ~line[i].dis
  BY <1>1 DEF IInv, LineFlags, Lines
<1>3. \A i \in Lines : line[i].napi # "off"
  BY DEF IInv, NapiOn, Phases
<1> QED BY <1>2, <1>3

\* A step that touches only the lines, and neither turns NAPI on or off nor waits for it.
LEMMA OnlyLines ==
  ASSUME IInv, UNCHANGED <<quirk, asleep, up, open, usage, pm, dma, ring, rtnl>>,
         line' \in [Lines -> LineRecord],
         mask' \in [Netdevs -> {"none", "timeout", "netpoll", "polled"}],
         \A i \in Lines : /\ line'[i].dis = line[i].dis
                          /\ line'[i].napi = "off" <=> line[i].napi = "off"
                          /\ line'[i].off => line'[i].depth > 0
  PROVE  /\ TypeOK' /\ OpInOrder' /\ OpenFollowsUp' /\ Accounts' /\ Phases' /\ RingEmptied'
         /\ LineFlags' /\ (InUse' <=> InUse) /\ (NapiOn' <=> NapiOn)
<1>1. TypeOK'
  BY DEF IInv, TypeOK
<1>2. Users' = Users
  BY DEF Users
<1>3. (InUse' <=> InUse) /\ (NapiOn' <=> NapiOn)
  BY <1>2 DEF InUse, NapiOn, LastStop
<1>4. OpInOrder' /\ OpenFollowsUp' /\ Accounts'
  BY <1>2 DEF IInv, OpInOrder, OpenFollowsUp, Accounts, Busy
<1>5. Phases'
  <2>1. "rx" \in Lines /\ "tx" \in Lines
    BY DEF Lines
  <2> QED BY <1>3, <2>1 DEF IInv, Phases
<1>6. RingEmptied' /\ LineFlags'
  BY <1>2 DEF IInv, RingEmptied, LineFlags
<1> QED BY <1>1, <1>3, <1>4, <1>5, <1>6

\* The same of a step of one line.
LEMMA OneLine ==
  ASSUME IInv, NEW i \in Lines, NEW l \in LineRecord, line' = [line EXCEPT ![i] = l], OnlyLine,
         l.dis = line[i].dis, l.napi = "off" <=> line[i].napi = "off",
         l.off => l.depth > 0,
         TRUE \notin Netpoll =>
           /\ Exact(line[i], quirk) => Exact(l, quirk)
           /\ NapiOn /\ Exact(line[i], quirk) /\ Reopens(line[i]) => Reopens(l)
           /\ InUse /\ Enabled(line[i]) => Enabled(l)
  PROVE  IInv'
<1>1. /\ line \in [Lines -> LineRecord] /\ line' \in [Lines -> LineRecord]
      /\ line'[i] = l /\ \A j \in Lines : j # i => line'[j] = line[j]
  BY DEF IInv, TypeOK
<1>2. /\ UNCHANGED <<quirk, asleep, up, open, usage, pm, dma, ring, rtnl>> /\ mask' = mask
  BY DEF OnlyLine
<1>3. \A j \in Lines : /\ line'[j].dis = line[j].dis
                       /\ line'[j].napi = "off" <=> line[j].napi = "off"
                       /\ line'[j].off => line'[j].depth > 0
  BY <1>1 DEF IInv, LineFlags
<1>4. mask' \in [Netdevs -> {"none", "timeout", "netpoll", "polled"}]
  BY <1>2 DEF IInv, TypeOK
<1>5. /\ TypeOK' /\ OpInOrder' /\ OpenFollowsUp' /\ Accounts' /\ Phases' /\ RingEmptied'
      /\ LineFlags' /\ (InUse' <=> InUse) /\ (NapiOn' <=> NapiOn)
  BY <1>1, <1>2, <1>3, <1>4, OnlyLines
<1>6. LinesServed'
  <2>1. SUFFICES ASSUME TRUE \notin Netpoll, NEW j \in Lines
                 PROVE  /\ Exact(line'[j], quirk')
                        /\ NapiOn' => Reopens(line'[j])
                        /\ InUse' /\ (\A n \in Netdevs : mask'[n] = "none") => Enabled(line'[j])
    BY DEF LinesServed, Exact, Reopens, Enabled, Due
  <2>2. /\ Exact(line[j], quirk) /\ (NapiOn => Reopens(line[j]))
        /\ InUse /\ (\A n \in Netdevs : mask[n] = "none") => Enabled(line[j])
    BY <2>1 DEF IInv, LinesServed
  <2>3. Exact(line'[j], quirk')
    BY <1>1, <1>2, <2>1, <2>2
  <2> QED BY <1>1, <1>2, <1>5, <2>1, <2>2, <2>3
<1>7. NetpollUsed'
  BY <1>2 DEF IInv, NetpollUsed
<1> QED BY <1>5, <1>6, <1>7 DEF IInv
\* What is known of a line before a step.
LEMMA LineFacts ==
  ASSUME IInv, NEW i \in Lines
  PROVE  /\ line[i] \in LineRecord /\ line \in [Lines -> LineRecord]
         /\ line[i].off => line[i].depth > 0
         /\ line[i].depth \in Nat /\ line[i].off \in BOOLEAN /\ line[i].en \in BOOLEAN
BY DEF IInv, TypeOK, LineFlags, LineRecord

\* The hardware raises an interrupt.
LEMMA HwWorkIInv == ASSUME IInv, NEW i \in Lines, HwWork(i) PROVE IInv'
<1> DEFINE l == [line[i] EXCEPT !.work = TRUE]
<1>1. line' = [line EXCEPT ![i] = l] /\ OnlyLine
  BY DEF HwWork
<1>2. /\ l \in LineRecord /\ l.dis = line[i].dis /\ l.napi = line[i].napi /\ l.off = line[i].off
      /\ l.depth = line[i].depth /\ l.tail = line[i].tail /\ l.en = line[i].en
  BY LineFacts DEF LineRecord
<1>3. (Exact(line[i], quirk) => Exact(l, quirk)) /\ (Reopens(line[i]) => Reopens(l))
      /\ (Enabled(line[i]) => Enabled(l))
  BY <1>2 DEF Exact, Reopens, Enabled, Due
<1>4. l.off => l.depth > 0
  BY <1>2, LineFacts
<1> HIDE DEF l
<1> QED BY <1>1, <1>2, <1>3, <1>4, OneLine

\* The handler disables an enabled line, and a poll is due.
LEMMA IrqIInv == ASSUME IInv, NEW i \in Lines, Irq(i) PROVE IInv'
<1> DEFINE l == Handled(line[i])
<1>1. line' = [line EXCEPT ![i] = l] /\ OnlyLine /\ line[i].depth = 0
  BY LineFacts DEF Irq
<1>2. /\ l \in LineRecord /\ l.en = FALSE /\ l.dis = line[i].dis /\ l.tail = line[i].tail
      /\ IF quirk THEN l.off /\ l.depth = line[i].depth + 1
         ELSE l.off = line[i].off /\ l.depth = line[i].depth
      /\ l.napi = "off" <=> line[i].napi = "off"
      /\ ~line[i].dis /\ line[i].napi # "off" => Due(l)
  BY LineFacts, HandledLine DEF IInv
<1> HIDE DEF l
<1>3. l.off => l.depth > 0
  <2>1. CASE quirk
    BY <1>1, <1>2, <2>1
  <2>2. CASE ~quirk
    BY <1>2, <2>2, LineFacts
  <2> QED BY <2>1, <2>2
<1>4. Exact(line[i], quirk) => Exact(l, quirk)
  BY <1>1, <1>2, LineFacts DEF Exact
<1>5. NapiOn => Reopens(l)
  BY <1>2, NapiOnLine DEF Reopens
<1>6. InUse => Enabled(l)
  BY <1>2, NapiOnLine DEF Enabled, NapiOn
<1> QED BY <1>1, <1>2, <1>3, <1>4, <1>5, <1>6, OneLine

\* NAPI polls and has more to do.
LEMMA PollAllIInv == ASSUME IInv, NEW i \in Lines, PollAll(i) PROVE IInv'
<1> DEFINE l == [line[i] EXCEPT !.napi = "done", !.work = FALSE]
<1>1. line' = [line EXCEPT ![i] = l] /\ OnlyLine /\ line[i].napi = "sched"
  <2>1. line' = [line EXCEPT ![i].napi = "done", ![i].work = FALSE]
    BY DEF PollAll
  <2> QED BY <2>1, LineFacts DEF PollAll, LineRecord
<1>2. /\ l \in LineRecord /\ l.dis = line[i].dis /\ l.napi = "done" /\ l.off = line[i].off
      /\ l.depth = line[i].depth /\ l.tail = line[i].tail /\ l.en = line[i].en
  BY LineFacts DEF LineRecord
<1> HIDE DEF l
<1>3. (Exact(line[i], quirk) => Exact(l, quirk)) /\ Reopens(l) /\ Enabled(l)
  BY <1>2 DEF Exact, Reopens, Enabled, Due
<1>4. l.off => l.depth > 0
  BY <1>2, LineFacts
<1> QED BY <1>1, <1>2, <1>3, <1>4, OneLine

\* Only while the operation disables NAPI.
LEMMA PollBudgetIInv == ASSUME IInv, NEW i \in Lines, PollBudget(i) PROVE IInv'
<1> DEFINE l == Completed(line[i])
<1>1. line' = [line EXCEPT ![i] = l] /\ OnlyLine /\ line[i].napi = "sched" /\ line[i].dis
  BY LineFacts DEF PollBudget
<1>2. /\ l \in LineRecord /\ l.dis = line[i].dis /\ l.napi # "off" /\ l.off = line[i].off
      /\ l.depth = line[i].depth /\ l.tail = line[i].tail /\ l.en = line[i].en
  BY <1>1, LineFacts, CompletedLine DEF Due
<1> HIDE DEF l
<1>3. Exact(line[i], quirk) => Exact(l, quirk)
  BY <1>2 DEF Exact
<1>4. ~NapiOn /\ ~InUse
  BY <1>1, NapiOnLine DEF NapiOn
<1>5. l.off => l.depth > 0
  BY <1>2, LineFacts
<1> QED BY <1>1, <1>2, <1>3, <1>4, <1>5, OneLine

\* NAPI polls and is done.
LEMMA PollCompleteIInv == ASSUME IInv, NEW i \in Lines, PollComplete(i) PROVE IInv'
<1> DEFINE m == Completed(line[i])
           l == [m EXCEPT !.tail = "en"]
<1>1. line' = [line EXCEPT ![i] = l] /\ OnlyLine /\ line[i].napi = "done"
  BY LineFacts DEF PollComplete
<1>2. /\ m \in LineRecord /\ m.dis = line[i].dis /\ m.napi # "off" /\ m.off = line[i].off
      /\ m.depth = line[i].depth /\ m.en = line[i].en
  BY <1>1, LineFacts, CompletedLine DEF Due
<1> HIDE DEF m
<1>3. /\ l \in LineRecord /\ l.dis = line[i].dis /\ l.napi # "off" /\ l.off = line[i].off
      /\ l.depth = line[i].depth /\ l.tail = "en"
  BY <1>2 DEF LineRecord
<1> HIDE DEF l
<1>4. (Exact(line[i], quirk) => Exact(l, quirk)) /\ Reopens(l) /\ Enabled(l)
  BY <1>3 DEF Exact, Reopens, Enabled, Due
<1>5. l.off => l.depth > 0
  BY <1>3, LineFacts
<1> QED BY <1>1, <1>3, <1>4, <1>5, OneLine

\* Then the poll writes the interrupt enable of its line,
LEMMA PollTailEnIInv == ASSUME IInv, NEW i \in Lines, PollTailEn(i) PROVE IInv'
<1> DEFINE l == [line[i] EXCEPT !.en = TRUE, !.tail = IF quirk THEN "irq" ELSE "none"]
<1>1. line' = [line EXCEPT ![i] = l] /\ OnlyLine /\ line[i].tail = "en"
  <2>1. line' = [line EXCEPT ![i].en = TRUE, ![i].tail = IF quirk THEN "irq" ELSE "none"]
    BY DEF PollTailEn
  <2> QED BY <2>1, LineFacts DEF PollTailEn, LineRecord
<1>2. /\ l \in LineRecord /\ l.dis = line[i].dis /\ l.napi = line[i].napi /\ l.off = line[i].off
      /\ l.depth = line[i].depth /\ l.tail = (IF quirk THEN "irq" ELSE "none") /\ l.en = TRUE
  BY LineFacts DEF LineRecord
<1> HIDE DEF l
<1>3. (Exact(line[i], quirk) => Exact(l, quirk)) /\ Enabled(l)
  BY <1>2 DEF Exact, Enabled
<1>4. Exact(line[i], quirk) => Reopens(l)
  BY <1>2 DEF Exact, Reopens
<1>5. l.off => l.depth > 0
  BY <1>2, LineFacts
<1> QED BY <1>1, <1>2, <1>3, <1>4, <1>5, OneLine

\* and enables the line again.
LEMMA PollTailIrqIInv == ASSUME IInv, NEW i \in Lines, PollTailIrq(i) PROVE IInv'
<1> DEFINE m == Reenabled(line[i])
           l == [m EXCEPT !.tail = "none"]
<1>1. line' = [line EXCEPT ![i] = l] /\ OnlyLine /\ line[i].tail = "irq"
  BY LineFacts DEF PollTailIrq
<1>2. /\ m \in LineRecord /\ m.off = FALSE /\ m.dis = line[i].dis /\ m.napi = line[i].napi
      /\ m.depth = line[i].depth - (IF line[i].off THEN 1 ELSE 0) /\ m.en = line[i].en
  BY LineFacts, ReenabledLine
<1> HIDE DEF m
<1>3. /\ l \in LineRecord /\ l.off = FALSE /\ l.dis = line[i].dis /\ l.napi = line[i].napi
      /\ l.depth = line[i].depth - (IF line[i].off THEN 1 ELSE 0) /\ l.en = line[i].en
      /\ l.tail = "none"
  BY <1>2 DEF LineRecord
<1> HIDE DEF l
<1>4. Exact(line[i], quirk) => Exact(l, quirk)
  <2>1. SUFFICES ASSUME Exact(line[i], quirk) PROVE l.depth = 0
    BY <1>3 DEF Exact
  <2> QED BY <1>3, <2>1, LineFacts DEF Exact
<1>5. Reopens(l) /\ (Enabled(line[i]) => Enabled(l))
  BY <1>1, <1>3 DEF Reopens, Enabled, Due
<1> QED BY <1>1, <1>3, <1>4, <1>5, OneLine

\* The maskers write the wrapper's bits of both lines.
LEMMA MaskIInv ==
  ASSUME IInv, NEW n \in Netdevs, NEW to \in {"none", "timeout", "polled", "netpoll"},
         OnlyMask(n, to), line' \in [Lines -> LineRecord],
         \A i \in Lines : /\ line'[i].dis = line[i].dis /\ line'[i].tail = line[i].tail
                          /\ line'[i].napi = "off" <=> line[i].napi = "off"
                          /\ line'[i].off => line'[i].depth > 0,
         to = "none" => \A i \in Lines : line'[i].en,
         to = "netpoll" => quirk \in Netpoll,
         TRUE \notin Netpoll =>
           \A i \in Lines : /\ line'[i].off = line[i].off /\ line'[i].depth = line[i].depth
                            /\ NapiOn => (Due(line[i]) => Due(line'[i]))
  PROVE  IInv'
<1>1. /\ mask' = [mask EXCEPT ![n] = to]
      /\ UNCHANGED <<quirk, asleep, up, open, usage, pm, dma, ring, rtnl>>
  BY DEF OnlyMask
<1>2. /\ mask' \in [Netdevs -> {"none", "timeout", "netpoll", "polled"}] /\ mask'[n] = to
  BY <1>1 DEF IInv, TypeOK
<1>3. /\ TypeOK' /\ OpInOrder' /\ OpenFollowsUp' /\ Accounts' /\ Phases' /\ RingEmptied'
      /\ LineFlags' /\ (InUse' <=> InUse) /\ (NapiOn' <=> NapiOn)
  BY <1>1, <1>2, OnlyLines
<1>4. LinesServed'
  <2>1. SUFFICES ASSUME TRUE \notin Netpoll, NEW i \in Lines
                 PROVE  /\ Exact(line'[i], quirk')
                        /\ NapiOn' => Reopens(line'[i])
                        /\ InUse' /\ (\A k \in Netdevs : mask'[k] = "none") => Enabled(line'[i])
    BY DEF LinesServed, Exact, Reopens, Enabled, Due
  <2>2. Exact(line[i], quirk) /\ (NapiOn => Reopens(line[i]))
    BY <2>1 DEF IInv, LinesServed
  <2>3. Exact(line'[i], quirk')
    BY <1>1, <2>1, <2>2 DEF Exact
  <2>4. NapiOn' => Reopens(line'[i])
    BY <1>3, <2>1, <2>2 DEF Reopens
  <2>5. (\A k \in Netdevs : mask'[k] = "none") => Enabled(line'[i])
    BY <1>2 DEF Enabled
  <2> QED BY <2>3, <2>4, <2>5
<1>5. NetpollUsed'
  BY <1>1, <1>2 DEF IInv, NetpollUsed, TypeOK
<1> QED BY <1>3, <1>4, <1>5 DEF IInv

\* The timeouts and netpoll mask the interrupts and unmask them.
LEMMA MaskersIInv ==
  ASSUME IInv, NEW n \in Netdevs, IntrDisable(n) \/ PollController(n) \/ IntrEnable(n)
  PROVE  IInv'
<1>1. ASSUME NEW b \in BOOLEAN, NEW i \in Lines
      PROVE  LET l == [line[i] EXCEPT !.en = b]
             IN /\ l \in LineRecord /\ l.en = b /\ l.dis = line[i].dis /\ l.tail = line[i].tail
                /\ l.napi = line[i].napi /\ l.off = line[i].off /\ l.depth = line[i].depth
  BY LineFacts DEF LineRecord
<1>2. ASSUME NEW b \in BOOLEAN, line' = [i \in Lines |-> [line[i] EXCEPT !.en = b]],
             NEW to \in {"none", "timeout", "polled", "netpoll"}, OnlyMask(n, to),
             to = "none" => b, to = "netpoll" => quirk \in Netpoll
      PROVE  IInv'
  <2>1. /\ line' \in [Lines -> LineRecord]
        /\ \A i \in Lines : /\ line'[i].en = b /\ line'[i].dis = line[i].dis
                            /\ line'[i].tail = line[i].tail /\ line'[i].napi = line[i].napi
                            /\ line'[i].off = line[i].off /\ line'[i].depth = line[i].depth
    BY <1>1, <1>2, ZenonT(30)
  <2>2. \A i \in Lines : line'[i].off => line'[i].depth > 0
    BY <2>1, LineFacts
  <2> QED BY <1>2, <2>1, <2>2, MaskIInv DEF Due
<1>3. CASE IntrDisable(n)
  BY <1>2, <1>3 DEF IntrDisable
<1>4. CASE IntrEnable(n)
  BY <1>2, <1>4 DEF IntrEnable
<1>5. CASE PollController(n)
  <2>1. /\ line' = [i \in Lines |-> Handled(line[i])] /\ OnlyMask(n, "polled")
        /\ mask[n] = "netpoll"
    BY <1>5 DEF PollController
  <2>2. ASSUME NEW i \in Lines
        PROVE  LET l == Handled(line[i])
               IN /\ l \in LineRecord /\ l.dis = line[i].dis /\ l.tail = line[i].tail
                  /\ l.napi = "off" <=> line[i].napi = "off"
                  /\ IF quirk THEN l.off /\ l.depth = line[i].depth + 1
                     ELSE l.off = line[i].off /\ l.depth = line[i].depth
                  /\ ~line[i].dis /\ line[i].napi # "off" => Due(l)
    BY LineFacts, HandledLine DEF IInv
  <2>3. \A i \in Lines : Handled(line[i]).off => Handled(line[i]).depth > 0
    BY <2>2, LineFacts
  <2>4. TRUE \notin Netpoll => ~quirk
    BY <2>1 DEF IInv, NetpollUsed, TypeOK
  <2>5. /\ line' \in [Lines -> LineRecord]
        /\ \A i \in Lines : line'[i] = Handled(line[i])
    BY <2>1, <2>2
  <2>6. TRUE \notin Netpoll =>
          \A i \in Lines : /\ line'[i].off = line[i].off /\ line'[i].depth = line[i].depth
                           /\ NapiOn => (Due(line[i]) => Due(line'[i]))
    BY <2>2, <2>4, <2>5, NapiOnLine
  <2> QED BY <2>1, <2>2, <2>3, <2>5, <2>6, MaskIInv
<1> QED BY <1>3, <1>4, <1>5
-----------------------------------------------------------------------------
(* Steps of an operation in progress.                                      *)

\* Counting users.
LEMMA UsersCounted ==
  ASSUME IInv
  PROVE  /\ IsFiniteSet(Users) /\ usage = Cardinality(Users) /\ usage \in Nat
         /\ usage = 0 <=> Users = {}
         /\ \A n \in Users : usage <= 1 => Users = {n}
         /\ Cardinality(Netdevs) \in Nat /\ usage <= Cardinality(Netdevs)
<1>1. IsFiniteSet(Netdevs) /\ Users \subseteq Netdevs
  BY ConstantsAssumption DEF Users
<1>2. IsFiniteSet(Users) /\ Cardinality(Users) <= Cardinality(Netdevs)
  BY <1>1, FS_Subset
<1>3. usage = Cardinality(Users) /\ usage \in Nat /\ Cardinality(Netdevs) \in Nat
  BY <1>1, <1>2, FS_CardinalityType DEF IInv, Accounts
<1>4. usage = 0 <=> Users = {}
  BY <1>2, <1>3, FS_EmptySet
<1>5. ASSUME NEW n \in Users, usage <= 1 PROVE Users = {n}
  <2>1. usage = 1
    BY <1>3, <1>4, <1>5
  <2>2. PICK m : Users = {m}
    BY <1>2, <1>3, <2>1, FS_Singleton
  <2> QED BY <2>2
<1> QED BY <1>2, <1>3, <1>4, <1>5

\* What the holder of the rtnl lock may be doing.
LEMMA RtnlFacts ==
  ASSUME IInv
  PROVE  /\ rtnl \in RtnlRecord /\ rtnl.op \in {"none", "open", "stop"}
         /\ rtnl.n \in Netdevs \cup {NULL} /\ rtnl.bulk \in {"none", "suspend", "resume"}
         /\ rtnl.todo \in SUBSET Netdevs /\ NULL \notin Netdevs
         /\ rtnl = NoOp <=> rtnl.op = "none" /\ rtnl.bulk = "none"
         /\ rtnl.pc # "idle" <=> rtnl.op # "none"
         /\ rtnl.pc = "idle" => ~LastStop /\ (InUse <=> Users # {})
<1>1. /\ rtnl \in RtnlRecord /\ rtnl.op \in {"none", "open", "stop"}
      /\ rtnl.n \in Netdevs \cup {NULL} /\ rtnl.bulk \in {"none", "suspend", "resume"}
      /\ rtnl.todo \in SUBSET Netdevs
  BY DEF IInv, TypeOK, RtnlRecord
<1>2. NULL \notin Netdevs
  BY ConstantsAssumption
<1>3. rtnl = NoOp <=> rtnl.op = "none" /\ rtnl.bulk = "none"
  <2>1. SUFFICES ASSUME rtnl.op = "none", rtnl.bulk = "none" PROVE rtnl = NoOp
    BY DEF NoOp
  <2>2. rtnl.n = NULL /\ rtnl.pc = "idle" /\ rtnl.todo = {}
    BY <2>1 DEF IInv, OpInOrder
  <2> QED BY <1>1, <2>1, <2>2 DEF NoOp, RtnlRecord
<1>4. rtnl.pc # "idle" <=> rtnl.op # "none"
  BY DEF IInv, OpInOrder
<1>5. rtnl.pc = "idle" => ~LastStop /\ (InUse <=> Users # {})
  BY DEF LastStop, InUse
<1> QED BY <1>1, <1>2, <1>3, <1>4, <1>5

\* A step of the operation that leaves the accounts alone.
LEMMA Continues ==
  ASSUME NEW p \in {"queues", "napi", "rxqs", "fill", "start", "intr", "err",
                    "stop", "rx", "tx", "hw", "end"},
         IInv, Goto(p), UNCHANGED <<quirk, asleep, up, open, usage, pm, mask>>,
         rtnl.op # "none", rtnl.op = "open" => p # "stop",
         rtnl.op = "stop" => p \in {"stop", "rx", "tx", "hw", "end"},
         rtnl.bulk = "resume" => p \in {"queues", "napi", "rxqs", "fill", "start", "intr"},
         dma' \in {"IDLE", "ACTIVE"}, ring' \in 0 .. RxNum, line' \in [Lines -> LineRecord]
  PROVE  /\ TypeOK' /\ OpInOrder' /\ OpenFollowsUp' /\ Accounts' /\ NetpollUsed'
         /\ Users' = Users /\ rtnl'.pc = p /\ rtnl'.op = rtnl.op /\ rtnl'.n = rtnl.n
         /\ rtnl'.bulk = rtnl.bulk
<1>1. /\ rtnl' \in RtnlRecord /\ rtnl'.pc = p /\ rtnl'.op = rtnl.op /\ rtnl'.n = rtnl.n
      /\ rtnl'.bulk = rtnl.bulk /\ rtnl'.todo = rtnl.todo
  BY RtnlFacts DEF Goto, RtnlRecord
<1>2. TypeOK'
  BY <1>1 DEF IInv, TypeOK
<1>3. Users' = Users
  BY DEF Users
<1>4. OpInOrder' /\ OpenFollowsUp'
  BY <1>1 DEF IInv, OpInOrder, OpenFollowsUp, Busy
<1>5. Accounts' /\ NetpollUsed'
  BY <1>1, <1>3 DEF IInv, Accounts, NetpollUsed
<1> QED BY <1>1, <1>2, <1>3, <1>4, <1>5

\* Lines that a step leaves alone are served as before.
LEMMA LinesUntouched ==
  ASSUME IInv, UNCHANGED <<line, quirk, mask>>, rtnl.pc \notin Lines,
         NapiOn' => NapiOn, InUse' => InUse
  PROVE  LineFlags' /\ LinesServed' /\ NetpollUsed'
<1>1. LineFlags'
  BY DEF IInv, LineFlags
<1>2. LinesServed'
  BY DEF IInv, LinesServed
<1>3. NetpollUsed'
  BY DEF IInv, NetpollUsed
<1> QED BY <1>1, <1>2, <1>3

\* An open sets the queues, or fails there.
LEMMA OpenQueuesIInv == ASSUME ResumeSucceeds, IInv, OpenQueues PROVE IInv'
<1>1. /\ rtnl.pc = "queues" /\ UNCHANGED <<quirk, asleep, up, open, usage, pm, dma, ring, line, mask>>
      /\ rtnl.op = "open"
  BY RtnlFacts DEF IInv, OpInOrder, OpenQueues, At
<1>2. PICK p \in {"napi", "start", "err"} :
        /\ Goto(p)
        /\ p = "napi" => Users = {}
        /\ p = "start" => Users # {}
        /\ p = "err" => rtnl.bulk = "none"
  BY <1>1, UsersCounted DEF OpenQueues, MayFail, ResumeSucceeds
<1>3. dma' \in {"IDLE", "ACTIVE"} /\ ring' \in 0 .. RxNum /\ line' \in [Lines -> LineRecord]
  BY <1>1 DEF IInv, TypeOK
<1>4. /\ TypeOK' /\ OpInOrder' /\ OpenFollowsUp' /\ Accounts'
      /\ Users' = Users /\ rtnl'.pc = p /\ rtnl'.op = "open" /\ rtnl'.bulk = rtnl.bulk
  <2>1. /\ rtnl.op # "none" /\ p # "stop" /\ rtnl.op # "stop"
        /\ p \in {"queues", "napi", "rxqs", "fill", "start", "intr", "err",
                   "stop", "rx", "tx", "hw", "end"}
        /\ rtnl.bulk = "resume" => p \in {"queues", "napi", "rxqs", "fill", "start", "intr"}
    BY <1>1, <1>2
  <2>2. Goto(p) /\ UNCHANGED <<quirk, asleep, up, open, usage, pm, mask>>
    BY <1>1, <1>2
  <2> QED BY <1>1, <1>3, <2>1, <2>2, Continues
<1>5. /\ InUse <=> Users # {}
      /\ InUse' <=> Users # {}
  BY <1>1, <1>4 DEF InUse, LastStop
<1>6. Phases'
  <2>1. CASE p = "napi"
    BY <1>1, <1>2, <1>4, <1>5, <2>1 DEF IInv, Phases
  <2>2. CASE p = "start"
    BY <1>1, <1>2, <1>4, <1>5, <2>2 DEF IInv, Phases
  <2>3. CASE p = "err"
    BY <1>1, <1>2, <1>4, <1>5, <2>3 DEF IInv, Phases
  <2> QED BY <2>1, <2>2, <2>3
<1>7. RingEmptied'
  BY <1>1, <1>2, <1>4 DEF IInv, RingEmptied
<1>8. NapiOn' => NapiOn
  BY <1>1, <1>2, <1>4, <1>5 DEF NapiOn
<1>9. LineFlags' /\ LinesServed' /\ NetpollUsed'
  BY <1>1, <1>5, <1>8, LinesUntouched DEF Lines
<1> QED BY <1>4, <1>6, <1>7, <1>9 DEF IInv
\* NAPI is turned on, and every line that was left disabled is enabled.
LEMMA OpenNapiIInv == ASSUME IInv, OpenNapi PROVE IInv'
<1>1. /\ rtnl.pc = "napi" /\ UNCHANGED <<quirk, asleep, up, open, usage, pm, dma, ring, mask>>
      /\ Goto("rxqs") /\ rtnl.op = "open"
      /\ \A i \in Lines : line[i].tail = "none"
      /\ line' = [i \in Lines |-> [Reenabled(line[i]) EXCEPT !.napi = "idle"]]
  BY RtnlFacts DEF IInv, OpInOrder, OpenNapi, At
<1>2. ASSUME NEW i \in Lines
      PROVE  /\ line'[i] \in LineRecord /\ line'[i].napi = "idle" /\ line'[i].off = FALSE
             /\ line'[i].depth = line[i].depth - (IF line[i].off THEN 1 ELSE 0)
             /\ line'[i].tail = "none" /\ line'[i].dis = line[i].dis
  <2> DEFINE m == Reenabled(line[i])
  <2>1. /\ m \in LineRecord /\ m.off = FALSE /\ m.dis = line[i].dis
        /\ m.depth = line[i].depth - (IF line[i].off THEN 1 ELSE 0) /\ m.tail = line[i].tail
    BY LineFacts, ReenabledLine
  <2>2. line'[i] = [m EXCEPT !.napi = "idle"]
    BY <1>1
  <2> HIDE DEF m
  <2> QED BY <1>1, <2>1, <2>2 DEF LineRecord
<1>3. dma' \in {"IDLE", "ACTIVE"} /\ ring' \in 0 .. RxNum /\ line' \in [Lines -> LineRecord]
  BY <1>1, <1>2 DEF IInv, TypeOK
<1>4. /\ TypeOK' /\ OpInOrder' /\ OpenFollowsUp' /\ Accounts' /\ NetpollUsed'
      /\ Users' = Users /\ rtnl'.pc = "rxqs" /\ rtnl'.op = "open" /\ rtnl'.bulk = rtnl.bulk
  <2>1. UNCHANGED <<quirk, asleep, up, open, usage, pm, mask>> /\ rtnl.op # "none"
    BY <1>1
  <2> QED BY <1>1, <1>3, <2>1, Continues
<1>5. ~InUse /\ ~InUse' /\ Users = {}
  BY <1>1, <1>4 DEF IInv, Phases, InUse, LastStop
<1>6. Phases'
  BY <1>1, <1>2, <1>4, <1>5 DEF IInv, Phases
<1>7. RingEmptied'
  BY <1>1, <1>4 DEF IInv, RingEmptied
<1>8. LineFlags'
  BY <1>1, <1>2 DEF IInv, LineFlags, Lines
<1>9. LinesServed'
  <2>1. SUFFICES ASSUME TRUE \notin Netpoll, NEW i \in Lines
                 PROVE  Exact(line'[i], quirk') /\ Reopens(line'[i])
    BY <1>5 DEF LinesServed, Exact, Reopens, Due
  <2>2. Exact(line[i], quirk)
    BY <2>1 DEF IInv, LinesServed
  <2>3. line'[i].depth = 0
    <3>1. line[i].depth = (IF line[i].off THEN 1 ELSE 0)
      BY <2>2 DEF Exact
    <3>2. line'[i].depth = line[i].depth - (IF line[i].off THEN 1 ELSE 0)
      BY <1>2
    <3>3. line[i].depth \in Nat
      BY LineFacts
    <3> QED BY <3>1, <3>2, <3>3
  <2> QED BY <1>2, <2>3 DEF Exact, Reopens
<1> QED BY <1>4, <1>6, <1>7, <1>8, <1>9 DEF IInv

\* The first open registers and fills the RX queues, or fails there.
LEMMA OpenRxqsIInv == ASSUME ResumeSucceeds, IInv, OpenRxqs PROVE IInv'
<1>1. /\ rtnl.pc = "rxqs" /\ UNCHANGED <<quirk, asleep, up, open, usage, pm, dma, ring, line, mask>>
      /\ rtnl.op = "open"
  BY RtnlFacts DEF IInv, OpInOrder, OpenRxqs, At
<1>2. PICK p \in {"fill", "err"} : Goto(p) /\ (p = "err" => rtnl.bulk = "none")
  BY DEF OpenRxqs, MayFail, ResumeSucceeds
<1>3. dma' \in {"IDLE", "ACTIVE"} /\ ring' \in 0 .. RxNum /\ line' \in [Lines -> LineRecord]
  BY <1>1 DEF IInv, TypeOK
<1>4. /\ TypeOK' /\ OpInOrder' /\ OpenFollowsUp' /\ Accounts'
      /\ Users' = Users /\ rtnl'.pc = p /\ rtnl'.op = "open" /\ rtnl'.bulk = rtnl.bulk
  <2>1. /\ rtnl.op # "none" /\ p # "stop" /\ rtnl.op # "stop"
        /\ p \in {"queues", "napi", "rxqs", "fill", "start", "intr", "err",
                   "stop", "rx", "tx", "hw", "end"}
        /\ rtnl.bulk = "resume" => p \in {"queues", "napi", "rxqs", "fill", "start", "intr"}
    BY <1>1, <1>2
  <2>2. Goto(p) /\ UNCHANGED <<quirk, asleep, up, open, usage, pm, mask>>
    BY <1>1, <1>2
  <2> QED BY <1>1, <1>3, <2>1, <2>2, Continues
<1>5. ~InUse /\ ~InUse' /\ Users = {}
  BY <1>1, <1>4 DEF IInv, Phases, InUse, LastStop
<1>6. Phases'
  <2>1. CASE p = "fill"
    BY <1>1, <1>4, <1>5, <2>1 DEF IInv, Phases
  <2>2. CASE p = "err"
    BY <1>1, <1>4, <1>5, <2>2 DEF IInv, Phases
  <2> QED BY <2>1, <2>2
<1>7. RingEmptied'
  BY <1>1, <1>4 DEF IInv, RingEmptied
<1>8. NapiOn' => NapiOn
  BY <1>1, <1>4, <1>5 DEF NapiOn
<1>9. LineFlags' /\ LinesServed' /\ NetpollUsed'
  BY <1>1, <1>5, <1>8, LinesUntouched DEF Lines
<1> QED BY <1>4, <1>6, <1>7, <1>9 DEF IInv

\* On resume the ring is empty, and the fill does not fail.
LEMMA OpenFillIInv == ASSUME ResumeSucceeds, IInv, OpenFill PROVE IInv'
<1>1. /\ rtnl.pc = "fill" /\ UNCHANGED <<quirk, asleep, up, open, usage, pm, dma, line, mask>>
      /\ rtnl.op = "open"
  BY RtnlFacts DEF IInv, OpInOrder, OpenFill, At
<1>2. ~InUse /\ Users = {}
  BY <1>1 DEF IInv, Phases, InUse, LastStop
<1>3. rtnl.bulk = "resume" => ring = 0
  <2>1. SUFFICES ASSUME rtnl.bulk = "resume" PROVE ring = 0
    OBVIOUS
  <2>2. asleep
    BY <2>1 DEF IInv, OpInOrder
  <2>3. rtnl.n \in Netdevs /\ up[rtnl.n]
    BY <1>1 DEF IInv, OpInOrder, OpenFollowsUp
  <2> QED BY <1>1, <1>2, <2>2, <2>3 DEF IInv, RingEmptied
<1>4. PICK p \in {"start", "err"} :
        /\ Goto(p) /\ ring' \in 0 .. RxNum
        /\ p = "start" => ring' = RxNum
        /\ p = "err" => rtnl.bulk # "resume"
  <2>1. ring \in 0 .. RxNum /\ RxNum \in Nat
    BY ConstantsAssumption DEF IInv, TypeOK
  <2>2. MayFail("fill") => rtnl.bulk = "none"
    BY DEF MayFail, ResumeSucceeds
  <2>3. CASE ring = 0 /\ ring' = RxNum /\ Goto("start")
    BY <2>1, <2>3
  <2>4. CASE ring > 0 /\ ring' = RxNum /\ Goto("err")
    BY <1>3, <2>1, <2>4
  <2>5. CASE MayFail("fill") /\ ring' \in ring .. (RxNum - 1) /\ Goto("err")
    BY <2>1, <2>2, <2>5
  <2> QED BY <2>3, <2>4, <2>5 DEF OpenFill
<1>5. dma' \in {"IDLE", "ACTIVE"} /\ line' \in [Lines -> LineRecord]
  BY <1>1 DEF IInv, TypeOK
<1>6. /\ TypeOK' /\ OpInOrder' /\ OpenFollowsUp' /\ Accounts'
      /\ Users' = Users /\ rtnl'.pc = p /\ rtnl'.op = "open" /\ rtnl'.bulk = rtnl.bulk
  <2>1. /\ rtnl.op # "none" /\ p # "stop" /\ rtnl.op # "stop"
        /\ p \in {"queues", "napi", "rxqs", "fill", "start", "intr", "err",
                   "stop", "rx", "tx", "hw", "end"}
        /\ rtnl.bulk = "resume" => p \in {"queues", "napi", "rxqs", "fill", "start", "intr"}
    BY <1>1, <1>4
  <2>2. Goto(p) /\ UNCHANGED <<quirk, asleep, up, open, usage, pm, mask>>
    BY <1>1, <1>4
  <2> QED BY <1>1, <1>4, <1>5, <2>1, <2>2, Continues
<1>7. ~InUse'
  BY <1>2, <1>6 DEF InUse, LastStop
<1>8. Phases'
  <2>1. CASE p = "start"
    BY <1>1, <1>2, <1>4, <1>6, <1>7, <2>1 DEF IInv, Phases
  <2>2. CASE p = "err"
    BY <1>1, <1>2, <1>6, <1>7, <2>2 DEF IInv, Phases
  <2> QED BY <2>1, <2>2
<1>9. RingEmptied'
  BY <1>6 DEF RingEmptied
<1>10. NapiOn' => NapiOn
  BY <1>1, <1>6, <1>7 DEF NapiOn
<1>11. LineFlags' /\ LinesServed' /\ NetpollUsed'
  BY <1>1, <1>7, <1>10, LinesUntouched DEF Lines
<1> QED BY <1>6, <1>8, <1>9, <1>11 DEF IInv

\* The DMA, NAPI and the interrupts go on.
LEMMA OpenStartIInv == ASSUME IInv, OpenStart PROVE IInv'
<1>1. /\ rtnl.pc = "start" /\ UNCHANGED <<quirk, asleep, up, open, usage, pm, ring, line, mask>>
      /\ dma' = "ACTIVE" /\ Goto("intr") /\ rtnl.op = "open"
  BY RtnlFacts DEF IInv, OpInOrder, OpenStart, At
<1>2. dma' \in {"IDLE", "ACTIVE"} /\ ring' \in 0 .. RxNum /\ line' \in [Lines -> LineRecord]
  BY <1>1 DEF IInv, TypeOK
<1>3. /\ TypeOK' /\ OpInOrder' /\ OpenFollowsUp' /\ Accounts'
      /\ Users' = Users /\ rtnl'.pc = "intr" /\ rtnl'.op = "open" /\ rtnl'.bulk = rtnl.bulk
  <2>1. UNCHANGED <<quirk, asleep, up, open, usage, pm, mask>> /\ rtnl.op # "none"
    BY <1>1
  <2> QED BY <1>1, <1>2, <2>1, Continues
<1>4. InUse' <=> InUse
  BY <1>1, <1>3 DEF InUse, LastStop
<1>5. Phases'
  <2>1. ring = RxNum /\ \A i \in Lines : line[i].napi # "off"
    BY <1>1 DEF IInv, Phases
  <2> QED BY <1>1, <1>3, <1>4, <2>1 DEF Phases
<1>6. RingEmptied'
  BY <1>3 DEF RingEmptied
<1>7. NapiOn' => NapiOn
  BY <1>1, <1>4 DEF NapiOn
<1>8. LineFlags' /\ LinesServed' /\ NetpollUsed'
  BY <1>1, <1>4, <1>7, LinesUntouched DEF Lines
<1> QED BY <1>3, <1>5, <1>6, <1>8 DEF IInv

\* The shutdown begins only if nobody uses the hardware: after a failed open,
LEMMA OpenErrorIInv == ASSUME IInv, OpenError PROVE IInv'
<1>1. /\ rtnl.pc = "err" /\ UNCHANGED <<quirk, asleep, up, open, usage, pm, dma, ring, line, mask>>
      /\ rtnl.op = "open" /\ rtnl.bulk = "none"
  BY RtnlFacts DEF IInv, OpInOrder, OpenError, At
<1>2. PICK p \in {"rx", "end"} : Goto(p) /\ (p = "rx" <=> Users = {})
  BY UsersCounted DEF OpenError
<1>3. dma' \in {"IDLE", "ACTIVE"} /\ ring' \in 0 .. RxNum /\ line' \in [Lines -> LineRecord]
  BY <1>1 DEF IInv, TypeOK
<1>4. /\ TypeOK' /\ OpInOrder' /\ OpenFollowsUp' /\ Accounts'
      /\ Users' = Users /\ rtnl'.pc = p /\ rtnl'.op = "open" /\ rtnl'.bulk = rtnl.bulk
  <2>1. /\ rtnl.op # "none" /\ p # "stop" /\ rtnl.op # "stop" /\ rtnl.bulk # "resume"
        /\ p \in {"queues", "napi", "rxqs", "fill", "start", "intr", "err",
                   "stop", "rx", "tx", "hw", "end"}
    BY <1>1, <1>2
  <2>2. Goto(p) /\ UNCHANGED <<quirk, asleep, up, open, usage, pm, mask>>
    BY <1>1, <1>2
  <2> QED BY <1>1, <1>3, <2>1, <2>2, Continues
<1>5. /\ InUse <=> Users # {}
      /\ InUse' <=> Users # {}
  BY <1>1, <1>4 DEF InUse, LastStop
<1>6. Phases'
  <2>1. CASE p = "rx"
    BY <1>1, <1>2, <1>4, <1>5, <2>1 DEF IInv, Phases
  <2>2. CASE p = "end"
    BY <1>1, <1>2, <1>4, <1>5, <2>2 DEF IInv, Phases
  <2> QED BY <2>1, <2>2
<1>7. RingEmptied'
  BY <1>2, <1>4 DEF RingEmptied
<1>8. NapiOn' => NapiOn
  BY <1>2, <1>4, <1>5 DEF NapiOn
<1>9. LineFlags' /\ LinesServed' /\ NetpollUsed'
  BY <1>1, <1>5, <1>8, LinesUntouched DEF Lines
<1> QED BY <1>4, <1>6, <1>7, <1>9 DEF IInv

\* or when the last user stops.
LEMMA StopSharedIInv == ASSUME IInv, StopShared PROVE IInv'
<1>1. /\ rtnl.pc = "stop" /\ UNCHANGED <<quirk, asleep, up, open, usage, pm, dma, ring, line, mask>>
      /\ rtnl.op = "stop" /\ rtnl.bulk # "resume" /\ rtnl.n \in Netdevs /\ open[rtnl.n]
  BY RtnlFacts DEF IInv, OpInOrder, OpenFollowsUp, StopShared, At
<1>2. rtnl.n \in Users /\ InUse
  BY <1>1 DEF Users, InUse, LastStop
<1>3. PICK p \in {"rx", "end"} : Goto(p) /\ (p = "rx" <=> Users = {rtnl.n})
  <2>1. usage <= 1 <=> Users = {rtnl.n}
    <3>1. Users = {rtnl.n} => usage = 1
      BY UsersCounted, FS_Singleton
    <3> QED BY <1>2, <3>1, UsersCounted
  <2> QED BY <2>1 DEF StopShared, LastUser
<1>4. dma' \in {"IDLE", "ACTIVE"} /\ ring' \in 0 .. RxNum /\ line' \in [Lines -> LineRecord]
  BY <1>1 DEF IInv, TypeOK
<1>5. /\ TypeOK' /\ OpInOrder' /\ OpenFollowsUp' /\ Accounts'
      /\ Users' = Users /\ rtnl'.pc = p /\ rtnl'.op = "stop" /\ rtnl'.n = rtnl.n
      /\ rtnl'.bulk = rtnl.bulk
  <2>1. /\ rtnl.op # "none" /\ rtnl.op # "open" /\ rtnl.bulk # "resume"
        /\ p \in {"queues", "napi", "rxqs", "fill", "start", "intr", "err",
                   "stop", "rx", "tx", "hw", "end"}
        /\ p \in {"stop", "rx", "tx", "hw", "end"}
    BY <1>1, <1>3
  <2>2. Goto(p) /\ UNCHANGED <<quirk, asleep, up, open, usage, pm, mask>>
    BY <1>1, <1>3
  <2> QED BY <1>1, <1>4, <2>1, <2>2, Continues
<1>6. InUse' <=> p # "rx"
  BY <1>2, <1>3, <1>5 DEF InUse, LastStop
<1>7. Phases'
  <2>1. dma = "ACTIVE" /\ ring = RxNum /\ \A i \in Lines : line[i].napi # "off"
    BY <1>2 DEF IInv, Phases
  <2>2. CASE p = "rx"
    BY <1>1, <1>5, <1>6, <2>1, <2>2 DEF Phases
  <2>3. CASE p = "end"
    BY <1>1, <1>5, <1>6, <2>1, <2>3 DEF Phases
  <2> QED BY <2>2, <2>3
<1>8. RingEmptied'
  BY <1>2, <1>5 DEF RingEmptied
<1>9. LineFlags' /\ LinesServed' /\ NetpollUsed'
  BY <1>1, <1>2, LinesUntouched DEF Lines, NapiOn
<1> QED BY <1>5, <1>7, <1>8, <1>9 DEF IInv
\* napi_disable of line i begins to wait,
LEMMA NapiDisableIInv == ASSUME IInv, NEW i \in Lines, NapiDisable(i) PROVE IInv'
<1> DEFINE l == [line[i] EXCEPT !.dis = TRUE]
<1>1. /\ rtnl.pc = i /\ line' = [line EXCEPT ![i] = l]
      /\ UNCHANGED <<quirk, asleep, up, open, usage, pm, dma, ring, rtnl, mask>>
  BY LineFacts DEF NapiDisable, At
<1>2. /\ l \in LineRecord /\ l.dis /\ l.napi = line[i].napi /\ l.off = line[i].off
      /\ l.depth = line[i].depth /\ l.tail = line[i].tail /\ l.en = line[i].en
  BY LineFacts DEF LineRecord
<1> HIDE DEF l
<1>3. /\ line' \in [Lines -> LineRecord]
      /\ \A j \in Lines : /\ line'[j].napi = line[j].napi /\ line'[j].off = line[j].off
                          /\ line'[j].depth = line[j].depth /\ line'[j].tail = line[j].tail
                          /\ line'[j].dis = line[j].dis \/ j = i
  BY <1>1, <1>2, LineFacts
<1>4. TypeOK'
  BY <1>1, <1>3 DEF IInv, TypeOK
<1>5. Users' = Users
  BY <1>1 DEF Users
<1>6. OpInOrder' /\ OpenFollowsUp' /\ Accounts' /\ RingEmptied' /\ NetpollUsed'
  BY <1>1, <1>5 DEF IInv, OpInOrder, OpenFollowsUp, Accounts, Busy, RingEmptied, NetpollUsed
<1>7. (InUse' <=> InUse) /\ (NapiOn' <=> NapiOn)
  BY <1>1, <1>5 DEF InUse, NapiOn, LastStop
<1>8. ~InUse /\ ~NapiOn
  BY <1>1 DEF IInv, Phases, NapiOn, Lines
<1>9. Phases'
  BY <1>1, <1>3, <1>7 DEF IInv, Phases, Lines
<1>10. LineFlags'
  BY <1>1, <1>3 DEF IInv, LineFlags
<1>11. LinesServed'
  BY <1>1, <1>3, <1>7, <1>8 DEF IInv, LinesServed, Exact
<1> QED BY <1>4, <1>6, <1>9, <1>10, <1>11 DEF IInv

\* and returns when NAPI is off.
LEMMA NapiDisabledIInv == ASSUME IInv, NEW i \in Lines, NapiDisabled(i) PROVE IInv'
<1> DEFINE l == [line[i] EXCEPT !.napi = "off", !.dis = FALSE]
           p == IF i = "rx" THEN "tx" ELSE "hw"
<1>1. /\ rtnl.pc = i /\ line' = [line EXCEPT ![i] = l] /\ Goto(p)
      /\ UNCHANGED <<quirk, asleep, up, open, usage, pm, dma, ring, mask>>
  <2>1. line' = [line EXCEPT ![i].napi = "off", ![i].dis = FALSE]
    BY DEF NapiDisabled
  <2> QED BY <2>1, LineFacts DEF NapiDisabled, At, LineRecord
<1>2. /\ l \in LineRecord /\ ~l.dis /\ l.napi = "off" /\ l.off = line[i].off
      /\ l.depth = line[i].depth /\ l.tail = line[i].tail
  BY LineFacts DEF LineRecord
<1> HIDE DEF l
<1>3. /\ line' \in [Lines -> LineRecord]
      /\ line'[i].napi = "off" /\ ~line'[i].dis
      /\ \A j \in Lines : /\ line'[j].off = line[j].off
                          /\ line'[j].depth = line[j].depth /\ line'[j].tail = line[j].tail
                          /\ line'[j] = line[j] \/ j = i
  BY <1>1, <1>2, LineFacts
<1>4. /\ rtnl.op # "none" /\ rtnl.bulk # "resume" /\ p \in {"tx", "hw"}
      /\ i \in {"rx", "tx"}
  BY <1>1, RtnlFacts DEF IInv, OpInOrder, Lines
<1>5. /\ TypeOK' /\ OpInOrder' /\ OpenFollowsUp' /\ Accounts' /\ NetpollUsed'
      /\ Users' = Users /\ rtnl'.pc = p /\ rtnl'.op = rtnl.op /\ rtnl'.n = rtnl.n
      /\ rtnl'.bulk = rtnl.bulk
  <2>1. dma' \in {"IDLE", "ACTIVE"} /\ ring' \in 0 .. RxNum
    BY <1>1 DEF IInv, TypeOK
  <2>2. /\ p \in {"queues", "napi", "rxqs", "fill", "start", "intr", "err",
                  "stop", "rx", "tx", "hw", "end"}
        /\ p # "stop" /\ p \in {"stop", "rx", "tx", "hw", "end"}
    BY <1>4
  <2>3. UNCHANGED <<quirk, asleep, up, open, usage, pm, mask>>
    BY <1>1
  <2> HIDE DEF p
  <2> QED BY <1>1, <1>3, <1>4, <2>1, <2>2, <2>3, Continues
<1>6. ~InUse /\ ~InUse' /\ ~NapiOn'
  <2>1. ~InUse
    BY <1>1, <1>4 DEF IInv, Phases
  <2> QED BY <1>1, <1>4, <1>5, <2>1 DEF InUse, LastStop, NapiOn
<1>7. Phases'
  <2>1. CASE i = "rx"
    BY <1>1, <1>3, <1>4, <1>5, <1>6, <2>1 DEF IInv, Phases, Lines
  <2>2. CASE i = "tx"
    BY <1>1, <1>3, <1>4, <1>5, <1>6, <2>2 DEF IInv, Phases, Lines
  <2> QED BY <1>4, <2>1, <2>2
<1>8. RingEmptied'
  BY <1>4, <1>5 DEF RingEmptied
<1>9. LineFlags'
  BY <1>1, <1>3 DEF IInv, LineFlags
<1>10. LinesServed'
  BY <1>1, <1>3, <1>6 DEF IInv, LinesServed, Exact
<1> QED BY <1>5, <1>7, <1>8, <1>9, <1>10 DEF IInv

\* The DMA is stopped if it was active.
LEMMA StopHwIInv == ASSUME IInv, StopHw PROVE IInv'
<1>1. /\ rtnl.pc = "hw" /\ UNCHANGED <<quirk, asleep, up, open, usage, pm, mask>>
      /\ line' = [i \in Lines |-> [line[i] EXCEPT !.en = @ /\ rtnl.op = "open",
                                                  !.work = @ /\ dma # "ACTIVE"]]
      /\ ring' = (IF dma = "ACTIVE" THEN 0 ELSE ring) /\ dma' = "IDLE" /\ Goto("end")
  BY DEF StopHw, At
<1>2. rtnl.op # "none" /\ rtnl.bulk # "resume" /\ rtnl.op \in {"open", "stop"}
  BY <1>1, RtnlFacts DEF IInv, OpInOrder
<1>3. ASSUME NEW i \in Lines
      PROVE  /\ line'[i] \in LineRecord /\ line'[i].napi = line[i].napi
             /\ line'[i].off = line[i].off /\ line'[i].depth = line[i].depth
             /\ line'[i].tail = line[i].tail /\ line'[i].dis = line[i].dis
  BY <1>1, LineFacts DEF LineRecord
<1>4. line' \in [Lines -> LineRecord] /\ ring' \in 0 .. RxNum /\ dma' \in {"IDLE", "ACTIVE"}
  <2>1. 0 \in 0 .. RxNum
    BY ConstantsAssumption
  <2> QED BY <1>1, <1>3, <2>1 DEF IInv, TypeOK
<1>5. /\ TypeOK' /\ OpInOrder' /\ OpenFollowsUp' /\ Accounts' /\ NetpollUsed'
      /\ Users' = Users /\ rtnl'.pc = "end" /\ rtnl'.op = rtnl.op /\ rtnl'.n = rtnl.n
      /\ rtnl'.bulk = rtnl.bulk
  BY <1>1, <1>2, <1>4, Continues
<1>6. ~InUse /\ ~InUse' /\ ~NapiOn'
  <2>1. ~InUse
    BY <1>1 DEF IInv, Phases
  <2> QED BY <1>1, <1>2, <1>5, <2>1 DEF InUse, LastStop, NapiOn
<1>7. Phases'
  <2>1. line["rx"].napi = "off" /\ line["tx"].napi = "off"
    BY <1>1, <1>6 DEF IInv, Phases
  <2>2. line'["rx"].napi = "off" /\ line'["tx"].napi = "off"
    BY <1>3, <2>1 DEF Lines
  <2>3. rtnl.op = "stop" => ring' = 0
    BY <1>1, <1>6 DEF IInv, Phases
  <2> QED BY <1>1, <1>2, <1>5, <1>6, <2>2, <2>3 DEF Phases
<1>8. RingEmptied'
  BY <1>5 DEF RingEmptied
<1>9. LineFlags'
  BY <1>1, <1>3 DEF IInv, LineFlags, Lines
<1>10. LinesServed'
  <2>1. SUFFICES ASSUME TRUE \notin Netpoll, NEW i \in Lines
                 PROVE  Exact(line'[i], quirk')
    BY <1>6 DEF LinesServed, Exact
  <2>2. Exact(line[i], quirk)
    BY <2>1 DEF IInv, LinesServed
  <2>3. /\ line'[i].off = line[i].off /\ line'[i].depth = line[i].depth
        /\ line'[i].tail = line[i].tail /\ quirk' = quirk
    BY <1>1, <1>3
  <2> QED BY <2>2, <2>3 DEF Exact
<1> QED BY <1>5, <1>7, <1>8, <1>9, <1>10 DEF IInv
-----------------------------------------------------------------------------
(* The end of an operation.                                                *)

\* What ends an operation, and leaves the rest of suspend or resume to do.
LEMMA OpEndsFacts ==
  ASSUME IInv, OpEnds
  PROVE  /\ rtnl' \in RtnlRecord /\ rtnl'.op = "none" /\ rtnl'.n = NULL /\ rtnl'.pc = "idle"
         /\ rtnl'.bulk = rtnl.bulk /\ rtnl'.todo = rtnl.todo
         /\ InUse' <=> Users' # {}
         /\ NapiOn' <=> InUse'
<1>1. /\ rtnl' \in RtnlRecord /\ rtnl'.op = "none" /\ rtnl'.n = NULL /\ rtnl'.pc = "idle"
      /\ rtnl'.bulk = rtnl.bulk /\ rtnl'.todo = rtnl.todo
  BY RtnlFacts DEF OpEnds, RtnlRecord
<1> QED BY <1>1 DEF InUse, LastStop, NapiOn

\* The open ends, and a resume goes on to the next netdev.
LEMMA OpenEndIInv == ASSUME IInv, OpenEnd PROVE IInv'
<1> DEFINE n == rtnl.n
<1>1. /\ rtnl.pc = "intr" /\ rtnl.op = "open" /\ OpEnds
      /\ UNCHANGED <<quirk, asleep, up, pm, dma, ring, mask>>
      /\ usage' = usage + 1 /\ open' = [open EXCEPT ![n] = TRUE]
      /\ line' = [i \in Lines |-> [line[i] EXCEPT !.en = TRUE]]
  BY RtnlFacts DEF IInv, OpInOrder, OpenEnd, At
<1>2. /\ n \in Netdevs /\ n \notin rtnl.todo /\ rtnl.bulk # "suspend" /\ ~open[n] /\ up[n]
      /\ open \in [Netdevs -> BOOLEAN]
  BY <1>1 DEF IInv, OpInOrder, OpenFollowsUp, TypeOK
<1> HIDE DEF n
<1>3. Users' = Users \cup {n} /\ n \notin Users
  BY <1>1, <1>2 DEF Users
<1>4. usage' = Cardinality(Users') /\ pm' = usage' /\ usage' \in 0 .. Cardinality(Netdevs)
  <2>1. Cardinality(Users') = usage + 1 /\ usage \in Nat
    BY <1>3, UsersCounted, FS_AddElement
  <2>2. Cardinality(Users') <= Cardinality(Netdevs) /\ Cardinality(Netdevs) \in Nat
    <3>1. Users' \subseteq Netdevs
      BY <1>2, <1>3 DEF Users
    <3> QED BY <3>1, ConstantsAssumption, FS_Subset, FS_CardinalityType
  <2>3. pm = usage + 1
    BY <1>1 DEF IInv, Accounts
  <2> QED BY <1>1, <2>1, <2>2, <2>3
<1>5. ASSUME NEW i \in Lines
      PROVE  /\ line'[i] \in LineRecord /\ line'[i].napi = line[i].napi /\ line'[i].en
             /\ line'[i].off = line[i].off /\ line'[i].depth = line[i].depth
             /\ line'[i].tail = line[i].tail /\ line'[i].dis = line[i].dis
  BY <1>1, LineFacts DEF LineRecord
<1>6. TypeOK'
  <2>1. line' \in [Lines -> LineRecord]
    BY <1>1, <1>5
  <2>2. open' \in [Netdevs -> BOOLEAN]
    BY <1>1, <1>2
  <2> QED BY <1>1, <1>4, <2>1, <2>2, OpEndsFacts DEF IInv, TypeOK
<1>7. OpInOrder' /\ NetpollUsed'
  <2>1. rtnl.bulk \in {"none", "suspend", "resume"}
    BY RtnlFacts
  <2> QED BY <1>1, <2>1, OpEndsFacts DEF IInv, OpInOrder, NetpollUsed
<1>8. OpenFollowsUp'
  <2>1. ASSUME NEW m \in Netdevs
        PROVE  open'[m] = (up'[m] /\ CASE rtnl'.bulk = "none" -> ~asleep'
                                        [] rtnl'.bulk = "suspend" -> m \in rtnl'.todo
                                        [] rtnl'.bulk = "resume" -> m \notin rtnl'.todo)
    <3>1. CASE m = n
      <4>1. open'[m] = TRUE /\ up'[m] = up[n] /\ up[n] = TRUE
        BY <1>1, <1>2, <3>1 DEF IInv, TypeOK
      <4>2. rtnl.bulk = "none" => ~asleep
        BY <1>1 DEF IInv, OpInOrder
      <4> QED BY <1>1, <1>2, <3>1, <4>1, <4>2, OpEndsFacts, RtnlFacts
    <3>2. CASE m # n
      <4>1. ~Busy(m) /\ open'[m] = open[m]
        BY <1>1, <1>2, <3>2 DEF Busy, n
      <4> QED BY <1>1, <4>1, OpEndsFacts DEF IInv, OpenFollowsUp
    <3> QED BY <3>1, <3>2
  <2> QED BY <1>1, <2>1, OpEndsFacts DEF OpenFollowsUp
<1>9. Accounts'
  BY <1>1, <1>4, OpEndsFacts DEF Accounts, TypeOK
<1>10. InUse' /\ Users' # {}
  BY <1>1, <1>3, OpEndsFacts
<1>11. Phases'
  <2>1. dma = "ACTIVE" /\ ring = RxNum /\ \A i \in Lines : line[i].napi # "off"
    BY <1>1 DEF IInv, Phases
  <2> QED BY <1>1, <1>5, <1>10, <2>1, OpEndsFacts DEF Phases
<1>12. RingEmptied'
  BY <1>10 DEF RingEmptied
<1>13. LineFlags'
  BY <1>1, <1>5 DEF IInv, LineFlags, Lines
<1>14. LinesServed'
  <2>1. SUFFICES ASSUME TRUE \notin Netpoll, NEW i \in Lines
                 PROVE  Exact(line'[i], quirk') /\ Reopens(line'[i]) /\ Enabled(line'[i])
    BY DEF LinesServed, Exact, Reopens, Enabled, Due
  <2>2. NapiOn
    BY <1>1 DEF NapiOn
  <2>3. Exact(line[i], quirk) /\ Reopens(line[i])
    BY <2>1, <2>2 DEF IInv, LinesServed
  <2> QED BY <1>1, <1>5, <2>3 DEF Exact, Reopens, Enabled, Due
<1> QED BY <1>6, <1>7, <1>8, <1>9, <1>11, <1>12, <1>13, <1>14 DEF IInv

\* A failed open gives its reference back; the other interfaces keep the hardware.
LEMMA OpenFailsIInv == ASSUME IInv, OpenFails PROVE IInv'
<1> DEFINE n == rtnl.n
<1>1. /\ rtnl.pc = "end" /\ rtnl.op = "open" /\ OpEnds
      /\ UNCHANGED <<quirk, asleep, open, usage, dma, ring, line, mask>>
      /\ pm' = pm - 1 /\ up' = [up EXCEPT ![n] = rtnl.bulk = "resume"]
  BY DEF OpenFails, At
<1>2. /\ n \in Netdevs /\ rtnl.bulk = "none" /\ rtnl.todo = {} /\ ~asleep
      /\ open[n] = FALSE /\ up \in [Netdevs -> BOOLEAN] /\ open \in [Netdevs -> BOOLEAN]
  BY <1>1, RtnlFacts DEF IInv, OpInOrder, OpenFollowsUp, TypeOK
<1> HIDE DEF n
<1>3. /\ Users' = Users /\ up' \in [Netdevs -> BOOLEAN] /\ up'[n] = FALSE
      /\ \A m \in Netdevs : m # n => up'[m] = up[m]
  BY <1>1, <1>2 DEF Users
<1>4. pm' = usage
  BY <1>1, UsersCounted DEF IInv, Accounts
<1>5. TypeOK' /\ Accounts'
  <2>1. pm' \in 0 .. Cardinality(Netdevs)
    BY <1>4 DEF IInv, TypeOK
  <2> QED BY <1>1, <1>3, <1>4, <2>1, OpEndsFacts, UsersCounted DEF IInv, TypeOK, Accounts
<1>6. OpInOrder' /\ NetpollUsed'
  BY <1>1, <1>2, OpEndsFacts DEF IInv, OpInOrder, NetpollUsed
<1>7. OpenFollowsUp'
  <2>1. ASSUME NEW m \in Netdevs PROVE open'[m] = (up'[m] /\ ~asleep')
    <3>1. CASE m = n
      BY <1>1, <1>2, <1>3, <3>1
    <3>2. CASE m # n
      <4>1. ~Busy(m)
        BY <3>2 DEF Busy, n
      <4> QED BY <1>1, <1>2, <1>3, <3>2, <4>1 DEF IInv, OpenFollowsUp
    <3> QED BY <3>1, <3>2
  <2> QED BY <1>1, <1>2, <2>1, OpEndsFacts DEF OpenFollowsUp
<1>8. (InUse' <=> InUse) /\ (InUse <=> Users # {}) /\ (NapiOn' <=> InUse)
  BY <1>1, <1>3, OpEndsFacts DEF InUse, LastStop
<1>9. Phases'
  <2>1. CASE InUse
    BY <1>1, <1>8, <2>1, OpEndsFacts DEF IInv, Phases
  <2>2. CASE ~InUse
    <3>1. dma = "IDLE" /\ line["rx"].napi = "off" /\ line["tx"].napi = "off"
      BY <1>1, <2>2 DEF IInv, Phases
    <3> QED BY <1>1, <1>8, <2>2, <3>1, OpEndsFacts DEF Phases, Lines
  <2> QED BY <2>1, <2>2
<1>10. RingEmptied'
  BY <1>1, <1>2, OpEndsFacts DEF RingEmptied
<1>11. LineFlags' /\ LinesServed'
  BY <1>1, <1>8, LinesUntouched DEF Lines, NapiOn
<1> QED BY <1>5, <1>6, <1>7, <1>9, <1>10, <1>11 DEF IInv

\* The stop ends, and a suspend goes on to the next netdev.
LEMMA StopEndIInv == ASSUME IInv, StopEnd PROVE IInv'
<1> DEFINE n == rtnl.n
<1>1. /\ rtnl.pc = "end" /\ rtnl.op = "stop" /\ OpEnds
      /\ UNCHANGED <<quirk, asleep, up, dma, ring, line, mask>>
      /\ usage' = usage - 1 /\ pm' = pm - 1 /\ open' = [open EXCEPT ![n] = FALSE]
  BY DEF StopEnd, At
<1>2. /\ n \in Netdevs /\ n \notin rtnl.todo /\ rtnl.bulk # "resume" /\ open[n]
      /\ up[n] = (rtnl.bulk = "suspend") /\ open \in [Netdevs -> BOOLEAN]
  BY <1>1 DEF IInv, OpInOrder, OpenFollowsUp, TypeOK
<1>3. LastStop <=> Users = {n}
  BY <1>1 DEF LastStop
<1> HIDE DEF n
<1>4. Users' = Users \ {n} /\ n \in Users
  BY <1>1, <1>2 DEF Users
<1>5. usage' = Cardinality(Users') /\ pm' = usage' /\ usage' \in 0 .. Cardinality(Netdevs)
  <2>1. Cardinality(Users') = usage - 1
    BY <1>4, UsersCounted, FS_RemoveElement
  <2>2. usage # 0
    BY <1>4, UsersCounted
  <2>3. pm = usage
    BY <1>1, UsersCounted DEF IInv, Accounts
  <2> QED BY <1>1, <2>1, <2>2, <2>3, UsersCounted
<1>6. TypeOK'
  <2>1. open' \in [Netdevs -> BOOLEAN]
    BY <1>1, <1>2
  <2> QED BY <1>1, <1>5, <2>1, OpEndsFacts DEF IInv, TypeOK
<1>7. OpInOrder' /\ NetpollUsed'
  <2>1. rtnl.bulk \in {"none", "suspend", "resume"}
    BY RtnlFacts
  <2> QED BY <1>1, <2>1, OpEndsFacts DEF IInv, OpInOrder, NetpollUsed
<1>8. OpenFollowsUp'
  <2>1. ASSUME NEW m \in Netdevs
        PROVE  open'[m] = (up'[m] /\ CASE rtnl'.bulk = "none" -> ~asleep'
                                        [] rtnl'.bulk = "suspend" -> m \in rtnl'.todo
                                        [] rtnl'.bulk = "resume" -> m \notin rtnl'.todo)
    <3>1. CASE m = n
      <4>1. open'[m] = FALSE /\ up'[m] = (rtnl.bulk = "suspend") /\ m \notin rtnl'.todo
        BY <1>1, <1>2, <3>1, OpEndsFacts
      <4>2. CASE rtnl.bulk = "none"
        BY <1>1, <4>1, <4>2, OpEndsFacts
      <4>3. CASE rtnl.bulk = "suspend"
        BY <1>1, <4>1, <4>3, OpEndsFacts
      <4> QED BY <1>2, <4>2, <4>3, RtnlFacts
    <3>2. CASE m # n
      <4>1. ~Busy(m) /\ open'[m] = open[m]
        BY <1>1, <1>2, <3>2 DEF Busy, n
      <4> QED BY <1>1, <4>1, OpEndsFacts DEF IInv, OpenFollowsUp
    <3> QED BY <3>1, <3>2
  <2> QED BY <1>1, <2>1, OpEndsFacts DEF OpenFollowsUp
<1>9. Accounts'
  BY <1>1, <1>5, OpEndsFacts DEF Accounts, TypeOK
<1>10. (InUse' <=> InUse) /\ (InUse <=> Users' # {}) /\ (NapiOn' <=> InUse)
  BY <1>3, <1>4, <1>1, OpEndsFacts DEF InUse
<1>11. Phases'
  <2>1. CASE InUse
    BY <1>1, <1>10, <2>1, OpEndsFacts DEF IInv, Phases
  <2>2. CASE ~InUse
    <3>1. dma = "IDLE" /\ line["rx"].napi = "off" /\ line["tx"].napi = "off"
      BY <1>1, <2>2 DEF IInv, Phases
    <3> QED BY <1>1, <1>10, <2>2, <3>1, OpEndsFacts DEF Phases, Lines
  <2> QED BY <2>1, <2>2
<1>12. RingEmptied'
  BY <1>1, <1>10 DEF IInv, Phases, RingEmptied
<1>13. LineFlags' /\ LinesServed'
  BY <1>1, <1>10, LinesUntouched DEF Lines, NapiOn
<1> QED BY <1>6, <1>7, <1>8, <1>9, <1>11, <1>12, <1>13 DEF IInv
-----------------------------------------------------------------------------
(* The beginning of an operation, of suspend and of resume.                *)

\* ndo_open is called on a running interface that is not open,
LEMMA OpenBeginsIInv ==
  ASSUME IInv, NEW n \in Netdevs, OpenBegins(n), rtnl.op = "none",
         (rtnl = NoOp /\ ~asleep) \/ (rtnl.bulk = "resume" /\ up' = up),
         UNCHANGED <<quirk, asleep, open, usage, dma, ring, line, mask>>,
         up' \in [Netdevs -> BOOLEAN], up'[n], \A m \in Netdevs : m # n => up'[m] = up[m],
         ~open[n]
  PROVE  IInv'
<1>1. /\ rtnl' \in RtnlRecord /\ rtnl'.op = "open" /\ rtnl'.n = n /\ rtnl'.pc = "queues"
      /\ rtnl'.bulk = rtnl.bulk /\ rtnl'.todo = rtnl.todo \ {n} /\ pm' = pm + 1
  BY RtnlFacts DEF OpenBegins, RtnlRecord
<1>2. /\ rtnl.pc = "idle" /\ rtnl.bulk \in {"none", "resume"}
      /\ IF rtnl.bulk = "none" THEN ~asleep ELSE asleep /\ up' = up
  BY RtnlFacts DEF IInv, OpInOrder, NoOp
<1>3. Users' = Users /\ n \notin Users
  BY DEF Users
<1>4. pm' = usage + 1 /\ pm' \in 0 .. Cardinality(Netdevs)
  <2>1. pm = usage
    BY UsersCounted DEF IInv, Accounts
  <2>2. Cardinality(Users \cup {n}) = usage + 1
    <3>1. IsFiniteSet(Users) /\ usage = Cardinality(Users) /\ n \notin Users
      BY <1>3, UsersCounted
    <3> QED BY <3>1, FS_AddElement
  <2>3. Cardinality(Users \cup {n}) <= Cardinality(Netdevs)
    <3>1. Users \cup {n} \subseteq Netdevs
      BY DEF Users
    <3> QED BY <3>1, ConstantsAssumption, FS_Subset
  <2> QED BY <1>1, <2>1, <2>2, <2>3, UsersCounted
<1>5. TypeOK'
  BY <1>1, <1>4 DEF IInv, TypeOK
<1>6. OpInOrder' /\ NetpollUsed'
  <2>1. \A m \in rtnl'.todo : up'[m]
    BY <1>1, RtnlFacts DEF IInv, OpInOrder
  <2>2. rtnl'.bulk = "none" => rtnl'.todo = {}
    BY <1>1 DEF IInv, OpInOrder
  <2> QED BY <1>1, <1>2, <2>1, <2>2 DEF IInv, OpInOrder, NetpollUsed
<1>7. OpenFollowsUp'
  <2>1. ASSUME NEW m \in Netdevs, m # n
        PROVE  open'[m] = (up'[m] /\ CASE rtnl'.bulk = "none" -> ~asleep'
                                        [] rtnl'.bulk = "suspend" -> m \in rtnl'.todo
                                        [] rtnl'.bulk = "resume" -> m \notin rtnl'.todo)
    <3>1. ~Busy(m) /\ up'[m] = up[m] /\ (m \in rtnl'.todo <=> m \in rtnl.todo)
      BY <1>1, <2>1 DEF Busy
    <3>2. open[m] = (up[m] /\ CASE rtnl.bulk = "none" -> ~asleep
                                 [] rtnl.bulk = "suspend" -> m \in rtnl.todo
                                 [] rtnl.bulk = "resume" -> m \notin rtnl.todo)
      BY <3>1 DEF IInv, OpenFollowsUp
    <3>3. CASE rtnl.bulk = "none"
      BY <1>1, <3>1, <3>2, <3>3
    <3>4. CASE rtnl.bulk = "resume"
      BY <1>1, <3>1, <3>2, <3>4
    <3> QED BY <1>2, <3>3, <3>4
  <2> QED BY <1>1, <2>1 DEF OpenFollowsUp, Busy
<1>8. Accounts'
  BY <1>1, <1>3, <1>4 DEF IInv, Accounts
<1>9. (InUse' <=> InUse) /\ (InUse <=> Users # {}) /\ (NapiOn' <=> InUse)
  BY <1>1, <1>2, <1>3 DEF InUse, LastStop, NapiOn
<1>10. Phases'
  BY <1>1, <1>2, <1>9 DEF IInv, Phases
<1>11. RingEmptied'
  BY <1>1, <1>2, <1>3 DEF IInv, RingEmptied
<1>12. LineFlags' /\ LinesServed'
  BY <1>2, <1>9, LinesUntouched DEF Lines, NapiOn
<1> QED BY <1>5, <1>6, <1>7, <1>8, <1>10, <1>11, <1>12 DEF IInv

\* A netdev is opened.
LEMMA DevOpenIInv == ASSUME IInv, NEW n \in Netdevs, DevOpen(n) PROVE IInv'
<1>1. /\ rtnl = NoOp /\ ~asleep /\ ~up[n] /\ up' = [up EXCEPT ![n] = TRUE] /\ OpenBegins(n)
      /\ UNCHANGED <<quirk, asleep, open, usage, dma, ring, line, mask>>
  BY DEF DevOpen
<1>2. rtnl.op = "none"
  BY <1>1 DEF NoOp
<1>3. up' \in [Netdevs -> BOOLEAN] /\ up'[n] /\ \A m \in Netdevs : m # n => up'[m] = up[m]
  BY <1>1 DEF IInv, TypeOK
<1>4. ~open[n]
  BY <1>1, <1>2 DEF IInv, OpenFollowsUp, Busy
<1> QED BY <1>1, <1>2, <1>3, <1>4, OpenBeginsIInv

\* A resume opens the next netdev.
LEMMA ResumeNextIInv == ASSUME IInv, NEW n \in Netdevs, ResumeNext(n) PROVE IInv'
<1>1. /\ rtnl.op = "none" /\ rtnl.bulk = "resume" /\ n \in rtnl.todo /\ OpenBegins(n)
      /\ UNCHANGED <<quirk, asleep, up, open, usage, dma, ring, line, mask>>
  BY DEF ResumeNext, Between
<1>2. up' \in [Netdevs -> BOOLEAN] /\ up'[n] /\ \A m \in Netdevs : m # n => up'[m] = up[m]
  BY <1>1 DEF IInv, TypeOK, OpInOrder
<1>3. ~open[n]
  BY <1>1 DEF IInv, OpenFollowsUp, Busy
<1> QED BY <1>1, <1>2, <1>3, OpenBeginsIInv

\* and ndo_stop on one that is.
LEMMA StopBeginsIInv ==
  ASSUME IInv, NEW n \in Netdevs, StopBegins(n), rtnl.op = "none", rtnl.bulk # "resume",
         rtnl.bulk = "none" => ~asleep,
         UNCHANGED <<quirk, asleep, open, usage, pm, dma, ring, line, mask>>,
         up' \in [Netdevs -> BOOLEAN], up'[n] = (rtnl.bulk = "suspend"),
         \A m \in Netdevs : m # n => up'[m] = up[m], open[n]
  PROVE  IInv'
<1>1. /\ rtnl' \in RtnlRecord /\ rtnl'.op = "stop" /\ rtnl'.n = n /\ rtnl'.pc = "stop"
      /\ rtnl'.bulk = rtnl.bulk /\ rtnl'.todo = rtnl.todo \ {n}
  BY RtnlFacts DEF StopBegins, RtnlRecord
<1>2. rtnl.pc = "idle" /\ rtnl.bulk \in {"none", "suspend"}
  BY RtnlFacts
<1>3. Users' = Users /\ Users # {}
  BY DEF Users
<1>4. TypeOK'
  BY <1>1 DEF IInv, TypeOK
<1>5. OpInOrder' /\ NetpollUsed'
  <2>1. \A m \in rtnl'.todo : up'[m]
    BY <1>1, RtnlFacts DEF IInv, OpInOrder
  <2>2. rtnl'.bulk = "none" => rtnl'.todo = {}
    BY <1>1 DEF IInv, OpInOrder
  <2> QED BY <1>1, <1>2, <2>1, <2>2 DEF IInv, OpInOrder, NetpollUsed
<1>6. OpenFollowsUp'
  <2>1. ASSUME NEW m \in Netdevs, m # n
        PROVE  open'[m] = (up'[m] /\ CASE rtnl'.bulk = "none" -> ~asleep'
                                        [] rtnl'.bulk = "suspend" -> m \in rtnl'.todo
                                        [] rtnl'.bulk = "resume" -> m \notin rtnl'.todo)
    <3>1. ~Busy(m) /\ up'[m] = up[m] /\ (m \in rtnl'.todo <=> m \in rtnl.todo)
      BY <1>1, <2>1 DEF Busy
    <3>2. open[m] = (up[m] /\ CASE rtnl.bulk = "none" -> ~asleep
                                 [] rtnl.bulk = "suspend" -> m \in rtnl.todo
                                 [] rtnl.bulk = "resume" -> m \notin rtnl.todo)
      BY <3>1 DEF IInv, OpenFollowsUp
    <3>3. CASE rtnl.bulk = "none"
      BY <1>1, <3>1, <3>2, <3>3
    <3>4. CASE rtnl.bulk = "suspend"
      BY <1>1, <3>1, <3>2, <3>4
    <3> QED BY <1>2, <3>3, <3>4
  <2> QED BY <1>1, <2>1 DEF OpenFollowsUp, Busy
<1>7. Accounts'
  BY <1>1, <1>3 DEF IInv, Accounts
<1>8. InUse' /\ InUse
  BY <1>1, <1>2, <1>3 DEF InUse, LastStop
<1>9. Phases'
  BY <1>1, <1>8 DEF IInv, Phases
<1>10. RingEmptied'
  BY <1>3 DEF RingEmptied
<1>11. LineFlags' /\ LinesServed'
  BY <1>2, <1>8, LinesUntouched DEF Lines, NapiOn
<1> QED BY <1>4, <1>5, <1>6, <1>7, <1>9, <1>10, <1>11 DEF IInv

\* A netdev is closed.
LEMMA DevCloseIInv == ASSUME IInv, NEW n \in Netdevs, DevClose(n) PROVE IInv'
<1>1. /\ rtnl = NoOp /\ ~asleep /\ up[n] /\ up' = [up EXCEPT ![n] = FALSE] /\ StopBegins(n)
      /\ UNCHANGED <<quirk, asleep, open, usage, pm, dma, ring, line, mask>>
  BY DEF DevClose
<1>2. rtnl.op = "none" /\ rtnl.bulk = "none"
  BY <1>1 DEF NoOp
<1>3. up' \in [Netdevs -> BOOLEAN] /\ up'[n] = FALSE /\ \A m \in Netdevs : m # n => up'[m] = up[m]
  BY <1>1 DEF IInv, TypeOK
<1>4. open[n]
  BY <1>1, <1>2 DEF IInv, OpenFollowsUp, Busy
<1> QED BY <1>1, <1>2, <1>3, <1>4, StopBeginsIInv

\* A suspend stops the next netdev.
LEMMA SuspendNextIInv == ASSUME IInv, NEW n \in Netdevs, SuspendNext(n) PROVE IInv'
<1>1. /\ rtnl.op = "none" /\ rtnl.bulk = "suspend" /\ n \in rtnl.todo /\ StopBegins(n)
      /\ UNCHANGED <<quirk, asleep, up, open, usage, pm, dma, ring, line, mask>>
  BY DEF SuspendNext, Between
<1>2. /\ up' \in [Netdevs -> BOOLEAN] /\ up'[n] = TRUE
      /\ \A m \in Netdevs : m # n => up'[m] = up[m]
  BY <1>1 DEF IInv, TypeOK, OpInOrder
<1>3. open[n]
  BY <1>1, <1>2 DEF IInv, OpenFollowsUp, Busy
<1> QED BY <1>1, <1>2, <1>3, StopBeginsIInv

\* Between two operations a step that leaves the interfaces and the hardware alone.
LEMMA BetweenOperations ==
  ASSUME IInv, rtnl.op = "none", UNCHANGED <<quirk, up, open, usage, pm, dma, ring, line, mask>>,
         rtnl' \in RtnlRecord, rtnl'.op = "none", rtnl'.n = NULL, rtnl'.pc = "idle",
         asleep' \in BOOLEAN
  PROVE  /\ TypeOK' /\ Accounts' /\ Phases' /\ LineFlags' /\ LinesServed' /\ NetpollUsed'
         /\ Users' = Users
<1>1. TypeOK'
  BY DEF IInv, TypeOK
<1>2. Users' = Users /\ rtnl.pc = "idle"
  BY RtnlFacts DEF Users
<1>3. Accounts'
  BY <1>2 DEF IInv, Accounts
<1>4. (InUse' <=> InUse) /\ (NapiOn' <=> NapiOn)
  BY <1>2 DEF InUse, LastStop, NapiOn
<1>5. Phases'
  BY <1>2, <1>4 DEF IInv, Phases
<1>6. LineFlags' /\ LinesServed' /\ NetpollUsed'
  BY <1>2, <1>4, LinesUntouched DEF Lines
<1> QED BY <1>1, <1>2, <1>3, <1>5, <1>6

\* A suspend begins with every open netdev.
LEMMA SuspendBeginIInv == ASSUME IInv, SuspendBegin PROVE IInv'
<1>1. /\ rtnl = NoOp /\ ~asleep /\ UNCHANGED <<quirk, asleep, up, open, usage, pm, dma, ring, line, mask>>
      /\ rtnl' = [NoOp EXCEPT !.bulk = "suspend", !.todo = {n \in Netdevs : up[n]}]
  BY DEF SuspendBegin
<1>2. /\ rtnl' \in RtnlRecord /\ rtnl'.op = "none" /\ rtnl'.n = NULL /\ rtnl'.pc = "idle"
      /\ rtnl'.bulk = "suspend" /\ rtnl'.todo = {n \in Netdevs : up[n]}
      /\ rtnl.op = "none" /\ rtnl.bulk = "none"
  BY <1>1 DEF NoOp, RtnlRecord
<1>3. /\ TypeOK' /\ Accounts' /\ Phases' /\ LineFlags' /\ LinesServed' /\ NetpollUsed'
      /\ Users' = Users
  <2>1. asleep' \in BOOLEAN
    BY <1>1 DEF IInv, TypeOK
  <2> QED BY <1>1, <1>2, <2>1, BetweenOperations
<1>4. \A n \in Netdevs : open[n] = up[n]
  BY <1>1, <1>2 DEF IInv, OpenFollowsUp, Busy, TypeOK
<1>5. OpInOrder'
  BY <1>1, <1>2 DEF IInv, OpInOrder, TypeOK
<1>6. OpenFollowsUp'
  BY <1>1, <1>2, <1>4 DEF OpenFollowsUp, IInv, TypeOK
<1>7. RingEmptied'
  <2>1. Users = {} => ~\E n \in Netdevs : up[n]
    BY <1>4 DEF Users
  <2> QED BY <1>1, <1>3, <2>1 DEF RingEmptied
<1> QED BY <1>3, <1>5, <1>6, <1>7 DEF IInv

\* A resume begins with the netdevs that are up.
LEMMA ResumeBeginIInv == ASSUME IInv, ResumeBegin PROVE IInv'
<1>1. /\ rtnl = NoOp /\ asleep /\ UNCHANGED <<quirk, asleep, up, open, usage, pm, dma, ring, line, mask>>
      /\ rtnl' = [NoOp EXCEPT !.bulk = "resume", !.todo = {n \in Netdevs : up[n]}]
  BY DEF ResumeBegin
<1>2. /\ rtnl' \in RtnlRecord /\ rtnl'.op = "none" /\ rtnl'.n = NULL /\ rtnl'.pc = "idle"
      /\ rtnl'.bulk = "resume" /\ rtnl'.todo = {n \in Netdevs : up[n]}
      /\ rtnl.op = "none" /\ rtnl.bulk = "none" /\ rtnl.pc = "idle"
  BY <1>1 DEF NoOp, RtnlRecord
<1>3. /\ TypeOK' /\ Accounts' /\ Phases' /\ LineFlags' /\ LinesServed' /\ NetpollUsed'
      /\ Users' = Users
  <2>1. asleep' \in BOOLEAN
    BY <1>1 DEF IInv, TypeOK
  <2> QED BY <1>1, <1>2, <2>1, BetweenOperations
<1>4. \A n \in Netdevs : open[n] = FALSE
  BY <1>1, <1>2 DEF IInv, OpenFollowsUp, Busy, TypeOK
<1>5. OpInOrder'
  BY <1>1, <1>2 DEF IInv, OpInOrder, TypeOK
<1>6. OpenFollowsUp'
  BY <1>1, <1>2, <1>4 DEF OpenFollowsUp, IInv, TypeOK
<1>7. RingEmptied'
  BY <1>1, <1>2, <1>3 DEF IInv, RingEmptied
<1> QED BY <1>3, <1>5, <1>6, <1>7 DEF IInv

\* The whole system sleeps, or is awake again.
LEMMA BulkEndIInv == ASSUME IInv, BulkEnd PROVE IInv'
<1>1. /\ rtnl.op = "none" /\ rtnl.bulk \in {"suspend", "resume"} /\ rtnl.todo = {}
      /\ asleep' = (rtnl.bulk = "suspend") /\ rtnl' = NoOp
      /\ UNCHANGED <<quirk, up, open, usage, pm, dma, ring, line, mask>>
  BY DEF BulkEnd, Between
<1>2. /\ rtnl' \in RtnlRecord /\ rtnl'.op = "none" /\ rtnl'.n = NULL /\ rtnl'.pc = "idle"
      /\ rtnl'.bulk = "none" /\ rtnl'.todo = {} /\ rtnl.pc = "idle"
  BY <1>1, RtnlFacts DEF NoOp, RtnlRecord
<1>3. /\ TypeOK' /\ Accounts' /\ Phases' /\ LineFlags' /\ LinesServed' /\ NetpollUsed'
      /\ Users' = Users
  <2>1. asleep' \in BOOLEAN
    BY <1>1
  <2> QED BY <1>1, <1>2, <2>1, BetweenOperations
<1>4. \A n \in Netdevs : open[n] = (up[n] /\ ~asleep')
  <2>1. CASE rtnl.bulk = "suspend"
    BY <1>1, <2>1 DEF IInv, OpenFollowsUp, Busy
  <2>2. CASE rtnl.bulk = "resume"
    BY <1>1, <2>2 DEF IInv, OpenFollowsUp, Busy
  <2> QED BY <1>1, <2>1, <2>2
<1>5. OpInOrder'
  BY <1>2 DEF OpInOrder
<1>6. OpenFollowsUp'
  BY <1>1, <1>2, <1>4 DEF OpenFollowsUp
<1>7. RingEmptied'
  BY <1>1, <1>2, <1>3 DEF IInv, RingEmptied
<1> QED BY <1>3, <1>5, <1>6, <1>7 DEF IInv
-----------------------------------------------------------------------------
(* The invariant, and what follows from it.                                *)

\* Every step keeps the inductive invariant.
LEMMA NextIInv == ASSUME ResumeSucceeds, IInv, [Next]_vars PROVE IInv'
<1>1. ASSUME OpenSteps PROVE IInv'
  BY <1>1, OpenQueuesIInv, OpenNapiIInv, OpenRxqsIInv, OpenFillIInv, OpenStartIInv,
     OpenEndIInv, OpenErrorIInv, OpenFailsIInv DEF OpenSteps
<1>2. ASSUME StopSteps PROVE IInv'
  BY <1>2, StopSharedIInv, StopHwIInv, StopEndIInv, NapiDisableIInv, NapiDisabledIInv
     DEF StopSteps
<1>3. ASSUME BulkSteps PROVE IInv'
  BY <1>3, BulkEndIInv, SuspendNextIInv, ResumeNextIInv DEF BulkSteps
<1>4. ASSUME NEW n \in Netdevs,
             DevOpen(n) \/ DevClose(n) \/ IntrDisable(n) \/ MaskSteps(n)
      PROVE  IInv'
  BY <1>4, DevOpenIInv, DevCloseIInv, MaskersIInv DEF MaskSteps
<1>5. ASSUME NEW i \in Lines, HwWork(i) \/ Irq(i) \/ PollBudget(i) \/ PollSteps(i)
      PROVE  IInv'
  BY <1>5, HwWorkIInv, IrqIInv, PollBudgetIInv, PollAllIInv, PollCompleteIInv, PollTailEnIInv,
     PollTailIrqIInv DEF PollSteps
<1>6. ASSUME UNCHANGED vars PROVE IInv'
  <2>1. /\ UNCHANGED <<quirk, asleep, up, open, usage, pm, dma, ring, rtnl>>
        /\ line' = line /\ mask' = mask
    BY <1>6 DEF vars
  <2>2. \A i \in Lines : line[i].off => line[i].depth > 0
    BY DEF IInv, LineFlags
  <2>3. /\ line' \in [Lines -> LineRecord]
        /\ mask' \in [Netdevs -> {"none", "timeout", "netpoll", "polled"}]
    BY <2>1 DEF IInv, TypeOK
  <2>4. /\ TypeOK' /\ OpInOrder' /\ OpenFollowsUp' /\ Accounts' /\ Phases' /\ RingEmptied'
        /\ LineFlags' /\ (InUse' <=> InUse) /\ (NapiOn' <=> NapiOn)
    BY <2>1, <2>2, <2>3, OnlyLines
  <2>5. LinesServed' /\ NetpollUsed'
    BY <2>1, <2>4 DEF IInv, LinesServed, NetpollUsed
  <2> QED BY <2>4, <2>5 DEF IInv
<1> QED BY <1>1, <1>2, <1>3, <1>4, <1>5, <1>6, SuspendBeginIInv, ResumeBeginIInv DEF Next

\* The inductive invariant, for any netdevs and any failures while the system is awake.
THEOREM Invariance == ASSUME ResumeSucceeds PROVE Spec => []IInv
<1>1. Init => IInv
  BY InitIInv
<1>2. IInv /\ [Next]_vars => IInv'
  BY NextIInv
<1> QED BY <1>1, <1>2, PTL DEF Spec

\* cpsw->usage_count, the PM references, the DMA state and every interrupt line stay in their
\* ranges: enable_irq is never called more often than disable_irq_nosync.
THEOREM TypeCorrect == ASSUME ResumeSucceeds PROVE Spec => []TypeOK
<1>1. IInv => TypeOK
  BY DEF IInv
<1> QED BY <1>1, Invariance, PTL

\* cpsw->usage_count and the runtime PM references count the open interfaces, whatever opens
\* failed.
THEOREM UsersAreCounted == ASSUME ResumeSucceeds PROVE Spec => []UsageCountsUsers
<1>1. ASSUME IInv PROVE UsageCountsUsers
  <2>1. SUFFICES ASSUME rtnl = NoOp PROVE usage = Cardinality(Users) /\ pm = usage
    BY DEF UsageCountsUsers
  <2>2. rtnl.op = "none"
    BY <2>1 DEF NoOp
  <2> QED BY <1>1, <2>2, UsersCounted DEF IInv, Accounts
<1> QED BY <1>1, Invariance, PTL

\* DMA, RX ring and NAPI are on as long as an interface is open, and off when none is: no stop
\* and no failed open takes them from another interface, none leaves them behind.
THEOREM HardwareIsShared == ASSUME ResumeSucceeds PROVE Spec => []HardwareFollowsUsers
<1>1. ASSUME IInv PROVE HardwareFollowsUsers
  <2>1. SUFFICES ASSUME rtnl = NoOp
                 PROVE  IF Users # {}
                        THEN dma = "ACTIVE" /\ ring = RxNum /\ \A i \in Lines : line[i].napi # "off"
                        ELSE dma = "IDLE" /\ \A i \in Lines : line[i].napi = "off"
    BY DEF HardwareFollowsUsers
  <2>2. rtnl.pc = "idle" /\ (InUse <=> Users # {})
    BY <1>1, <2>1, RtnlFacts DEF NoOp
  <2> QED BY <1>1, <2>2 DEF IInv, Phases
<1> QED BY <1>1, Invariance, PTL

\* No interleaving of handlers, polls, watchdogs, opens and stops leaves the interrupt of an
\* interface in use disabled, if netpoll does not call the handlers under quirk_irq.
THEOREM InterruptsComeBack ==
  ASSUME ResumeSucceeds, TRUE \notin Netpoll PROVE Spec => []InterruptsOn
<1>1. ASSUME IInv PROVE InterruptsOn
  <2>1. SUFFICES ASSUME rtnl = NoOp, Users # {}, \A n \in Netdevs : mask[n] = "none",
                        NEW i \in Lines, line[i].napi = "idle", line[i].tail = "none"
                 PROVE  line[i].en /\ line[i].depth = 0
    BY DEF InterruptsOn
  <2>2. InUse /\ NapiOn
    BY <1>1, <2>1, RtnlFacts DEF NoOp, NapiOn
  <2>3. Exact(line[i], quirk) /\ Reopens(line[i]) /\ Enabled(line[i])
    BY <1>1, <2>1, <2>2 DEF IInv, LinesServed
  <2> QED BY <2>1, <2>3 DEF Exact, Reopens, Enabled, Due
<1> QED BY <1>1, Invariance, PTL
=============================================================================

---------------------------- MODULE CpdmaProofs ----------------------------
(***************************************************************************)
(* Proofs about Cpdma, for every set of channels, descriptors, tokens and  *)
(* contexts: its types, the conservation of descriptors, the shape of the  *)
(* linked lists and the quota; then what the channels do for their users   *)
(* and with the hardware: no token is lost or returned twice, they         *)
(* implement DmaQueue, a timeout leaves every channel on, and the DMA      *)
(* follows the lists.                                                      *)
(***************************************************************************)
EXTENDS Cpdma, FiniteSetTheorems, WellFoundedInduction, TLAPS

-----------------------------------------------------------------------------
(* The inductive invariant.                                                *)

\* What a context holds at each place.
Holds(r) ==
  /\ r.cur # NULL <=> r.pc = "free"
  /\ r.pc \in {"poll", "tdwait", "drain", "clean", "chanon"} => r.ch \in Chans
  /\ r.pc \in {"free", "call"} /\ r.ret # "idle" => r.ch \in Chans

CtxInv == \A x \in Contexts : Holds(ctx[x])

\* What a submission holds: a descriptor, which has no successor before it
\* is linked, and room in the quota.
SubInv ==
  \A c \in Chans :
    /\ chan[c].sub # "none" => chan[c].new \in Desc
    /\ chan[c].sub = "alloc" => /\ desc[chan[c].new].next = NULL
                                /\ Len(fifo[c]) < DescNum[c]

\* The part of the invariant about the lists and the pool.
ListInv == SubInv /\ DescConserved /\ ListShape /\ WithinQuota

IInv == TypeOK /\ CtxInv /\ ListInv
-----------------------------------------------------------------------------
(* Sequences without repetition.                                           *)

\* What linking a descriptor behind the last does to a list without repetitions.
LEMMA AppendElements ==
  ASSUME NEW S, NEW s \in Seq(S), NEW e \in S
  PROVE  /\ Append(s, e) \in Seq(S)
         /\ Len(Append(s, e)) = Len(s) + 1
         /\ \A i \in 1..Len(s) : Append(s, e)[i] = s[i]
         /\ Append(s, e)[Len(s) + 1] = e
         /\ Elements(Append(s, e)) = Elements(s) \cup {e}
         /\ Distinct(s) /\ e \notin Elements(s) => Distinct(Append(s, e))
<1>1. /\ Append(s, e) \in Seq(S)
      /\ Len(s) \in Nat
      /\ Len(Append(s, e)) = Len(s) + 1
      /\ \A i \in 1..Len(s) : Append(s, e)[i] = s[i]
      /\ Append(s, e)[Len(s) + 1] = e
  OBVIOUS
<1>2. Elements(Append(s, e)) = Elements(s) \cup {e}
  BY <1>1 DEF Elements
<1>3. Distinct(s) /\ e \notin Elements(s) => Distinct(Append(s, e))
  BY <1>1 DEF Elements, Distinct
<1> QED BY <1>1, <1>2, <1>3

\* What unlinking the head does to such a list.
LEMMA TailElements ==
  ASSUME NEW S, NEW s \in Seq(S), Len(s) > 0
  PROVE  /\ Tail(s) \in Seq(S)
         /\ Len(Tail(s)) = Len(s) - 1
         /\ \A i \in 1..(Len(s) - 1) : Tail(s)[i] = s[i + 1]
         /\ Distinct(s) => /\ Elements(Tail(s)) = Elements(s) \ {s[1]}
                           /\ Distinct(Tail(s))
<1>1. /\ Tail(s) \in Seq(S)
      /\ Len(s) \in Nat
      /\ Len(Tail(s)) = Len(s) - 1
      /\ \A i \in 1..(Len(s) - 1) : Tail(s)[i] = s[i + 1]
  OBVIOUS
<1>2. ASSUME Distinct(s) PROVE Distinct(Tail(s))
  BY <1>1, <1>2 DEF Distinct
<1>3. ASSUME Distinct(s) PROVE Elements(Tail(s)) = Elements(s) \ {s[1]}
  <2>1. ASSUME NEW e \in Elements(Tail(s)) PROVE e \in Elements(s) \ {s[1]}
    <3>1. PICK i \in 1..(Len(s) - 1) : e = s[i + 1]
      BY <1>1, <2>1 DEF Elements
    <3>2. i + 1 \in 1..Len(s) /\ 1 \in 1..Len(s) /\ i + 1 # 1
      BY <1>1, <3>1
    <3> QED BY <3>1, <3>2, <1>3 DEF Elements, Distinct
  <2>2. ASSUME NEW e \in Elements(s) \ {s[1]} PROVE e \in Elements(Tail(s))
    <3>1. PICK i \in 1..Len(s) : e = s[i]
      BY <2>2 DEF Elements
    <3>2. i - 1 \in 1..(Len(s) - 1) /\ (i - 1) + 1 = i
      BY <1>1, <2>2, <3>1
    <3>3. Tail(s)[i - 1] = e
      BY <1>1, <3>1, <3>2
    <3> QED BY <1>1, <3>2, <3>3 DEF Elements
  <2> QED BY <2>1, <2>2
<1> QED BY <1>1, <1>2, <1>3
-----------------------------------------------------------------------------
(* Steps that leave the lists and the pool alone.                          *)

\* NULL is nothing that a field may hold besides.
LEMMA NonNull == NULL \notin Desc /\ NULL \notin Chans /\ NULL \notin Token
BY ConstantsAssumption

\* A channel record r that agrees with s on the list and the submission.
SameList(r, s) ==
  /\ r.head = s.head
  /\ r.tail = s.tail
  /\ r.count = s.count
  /\ r.sub = s.sub
  /\ r.new = s.new

\* What the list properties depend on is left alone.
ListFrame ==
  /\ UNCHANGED <<pool, fifo>>
  /\ \A c \in Chans : SameList(chan'[c], chan[c])
  /\ \A d \in Desc : desc'[d].next = desc[d].next
  /\ \A x \in Contexts : ctx'[x].cur = ctx[x].cur

\* Steps that leave every list and its descriptors alone keep the shape of the lists.
LEMMA FrameLemma ==
  ASSUME TypeOK, ListInv, ListFrame
  PROVE  ListInv'
<1> USE DEF SameList
<1>1. \A c \in Chans : /\ Len(fifo[c]) \in Nat
                       /\ \A i \in 1..Len(fifo[c]) : fifo[c][i] \in Desc
  BY DEF TypeOK
<1>2. \A c \in Chans : /\ Linking(c)' = Linking(c)
                       /\ Building(c)' = Building(c)
                       /\ Attached(c)' = Attached(c)
  BY DEF ListFrame, Linking, Building, Attached
<1>3. SubInv'
  BY DEF ListFrame, ListInv, SubInv
<1>4. DescConserved'
  BY <1>2 DEF ListFrame, ListInv, DescConserved
<1>5. ListShape'
  BY <1>1, <1>2 DEF ListFrame, ListInv, ListShape, ListShapeOf
<1>6. WithinQuota'
  BY DEF ListFrame, ListInv, WithinQuota
<1> QED BY <1>3, <1>4, <1>5, <1>6 DEF ListInv

\* One value of a function changes.
LEMMA Update ==
  ASSUME NEW S, NEW R, NEW f \in [S -> R], NEW s \in S, NEW r \in R
  PROVE  [f EXCEPT ![s] = r] \in [S -> R]
OBVIOUS

\* The locals of one context change.
LEMMA CtxUpdate ==
  ASSUME TypeOK, CtxInv, NEW x \in Contexts, NEW r \in CtxRecord, Holds(r),
         ctx' = [ctx EXCEPT ![x] = r]
  PROVE  /\ ctx' \in [Contexts -> CtxRecord]
         /\ CtxInv'
         /\ r.cur = ctx[x].cur => \A y \in Contexts : ctx'[y].cur = ctx[y].cur
<1>1. ctx \in [Contexts -> CtxRecord]
  BY DEF TypeOK
<1> QED BY <1>1, Update DEF CtxInv

\* The locals of no context change.
LEMMA CtxSame ==
  ASSUME TypeOK, CtxInv, ctx' = ctx
  PROVE  /\ ctx' \in [Contexts -> CtxRecord]
         /\ CtxInv'
         /\ \A y \in Contexts : ctx'[y].cur = ctx[y].cur
BY DEF TypeOK, CtxInv

\* A context that goes on to another place keeps the types of the contexts.
LEMMA GotoUpdate ==
  ASSUME TypeOK, CtxInv, NEW x \in Contexts, NEW p \in Places, Goto(x, p),
         ctx[x].pc # "free", p \notin {"free", "call"},
         p \in {"poll", "tdwait", "drain", "clean", "chanon"}
           => ctx[x].ch \in Chans
  PROVE  /\ ctx' \in [Contexts -> CtxRecord]
         /\ CtxInv'
         /\ \A y \in Contexts : ctx'[y].cur = ctx[y].cur
<1>1. ctx[x] \in CtxRecord /\ Holds(ctx[x])
  BY DEF TypeOK, CtxInv
<1>2. [ctx[x] EXCEPT !.pc = p] \in CtxRecord
  BY <1>1 DEF CtxRecord
<1>3. ctx' = [ctx EXCEPT ![x] = [ctx[x] EXCEPT !.pc = p]]
  BY DEF Goto
<1>4. Holds([ctx[x] EXCEPT !.pc = p])
  BY <1>1 DEF Holds, CtxRecord
<1>5. [ctx[x] EXCEPT !.pc = p].cur = ctx[x].cur
  BY <1>1 DEF CtxRecord
<1> QED BY <1>2, <1>3, <1>4, <1>5, CtxUpdate

\* So does one that begins to walk over channels.
LEMMA GotoLoopUpdate ==
  ASSUME TypeOK, CtxInv, NEW x \in Contexts, NEW p \in Places,
         NEW C \in SUBSET Chans, GotoLoop(x, p, C), ctx[x].pc # "free",
         p \notin {"free", "call", "poll", "tdwait", "drain", "clean",
                   "chanon"}
  PROVE  /\ ctx' \in [Contexts -> CtxRecord]
         /\ CtxInv'
         /\ \A y \in Contexts : ctx'[y].cur = ctx[y].cur
<1> DEFINE r == [ctx[x] EXCEPT !.pc = p, !.ch = NULL, !.todo = C]
<1>1. ctx[x] \in CtxRecord /\ Holds(ctx[x])
  BY DEF TypeOK, CtxInv
<1>2. r \in CtxRecord
  BY <1>1 DEF CtxRecord
<1>3. ctx' = [ctx EXCEPT ![x] = r]
  BY DEF GotoLoop
<1>4. Holds(r) /\ r.cur = ctx[x].cur
  BY <1>1 DEF Holds, CtxRecord
<1> HIDE DEF r
<1> QED BY <1>2, <1>3, <1>4, CtxUpdate

\* One channel's record changes, but not its list.
LEMMA ChanUpdate ==
  ASSUME TypeOK, NEW c \in Chans, NEW r \in ChanRecord, SameList(r, chan[c]),
         chan' = [chan EXCEPT ![c] = r]
  PROVE  /\ chan' \in [Chans -> ChanRecord]
         /\ \A e \in Chans : SameList(chan'[e], chan[e])
<1>1. chan \in [Chans -> ChanRecord]
  BY DEF TypeOK
<1> QED BY <1>1, Update DEF SameList

\* The state and the interrupt mask of a channel are no part of its list.
LEMMA StateUpdate ==
  ASSUME TypeOK, NEW c \in Chans, NEW s \in States, NEW b \in BOOLEAN
  PROVE  /\ [chan[c] EXCEPT !.state = s, !.inten = b] \in ChanRecord
         /\ SameList([chan[c] EXCEPT !.state = s, !.inten = b], chan[c])
         /\ [chan[c] EXCEPT !.state = s] \in ChanRecord
         /\ SameList([chan[c] EXCEPT !.state = s], chan[c])
         /\ [chan[c] EXCEPT !.inten = b] \in ChanRecord
         /\ SameList([chan[c] EXCEPT !.inten = b], chan[c])
<1>1. chan[c] \in ChanRecord
  BY DEF TypeOK
<1> QED BY <1>1 DEF ChanRecord, SameList

\* What is known of the channels when none of them changes.
LEMMA ChanSame ==
  ASSUME TypeOK, UNCHANGED <<chan, desc, pool, fifo>>
  PROVE  /\ chan' \in [Chans -> ChanRecord]
         /\ \A e \in Chans : SameList(chan'[e], chan[e])
         /\ desc' \in [Desc -> DescRecord]
         /\ \A d \in Desc : desc'[d].next = desc[d].next
BY DEF TypeOK, SameList
-----------------------------------------------------------------------------
(* The actions that leave the lists and the pool alone.                    *)

\* Steps of a context that link, unlink and free nothing keep the invariant.
LEMMA LocalFrame ==
  ASSUME IInv, LocalStep, ctx' \in [Contexts -> CtxRecord], CtxInv',
         \A y \in Contexts : ctx'[y].cur = ctx[y].cur
  PROVE  IInv'
<1>1. TypeOK' /\ ListFrame
  BY ChanSame DEF IInv, TypeOK, LocalStep, ListFrame
<1> QED BY <1>1, FrameLemma DEF IInv

\* PollStart, PollEnd and StopRefused, which only change the locals of x.
LEMMA LocalSteps ==
  ASSUME IInv, NEW x \in Contexts, NEW c \in Chans,
         PollStart(x, c) \/ PollEnd(x) \/ StopRefused(x, c)
  PROVE  IInv'
<1> USE DEF CtxRecord, Places, Holds
<1>1. TypeOK /\ CtxInv /\ ctx[x] \in CtxRecord /\ Holds(ctx[x])
  BY DEF IInv, TypeOK, CtxInv
<1>2. CASE PollStart(x, c)
  <2> DEFINE r == [ctx[x] EXCEPT !.pc = "poll", !.ch = c]
  <2>1. ctx' = [ctx EXCEPT ![x] = r] /\ ctx[x].pc = "idle" /\ LocalStep
    BY <1>2 DEF PollStart
  <2>2. r \in CtxRecord
    BY <1>1
  <2>3. Holds(r) /\ r.cur = ctx[x].cur
    BY <1>1, <2>1
  <2> HIDE DEF r
  <2> QED BY <1>1, <2>1, <2>2, <2>3, CtxUpdate, LocalFrame
<1>3. CASE PollEnd(x)
  <2> DEFINE r == [ctx[x] EXCEPT !.pc = "idle", !.ch = NULL]
  <2>1. ctx' = [ctx EXCEPT ![x] = r] /\ ctx[x].pc = "poll" /\ LocalStep
    BY <1>3 DEF PollEnd
  <2>2. r \in CtxRecord
    BY <1>1
  <2>3. Holds(r) /\ r.cur = ctx[x].cur
    BY <1>1, <2>1
  <2> HIDE DEF r
  <2> QED BY <1>1, <2>1, <2>2, <2>3, CtxUpdate, LocalFrame
<1>4. CASE StopRefused(x, c)
  <2> DEFINE r == [ctx[x] EXCEPT !.pc = "chanon", !.ch = c, !.todo = @ \ {c}]
  <2>1. ctx' = [ctx EXCEPT ![x] = r] /\ ctx[x].pc = "txloop" /\ LocalStep
    BY <1>4 DEF StopRefused
  <2>2. r \in CtxRecord
    BY <1>1
  <2>3. Holds(r) /\ r.cur = ctx[x].cur
    BY <1>1, <2>1
  <2> HIDE DEF r
  <2> QED BY <1>1, <2>1, <2>2, <2>3, CtxUpdate, LocalFrame
<1> QED BY <1>2, <1>3, <1>4

\* The steps that only move a context from one place to another.
LEMMA GotoSteps ==
  ASSUME IInv, NEW x \in Contexts,
         DrainEnd(x) \/ IntOnEnd(x) \/ TxTimeout(x) \/ TxLoop(x) \/ TxLoopEnd(x)
         \/ CtlrStartEnd \/ SecondOpen \/ LastStop
  PROVE  IInv'
<1>1. TypeOK /\ CtxInv /\ Holds(ctx[x]) /\ Rtnl \in Contexts
  BY DEF IInv, CtxInv, Contexts
<1>2. CASE DrainEnd(x)
  <2>1. Goto(x, "clean") /\ ctx[x].pc = "drain" /\ LocalStep
    BY <1>2 DEF DrainEnd
  <2> QED BY <1>1, <2>1, GotoUpdate, LocalFrame DEF Places, Holds
<1>3. CASE IntOnEnd(x)
  <2>1. Goto(x, "idle") /\ ctx[x].pc = "inton" /\ LocalStep
    BY <1>3 DEF IntOnEnd
  <2> QED BY <1>1, <2>1, GotoUpdate, LocalFrame DEF Places
<1>4. CASE TxTimeout(x)
  <2>1. GotoLoop(x, "intoff", Chans) /\ ctx[x].pc = "idle" /\ LocalStep
    BY <1>4 DEF TxTimeout
  <2> QED BY <1>1, <2>1, GotoLoopUpdate, LocalFrame DEF Places
<1>5. CASE TxLoop(x)
  <2>1. GotoLoop(x, "txloop", TxChans) /\ ctx[x].pc = "intoff" /\ LocalStep
    BY <1>5 DEF TxLoop
  <2>2. TxChans \in SUBSET Chans
    BY DEF Chans
  <2> QED BY <1>1, <2>1, <2>2, GotoLoopUpdate, LocalFrame DEF Places
<1>6. CASE TxLoopEnd(x)
  <2>1. GotoLoop(x, "inton", Chans) /\ ctx[x].pc = "txloop" /\ LocalStep
    BY <1>6 DEF TxLoopEnd
  <2> QED BY <1>1, <2>1, GotoLoopUpdate, LocalFrame DEF Places
<1>7. CASE CtlrStartEnd
  <2>1. GotoLoop(Rtnl, "inton", Chans) /\ ctx[Rtnl].pc = "ctlron" /\ LocalStep
    BY <1>7 DEF CtlrStartEnd
  <2> QED BY <1>1, <2>1, GotoLoopUpdate, LocalFrame DEF Places
<1>8. CASE SecondOpen
  <2>1. GotoLoop(Rtnl, "inton", Chans) /\ ctx[Rtnl].pc = "idle" /\ LocalStep
    BY <1>8 DEF SecondOpen
  <2> QED BY <1>1, <2>1, GotoLoopUpdate, LocalFrame DEF Places
<1>9. CASE LastStop
  <2>1. GotoLoop(Rtnl, "intoff", Chans) /\ ctx[Rtnl].pc = "idle" /\ LocalStep
    BY <1>1, <1>9 DEF LastStop
  <2> QED BY <1>1, <2>1, GotoLoopUpdate, LocalFrame DEF Places
<1> QED BY <1>2, <1>3, <1>4, <1>5, <1>6, <1>7, <1>8, <1>9

\* The handler returns.
LEMMA CallStep ==
  ASSUME IInv, NEW x \in Contexts, Call(x)
  PROVE  IInv'
<1> DEFINE r == [ctx[x] EXCEPT !.pc = ctx[x].ret, !.tok = NULL, !.ret = "idle",
                   !.ch = IF ctx[x].ret = "idle" THEN NULL ELSE ctx[x].ch]
<1>1. TypeOK /\ CtxInv /\ ctx[x] \in CtxRecord /\ Holds(ctx[x])
  BY DEF IInv, TypeOK, CtxInv
<1>2. /\ ctx' = [ctx EXCEPT ![x] = r]
      /\ ctx[x].pc = "call"
      /\ out' = out \ {ctx[x].tok}
      /\ UNCHANGED <<ctlrState, chan, desc, pool, hw, fifo>>
  BY DEF Call
<1>3. r \in CtxRecord
  BY <1>1 DEF CtxRecord, Places
<1>4. Holds(r) /\ r.cur = ctx[x].cur
  BY <1>1, <1>2 DEF CtxRecord, Places, Holds
<1> HIDE DEF r
<1>5. /\ ctx' \in [Contexts -> CtxRecord]
      /\ CtxInv'
      /\ \A y \in Contexts : ctx'[y].cur = ctx[y].cur
  BY <1>1, <1>2, <1>3, <1>4, CtxUpdate
<1>6. TypeOK' /\ ListFrame
  BY <1>1, <1>2, <1>5, ChanSame DEF TypeOK, ListFrame
<1> QED BY <1>5, <1>6, FrameLemma DEF IInv

\* The frame of a step that may change one channel's state, the registers
\* and the flags of descriptors.
LEMMA HwFrame ==
  ASSUME IInv, ctlrState' \in States, hw' \in [Chans -> HwRecord],
         UNCHANGED <<pool, out, fifo>>,
         chan' \in [Chans -> ChanRecord],
         \A e \in Chans : SameList(chan'[e], chan[e]),
         desc' \in [Desc -> DescRecord],
         \A d \in Desc : desc'[d].next = desc[d].next,
         ctx' \in [Contexts -> CtxRecord], CtxInv',
         \A y \in Contexts : ctx'[y].cur = ctx[y].cur
  PROVE  IInv'
<1>1. TypeOK' /\ ListFrame
  BY DEF IInv, TypeOK, ListFrame
<1> QED BY <1>1, FrameLemma DEF IInv

\* The values the registers of a channel take.
LEMMA HwUpdate ==
  ASSUME TypeOK, NEW c \in Chans, NEW h \in HwRecord
  PROVE  /\ [hw EXCEPT ![c] = h] \in [Chans -> HwRecord]
         /\ [h EXCEPT !.td = TRUE] \in HwRecord
         /\ [h EXCEPT !.cpTd = FALSE] \in HwRecord
         /\ [h EXCEPT !.hdp = NULL, !.td = FALSE, !.cpTd = TRUE] \in HwRecord
         /\ \A n \in Desc \cup {NULL} :
              /\ [h EXCEPT !.latch = n] \in HwRecord
              /\ StartedOn(h, n) \in HwRecord
         /\ \A n \in Int : WithCredit(c, h, n) \in HwRecord
<1>1. hw \in [Chans -> HwRecord]
  BY DEF TypeOK
<1>2. [hw EXCEPT ![c] = h] \in [Chans -> HwRecord]
  BY <1>1, Update
<1>3. /\ [h EXCEPT !.td = TRUE] \in HwRecord
      /\ [h EXCEPT !.cpTd = FALSE] \in HwRecord
      /\ [h EXCEPT !.hdp = NULL, !.td = FALSE, !.cpTd = TRUE] \in HwRecord
  BY DEF HwRecord
<1>4. ASSUME NEW n \in Desc \cup {NULL}
      PROVE  [h EXCEPT !.latch = n] \in HwRecord /\ StartedOn(h, n) \in HwRecord
  BY <1>4 DEF HwRecord, StartedOn
<1>5. ASSUME NEW n \in Int PROVE WithCredit(c, h, n) \in HwRecord
  BY <1>5 DEF HwRecord, WithCredit
<1> QED BY <1>1, <1>2, <1>3, <1>4, <1>5

\* The type of the registers when they do not change.
LEMMA HwSame == TypeOK /\ UNCHANGED hw => hw' \in [Chans -> HwRecord]
BY DEF TypeOK

\* cpdma_chan_on changes the state and the registers of one channel.
LEMMA TurnOnLemma ==
  ASSUME TypeOK, NEW c \in Chans, TurnOn(c)
  PROVE  /\ chan' \in [Chans -> ChanRecord]
         /\ \A e \in Chans : SameList(chan'[e], chan[e])
         /\ hw' \in [Chans -> HwRecord]
<1>1. /\ chan \in [Chans -> ChanRecord]
      /\ chan[c] \in ChanRecord
      /\ hw \in [Chans -> HwRecord]
      /\ hw[c] \in HwRecord
  BY DEF TypeOK
<1>2. CASE ~(chan[c].state = "IDLE" /\ ctlrState = "ACTIVE")
  BY <1>1, <1>2 DEF TurnOn, SameList
<1>3. CASE chan[c].state = "IDLE" /\ ctlrState = "ACTIVE"
  <2> DEFINE r == [chan[c] EXCEPT !.state = "ACTIVE", !.inten = TRUE]
             g == StartedOn(hw[c], chan[c].head)
             h == WithCredit(c, g, chan[c].count)
  <2>1. r \in ChanRecord /\ SameList(r, chan[c])
    BY StateUpdate DEF States
  <2>2. chan' = [chan EXCEPT ![c] = r]
    BY <1>3 DEF TurnOn
  <2>3. hw' = hw \/ hw' = [hw EXCEPT ![c] = h]
    BY <1>3 DEF TurnOn
  <2>4. chan[c].head \in Desc \cup {NULL} /\ chan[c].count \in Int
    BY <1>1 DEF ChanRecord
  <2>5. g \in HwRecord
    BY <1>1, <2>4, HwUpdate
  <2> HIDE DEF r, g
  <2>7. h \in HwRecord
    BY <2>4, <2>5, HwUpdate
  <2> HIDE DEF h
  <2>8. [hw EXCEPT ![c] = h] \in [Chans -> HwRecord]
    BY <2>7, HwUpdate
  <2> QED BY <1>1, <2>1, <2>2, <2>3, <2>8, ChanUpdate
<1> QED BY <1>2, <1>3

\* The type of the descriptors when they do not change.
LEMMA DescSame ==
  ASSUME TypeOK, UNCHANGED desc
  PROVE  /\ desc' \in [Desc -> DescRecord]
         /\ \A d \in Desc : desc'[d].next = desc[d].next
BY DEF TypeOK

\* The masks of all channels are cleared.
LEMMA MaskAll ==
  ASSUME TypeOK, chan' = [c \in Chans |-> [chan[c] EXCEPT !.inten = FALSE]]
  PROVE  /\ chan' \in [Chans -> ChanRecord]
         /\ \A e \in Chans : SameList(chan'[e], chan[e])
<1>1. \A c \in Chans : /\ [chan[c] EXCEPT !.inten = FALSE] \in ChanRecord
                       /\ SameList([chan[c] EXCEPT !.inten = FALSE], chan[c])
  BY StateUpdate DEF States
<1> QED BY <1>1 DEF SameList

\* cpdma_chan_stop, but for the descriptors it reclaims.
LEMMA StopFrameSteps ==
  ASSUME IInv, NEW x \in Contexts, NEW c \in Chans,
         StopBegin(x, c) \/ StopAck(x) \/ StopEnd(x)
  PROVE  IInv'
<1>1. /\ TypeOK /\ CtxInv /\ ctx[x] \in CtxRecord /\ Holds(ctx[x])
      /\ ctlrState \in States
      /\ hw[c] \in HwRecord
  BY DEF IInv, TypeOK, CtxInv
<1>2. CASE StopBegin(x, c)
  <2> DEFINE r == [ctx[x] EXCEPT !.pc = "tdwait", !.ch = c, !.todo = @ \ {c}]
             q == [chan[c] EXCEPT !.state = "TEARDOWN", !.inten = FALSE]
             h == [hw[c] EXCEPT !.td = TRUE]
  <2>1. /\ ctx' = [ctx EXCEPT ![x] = r]
        /\ chan' = [chan EXCEPT ![c] = q]
        /\ hw' = [hw EXCEPT ![c] = h]
        /\ ctx[x].pc \in {"txloop", "ctlrstop"}
        /\ UNCHANGED <<ctlrState, desc, pool, out, fifo>>
    BY <1>2 DEF StopBegin
  <2>2. r \in CtxRecord
    BY <1>1 DEF CtxRecord, Places
  <2>3. Holds(r) /\ r.cur = ctx[x].cur
    BY <1>1, <2>1 DEF CtxRecord, Holds
  <2>4. q \in ChanRecord /\ SameList(q, chan[c])
    BY <1>1, StateUpdate DEF States
  <2>5. h \in HwRecord
    BY <1>1, HwUpdate
  <2> HIDE DEF r, q, h
  <2>6. hw' \in [Chans -> HwRecord]
    BY <1>1, <2>1, <2>5, HwUpdate
  <2>7. /\ chan' \in [Chans -> ChanRecord]
        /\ \A e \in Chans : SameList(chan'[e], chan[e])
    BY <1>1, <2>1, <2>4, ChanUpdate
  <2>8. /\ ctx' \in [Contexts -> CtxRecord]
        /\ CtxInv'
        /\ \A y \in Contexts : ctx'[y].cur = ctx[y].cur
    BY <1>1, <2>1, <2>2, <2>3, CtxUpdate
  <2> QED BY <1>1, <2>1, <2>6, <2>7, <2>8, DescSame, HwFrame
<1>3. CASE StopAck(x)
  <2> DEFINE e == ctx[x].ch
             h == [hw[e] EXCEPT !.cpTd = FALSE]
  <2>1. /\ hw' = [hw EXCEPT ![e] = h]
        /\ Goto(x, "drain")
        /\ ctx[x].pc = "tdwait"
        /\ UNCHANGED <<ctlrState, chan, desc, pool, out, fifo>>
    BY <1>3 DEF StopAck
  <2>2. e \in Chans
    BY <1>1, <2>1 DEF Holds
  <2>3. hw[e] \in HwRecord
    BY <2>2 DEF IInv, TypeOK
  <2>6. h \in HwRecord
    BY <1>1, <2>2, <2>3, HwUpdate
  <2> HIDE DEF e, h
  <2>4. hw' \in [Chans -> HwRecord]
    BY <1>1, <2>1, <2>2, <2>6, HwUpdate
  <2>5. /\ ctx' \in [Contexts -> CtxRecord]
        /\ CtxInv'
        /\ \A y \in Contexts : ctx'[y].cur = ctx[y].cur
    BY <1>1, <2>1, GotoUpdate DEF Places, Holds
  <2> QED BY <1>1, <2>1, <2>4, <2>5, ChanSame, HwFrame
<1>4. CASE StopEnd(x)
  <2> DEFINE e == ctx[x].ch
             q == [chan[e] EXCEPT !.state = "IDLE"]
             p == IF x = Rtnl THEN "ctlrstop" ELSE "chanon"
  <2>1. /\ chan' = [chan EXCEPT ![e] = q]
        /\ Goto(x, p)
        /\ ctx[x].pc = "clean"
        /\ UNCHANGED <<ctlrState, desc, pool, hw, out, fifo>>
    BY <1>4 DEF StopEnd
  <2>2. e \in Chans
    BY <1>1, <2>1 DEF Holds
  <2>3. q \in ChanRecord /\ SameList(q, chan[e])
    BY <1>1, <2>2, StateUpdate DEF States
  <2>4. p \in Places /\ p \notin {"free", "call"}
    BY DEF Places
  <2> HIDE DEF q, p
  <2>5. /\ chan' \in [Chans -> ChanRecord]
        /\ \A f \in Chans : SameList(chan'[f], chan[f])
    BY <1>1, <2>1, <2>2, <2>3, ChanUpdate
  <2>6. /\ ctx' \in [Contexts -> CtxRecord]
        /\ CtxInv'
        /\ \A y \in Contexts : ctx'[y].cur = ctx[y].cur
    BY <1>1, <2>1, <2>2, <2>4, GotoUpdate
  <2> QED BY <1>1, <2>1, <2>5, <2>6, HwSame, DescSame, HwFrame
<1> QED BY <1>2, <1>3, <1>4

\* cpdma_chan_on, in the watchdog and in cpdma_ctlr_start, and
\* cpdma_chan_int_ctrl.
LEMMA StartSteps ==
  ASSUME IInv, NEW x \in Contexts, NEW c \in Chans,
         ChanStart(x) \/ CtlrChanOn(c) \/ ChanIntCtrl(x, c)
  PROVE  IInv'
<1>1. /\ TypeOK /\ CtxInv /\ ctx[x] \in CtxRecord /\ Holds(ctx[x])
      /\ ctlrState \in States
  BY DEF IInv, TypeOK, CtxInv
<1>2. ASSUME NEW y \in Contexts, ctx' = [ctx EXCEPT ![y].todo = @ \ {c}]
      PROVE  /\ ctx' \in [Contexts -> CtxRecord]
             /\ CtxInv'
             /\ \A z \in Contexts : ctx'[z].cur = ctx[z].cur
  <2> DEFINE r == [ctx[y] EXCEPT !.todo = @ \ {c}]
  <2>1. ctx[y] \in CtxRecord /\ Holds(ctx[y])
    BY DEF IInv, TypeOK, CtxInv
  <2>2. ctx' = [ctx EXCEPT ![y] = r]
    BY <1>2
  <2>3. r \in CtxRecord
    BY <2>1 DEF CtxRecord
  <2>4. Holds(r) /\ r.cur = ctx[y].cur
    BY <2>1 DEF CtxRecord, Holds
  <2> HIDE DEF r
  <2> QED BY <1>1, <2>2, <2>3, <2>4, CtxUpdate
<1>3. CASE ChanStart(x)
  <2>1. /\ TurnOn(ctx[x].ch)
        /\ Goto(x, "txloop")
        /\ ctx[x].pc = "chanon"
        /\ UNCHANGED <<ctlrState, desc, pool, out, fifo>>
    BY <1>3 DEF ChanStart
  <2>2. ctx[x].ch \in Chans
    BY <1>1, <2>1 DEF Holds
  <2>3. /\ ctx' \in [Contexts -> CtxRecord]
        /\ CtxInv'
        /\ \A y \in Contexts : ctx'[y].cur = ctx[y].cur
    BY <1>1, <2>1, GotoUpdate DEF Places
  <2> QED BY <1>1, <2>1, <2>2, <2>3, TurnOnLemma, DescSame, HwFrame
<1>4. CASE CtlrChanOn(c)
  <2>1. /\ TurnOn(c)
        /\ ctx' = [ctx EXCEPT ![Rtnl].todo = @ \ {c}]
        /\ UNCHANGED <<ctlrState, desc, pool, out, fifo>>
        /\ Rtnl \in Contexts
    BY <1>4 DEF CtlrChanOn, Contexts
  <2> QED BY <1>1, <1>2, <2>1, TurnOnLemma, DescSame, HwFrame
<1>5. CASE ChanIntCtrl(x, c)
  <2> DEFINE q == [chan[c] EXCEPT !.inten = (ctx[x].pc = "inton")]
  <2>1. /\ chan' = chan \/ chan' = [chan EXCEPT ![c] = q]
        /\ ctx' = [ctx EXCEPT ![x].todo = @ \ {c}]
        /\ UNCHANGED <<ctlrState, desc, pool, hw, out, fifo>>
    BY <1>5 DEF ChanIntCtrl
  <2>2. q \in ChanRecord /\ SameList(q, chan[c])
    BY <1>1, StateUpdate DEF States
  <2> HIDE DEF q
  <2>3. /\ chan' \in [Chans -> ChanRecord]
        /\ \A f \in Chans : SameList(chan'[f], chan[f])
    BY <1>1, <2>1, <2>2, ChanUpdate, ChanSame
  <2> QED BY <1>1, <1>2, <2>1, <2>3, HwSame, DescSame, HwFrame
<1> QED BY <1>3, <1>4, <1>5

\* cpdma_ctlr_start and cpdma_ctlr_stop, but for their loops.
LEMMA CtlrSteps ==
  ASSUME IInv, CtlrStart \/ CtlrStop \/ CtlrStopEnd
  PROVE  IInv'
<1>1. TypeOK /\ CtxInv /\ Rtnl \in Contexts
  BY DEF IInv, Contexts
<1>2. CASE CtlrStart
  <2>1. /\ hw' = [c \in Chans |-> HwReset]
        /\ chan' = [c \in Chans |-> [chan[c] EXCEPT !.inten = FALSE]]
        /\ GotoLoop(Rtnl, "ctlron", Chans)
        /\ ctx[Rtnl].pc = "idle"
        /\ ctlrState' = "ACTIVE"
        /\ UNCHANGED <<desc, pool, out, fifo>>
    BY <1>2 DEF CtlrStart
  <2>2. HwReset \in HwRecord
    BY DEF HwReset, HwRecord
  <2>3. /\ ctx' \in [Contexts -> CtxRecord]
        /\ CtxInv'
        /\ \A y \in Contexts : ctx'[y].cur = ctx[y].cur
    BY <1>1, <2>1, GotoLoopUpdate DEF Places
  <2>4. hw' \in [Chans -> HwRecord] /\ ctlrState' \in States
    BY <2>1, <2>2 DEF States
  <2> QED BY <1>1, <2>1, <2>3, <2>4, MaskAll, DescSame, HwFrame
<1>3. CASE CtlrStop
  <2>1. /\ GotoLoop(Rtnl, "ctlrstop", Chans)
        /\ ctx[Rtnl].pc = "intoff"
        /\ ctlrState' = "TEARDOWN"
        /\ UNCHANGED <<chan, desc, pool, hw, out, fifo>>
    BY <1>3 DEF CtlrStop
  <2>2. /\ ctx' \in [Contexts -> CtxRecord]
        /\ CtxInv'
        /\ \A y \in Contexts : ctx'[y].cur = ctx[y].cur
    BY <1>1, <2>1, GotoLoopUpdate DEF Places
  <2>3. ctlrState' \in States
    BY <2>1 DEF States
  <2> QED BY <1>1, <2>1, <2>2, <2>3, ChanSame, HwSame, HwFrame
<1>4. CASE CtlrStopEnd
  <2>1. /\ chan' = [c \in Chans |-> [chan[c] EXCEPT !.inten = FALSE]]
        /\ GotoLoop(Rtnl, "idle", {})
        /\ ctx[Rtnl].pc = "ctlrstop"
        /\ ctlrState' = "IDLE"
        /\ UNCHANGED <<desc, pool, hw, out, fifo>>
    BY <1>4 DEF CtlrStopEnd
  <2>2. /\ ctx' \in [Contexts -> CtxRecord]
        /\ CtxInv'
        /\ \A y \in Contexts : ctx'[y].cur = ctx[y].cur
    BY <1>1, <2>1, GotoLoopUpdate DEF Places
  <2>3. ctlrState' \in States
    BY <2>1 DEF States
  <2> QED BY <1>1, <2>1, <2>2, <2>3, MaskAll, HwSame, DescSame, HwFrame
<1> QED BY <1>2, <1>3, <1>4

\* The flags of one descriptor change.
LEMMA ModeUpdate ==
  ASSUME TypeOK, NEW d \in Desc, NEW m \in SUBSET Flags,
         desc' = [desc EXCEPT ![d].mode = m]
  PROVE  /\ desc' \in [Desc -> DescRecord]
         /\ \A e \in Desc : desc'[e].next = desc[e].next
<1>1. desc \in [Desc -> DescRecord] /\ desc[d] \in DescRecord
  BY DEF TypeOK
<1>2. [desc[d] EXCEPT !.mode = m] \in DescRecord
  BY <1>1 DEF DescRecord
<1>3. desc' = [desc EXCEPT ![d] = [desc[d] EXCEPT !.mode = m]]
  OBVIOUS
<1>4. [desc[d] EXCEPT !.mode = m].next = desc[d].next
  BY <1>1 DEF DescRecord
<1> QED BY <1>1, <1>2, <1>3, <1>4, Update

\* The hardware writes modes and registers, never a list.
LEMMA HwSteps ==
  ASSUME IInv, NEW c \in Chans, HwFetch(c) \/ HwComplete(c) \/ HwTeardown(c)
  PROVE  IInv'
<1>1. /\ TypeOK /\ CtxInv
      /\ ctlrState \in States
      /\ hw[c] \in HwRecord
      /\ hw[c].hdp \in Desc \cup {NULL}
  BY DEF IInv, TypeOK, HwRecord
<1>2. /\ UNCHANGED <<ctlrState, chan, pool, ctx, out, fifo>>
      /\ chan' \in [Chans -> ChanRecord]
      /\ \A e \in Chans : SameList(chan'[e], chan[e])
  <2>1. UNCHANGED <<ctlrState, chan, pool, ctx, out, fifo>>
    BY DEF HwFetch, HwComplete, HwTeardown, HwStep
  <2> QED BY <1>1, <2>1 DEF TypeOK, SameList
<1>3. ASSUME hw' \in [Chans -> HwRecord],
             desc' \in [Desc -> DescRecord],
             \A d \in Desc : desc'[d].next = desc[d].next
      PROVE  IInv'
  BY <1>1, <1>2, <1>3, CtxSame, HwFrame
<1>4. CASE HwFetch(c)
  <2> DEFINE n == desc[hw[c].hdp].next
             h == [hw[c] EXCEPT !.latch = n]
  <2>1. hw' = [hw EXCEPT ![c] = h] /\ UNCHANGED desc /\ hw[c].hdp # NULL
    BY <1>4 DEF HwFetch
  <2>2. desc[hw[c].hdp] \in DescRecord
    BY <1>1, <2>1 DEF TypeOK
  <2>3. n \in Desc \cup {NULL}
    BY <2>2 DEF DescRecord
  <2>4. h \in HwRecord
    BY <1>1, <2>3, HwUpdate
  <2> HIDE DEF h
  <2>5. hw' \in [Chans -> HwRecord]
    BY <1>1, <2>1, <2>4, HwUpdate
  <2> QED BY <1>1, <1>3, <2>1, <2>5, DescSame
<1>5. CASE HwComplete(c)
  <2> DEFINE n == hw[c].latch
             d == hw[c].hdp
             m == (desc[d].mode \ {"OWNER"})
                  \cup (IF n = NULL THEN {"EOQ"} ELSE {})
             k == hw[c].rxfree - 1
             g == StartedOn(hw[c], n)
             h == WithCredit(c, g, k)
  <2>1. /\ hw' = [hw EXCEPT ![c] = h]
        /\ desc' = [desc EXCEPT ![d].mode = m]
        /\ d # NULL
        /\ n # Unread
    BY <1>5 DEF HwComplete
  <2>2. d \in Desc /\ n \in Desc \cup {NULL}
    BY <1>1, <2>1 DEF HwRecord
  <2>3. desc[d] \in DescRecord
    BY <1>1, <2>2 DEF TypeOK
  <2>4. m \in SUBSET Flags
    BY <2>3 DEF DescRecord, Flags
  <2>5. k \in Int
    BY <1>1 DEF HwRecord
  <2>6. g \in HwRecord
    BY <1>1, <2>2, HwUpdate
  <2> HIDE DEF g, k
  <2>7. h \in HwRecord
    BY <1>1, <2>5, <2>6, HwUpdate
  <2> HIDE DEF h, m, d
  <2>8. hw' \in [Chans -> HwRecord]
    BY <1>1, <2>1, <2>7, HwUpdate
  <2> QED BY <1>1, <1>3, <2>1, <2>2, <2>4, <2>8, ModeUpdate
<1>6. CASE HwTeardown(c)
  <2> DEFINE h == [hw[c] EXCEPT !.hdp = NULL, !.td = FALSE, !.cpTd = TRUE]
             d == hw[c].hdp
  <2>1. /\ hw' = [hw EXCEPT ![c] = h]
        /\ desc' = IF d = NULL THEN desc ELSE [desc EXCEPT ![d].mode = {"TD"}]
    BY <1>6 DEF HwTeardown
  <2>2. h \in HwRecord
    BY <1>1, HwUpdate
  <2> HIDE DEF h
  <2>3. hw' \in [Chans -> HwRecord]
    BY <1>1, <2>1, <2>2, HwUpdate
  <2>4. {"TD"} \in SUBSET Flags
    BY DEF Flags
  <2> QED BY <1>1, <1>3, <2>1, <2>3, <2>4, DescSame, ModeUpdate
<1> QED BY <1>4, <1>5, <1>6
-----------------------------------------------------------------------------
(* The actions that change the lists or the pool.                          *)

\* The list of a channel that a step does not concern.
LEMMA OtherList ==
  ASSUME NEW e \in Chans, SubInv, ListShape, SameList(chan'[e], chan[e]),
         fifo'[e] = fifo[e],
         \A i \in 1..Len(fifo[e]) :
           desc'[fifo[e][i]].next = desc[fifo[e][i]].next,
         chan[e].sub = "alloc" =>
           desc'[chan[e].new].next = desc[chan[e].new].next
  PROVE  /\ ListShapeOf(e)'
         /\ Linking(e)' = Linking(e)
         /\ Building(e)' = Building(e)
         /\ Attached(e)' = Attached(e)
         /\ chan'[e].sub # "none" => chan'[e].new \in Desc
         /\ chan'[e].sub = "alloc" => /\ desc'[chan'[e].new].next = NULL
                                      /\ Len(fifo'[e]) < DescNum[e]
<1>1. /\ Linking(e)' = Linking(e)
      /\ Building(e)' = Building(e)
      /\ Attached(e)' = Attached(e)
  BY DEF Linking, Building, Attached, SameList
<1>2. ListShapeOf(e)'
  BY <1>1 DEF ListShape, ListShapeOf, SameList
<1>3. /\ chan'[e].sub # "none" => chan'[e].new \in Desc
      /\ chan'[e].sub = "alloc" => /\ desc'[chan'[e].new].next = NULL
                                   /\ Len(fifo'[e]) < DescNum[e]
  BY DEF SubInv, SameList
<1> QED BY <1>1, <1>2, <1>3

\* What the invariant says of one channel.
LEMMA ListFacts ==
  ASSUME IInv, NEW c \in Chans
  PROVE  /\ fifo[c] \in Seq(Desc)
         /\ Len(fifo[c]) \in Nat
         /\ \A i \in 1..Len(fifo[c]) : /\ fifo[c][i] \in Desc
                                       /\ fifo[c][i] \in Elements(fifo[c])
         /\ chan \in [Chans -> ChanRecord]
         /\ chan[c] \in ChanRecord
         /\ DescNum[c] \in Nat
         /\ ListShapeOf(c)
         /\ Len(fifo[c]) <= DescNum[c]
         /\ Distinct(fifo[c])
         /\ ~Locked(c) => Linking(c) = 0 /\ Building(c) = {}
<1>1. /\ fifo[c] \in Seq(Desc)
      /\ chan \in [Chans -> ChanRecord]
      /\ chan[c] \in ChanRecord
      /\ DescNum[c] \in Nat
  BY ConstantsAssumption DEF IInv, TypeOK
<1>2. \A i \in 1..Len(fifo[c]) : fifo[c][i] \in Elements(fifo[c])
  BY DEF Elements
<1>3. ListShapeOf(c) /\ Len(fifo[c]) <= DescNum[c] /\ Distinct(fifo[c])
  BY DEF IInv, ListInv, ListShape, WithinQuota, DescConserved
<1>4. ~Locked(c) => Linking(c) = 0 /\ Building(c) = {}
  BY DEF Locked, Linking, Building
<1> QED BY <1>1, <1>2, <1>3, <1>4

\* A descriptor leaves the pool for the submission.
LEMMA AllocateStep ==
  ASSUME IInv, NEW c \in Chans, Allocate(c)
  PROVE  IInv'
<1>1. PICK d \in pool, t \in Token :
        /\ pool' = pool \ {d}
        /\ desc' = [desc EXCEPT ![d] =
                      [next |-> NULL, mode |-> {"OWNER"}, token |-> t]]
        /\ out' = out \cup {t}
        /\ chan' = [chan EXCEPT ![c].sub = "alloc", ![c].new = d]
  BY DEF Allocate
<1> DEFINE q == [chan[c] EXCEPT !.sub = "alloc", !.new = d]
           p == [next |-> NULL, mode |-> {"OWNER"}, token |-> t]
<1>2. /\ UNCHANGED <<ctlrState, hw, ctx, fifo>>
      /\ ~Locked(c)
      /\ chan[c].count < DescNum[c]
      /\ chan[c].sub = "none"
  BY DEF Allocate, Locked, HasRoom
<1>3. TypeOK /\ CtxInv /\ d \in Desc /\ desc \in [Desc -> DescRecord]
  BY DEF IInv, TypeOK
<1>4. q \in ChanRecord /\ chan' = [chan EXCEPT ![c] = q] /\ p \in DescRecord
  BY <1>1, <1>3, ListFacts, ZenonT(40) DEF ChanRecord, DescRecord, Flags
<1>5. /\ chan' \in [Chans -> ChanRecord]
      /\ desc' \in [Desc -> DescRecord]
      /\ \A e \in Desc \ {d} : desc'[e] = desc[e]
      /\ desc'[d].next = NULL
  BY <1>1, <1>3, <1>4, ListFacts, Update
<1>6. TypeOK' /\ CtxInv'
  BY <1>1, <1>2, <1>3, <1>5, CtxSame DEF TypeOK
<1>7. /\ chan'[c].head = chan[c].head
      /\ chan'[c].tail = chan[c].tail
      /\ chan'[c].count = chan[c].count
      /\ chan'[c].sub = "alloc"
      /\ chan'[c].new = d
      /\ \A e \in Chans \ {c} : chan'[e] = chan[e]
  BY <1>1, ListFacts DEF ChanRecord
<1>8. \A e \in Chans : d \notin Attached(e)
  BY <1>1 DEF IInv, ListInv, DescConserved
<1>9. ASSUME NEW e \in Chans \ {c}
      PROVE  /\ ListShapeOf(e)'
             /\ Building(e)' = Building(e)
             /\ Attached(e)' = Attached(e)
             /\ chan'[e].sub # "none" => chan'[e].new \in Desc
             /\ chan'[e].sub = "alloc" => /\ desc'[chan'[e].new].next = NULL
                                          /\ Len(fifo'[e]) < DescNum[e]
  <2>1. SameList(chan'[e], chan[e]) /\ fifo'[e] = fifo[e]
    BY <1>2, <1>7 DEF SameList
  <2>2. \A i \in 1..Len(fifo[e]) :
           desc'[fifo[e][i]].next = desc[fifo[e][i]].next
    BY <1>5, <1>8, ListFacts DEF Attached
  <2>3. chan[e].sub = "alloc" =>
           desc'[chan[e].new].next = desc[chan[e].new].next
    BY <1>5, <1>8 DEF Attached, Building, IInv, ListInv, SubInv
  <2> QED BY <2>1, <2>2, <2>3, OtherList DEF IInv, ListInv
<1>10. /\ Linking(c) = 0 /\ Linking(c)' = 0
       /\ Building(c) = {} /\ Building(c)' = {d}
       /\ Attached(c)' = Attached(c) \cup {d}
  BY <1>2, <1>7 DEF Linking, Building, Attached
<1>11. ListShapeOf(c)'
  <2>1. \A i \in 1..Len(fifo[c]) :
           desc'[fifo[c][i]].next = desc[fifo[c][i]].next
    BY <1>5, <1>8, ListFacts DEF Attached
  <2> QED BY <1>2, <1>7, <1>10, <2>1, ListFacts DEF ListShapeOf
<1>12. Len(fifo[c]) < DescNum[c]
  BY <1>2, <1>10, ListFacts DEF ListShapeOf
<1>13. SubInv'
  BY <1>2, <1>3, <1>5, <1>7, <1>9, <1>12 DEF SubInv
<1>14. DescConserved'
  <2>1. \A f \in Desc : \/ f \in pool'
                        \/ \E e \in Chans : f \in Attached(e)'
                        \/ \E x \in Contexts : ctx'[x].cur = f
    BY <1>1, <1>2, <1>9, <1>10 DEF IInv, ListInv, DescConserved
  <2>2. ASSUME NEW e \in Chans
        PROVE  /\ pool' \cap Attached(e)' = {}
               /\ Building(e)' \cap Elements(fifo'[e]) = {}
               /\ Distinct(fifo'[e])
               /\ \A f \in Chans \ {e} : Attached(e)' \cap Attached(f)' = {}
    <3>1. /\ pool \cap Attached(e) = {}
          /\ Building(e) \cap Elements(fifo[e]) = {}
          /\ Distinct(fifo[e])
          /\ \A f \in Chans \ {e} : Attached(e) \cap Attached(f) = {}
      BY DEF IInv, ListInv, DescConserved
    <3>2. pool' \cap Attached(e)' = {}
      BY <1>1, <1>9, <1>10, <3>1
    <3>3. Building(e)' \cap Elements(fifo'[e]) = {}
      BY <1>2, <1>8, <1>9, <1>10, <3>1 DEF Attached
    <3>4. \A f \in Chans \ {e} : Attached(e)' \cap Attached(f)' = {}
      BY <1>8, <1>9, <1>10, <3>1
    <3> QED BY <1>2, <3>1, <3>2, <3>3, <3>4
  <2>3. \A x \in Contexts : ctx'[x].cur # NULL =>
          /\ ctx'[x].cur \notin pool'
          /\ \A e \in Chans : ctx'[x].cur \notin Attached(e)'
          /\ \A y \in Contexts \ {x} : ctx'[y].cur # ctx'[x].cur
    BY <1>1, <1>2, <1>9, <1>10 DEF IInv, ListInv, DescConserved
  <2> QED BY <2>1, <2>2, <2>3 DEF DescConserved
<1> QED BY <1>2, <1>6, <1>9, <1>11, <1>13, <1>14
        DEF IInv, ListInv, ListShape, WithinQuota

\* dma_map_single fails: what was allocated goes back.
LEMMA MapFailsStep ==
  ASSUME IInv, NEW c \in Chans, MapFails(c)
  PROVE  IInv'
<1> DEFINE d == chan[c].new
           q == [chan[c] EXCEPT !.sub = "none", !.new = NULL]
<1>1. /\ chan[c].sub = "alloc"
      /\ pool' = pool \cup {d}
      /\ out' = out \ {desc[d].token}
      /\ chan' = [chan EXCEPT ![c] = q]
      /\ UNCHANGED <<ctlrState, desc, hw, ctx, fifo>>
  BY DEF MapFails
<1>2. TypeOK /\ CtxInv /\ SubInv /\ ListShape /\ d \in Desc
  BY <1>1 DEF IInv, ListInv, SubInv
<1>3. q \in ChanRecord
  BY ListFacts DEF ChanRecord
<1>4. chan' \in [Chans -> ChanRecord]
  BY <1>1, <1>3, ListFacts, Update
<1>5. TypeOK' /\ CtxInv'
  BY <1>1, <1>2, <1>4, CtxSame DEF TypeOK
<1>6. /\ chan'[c].head = chan[c].head
      /\ chan'[c].tail = chan[c].tail
      /\ chan'[c].count = chan[c].count
      /\ chan'[c].sub = "none"
      /\ \A e \in Chans \ {c} : chan'[e] = chan[e]
  BY <1>1, ListFacts DEF ChanRecord
<1>7. ASSUME NEW e \in Chans \ {c}
      PROVE  /\ ListShapeOf(e)'
             /\ Building(e)' = Building(e)
             /\ Attached(e)' = Attached(e)
             /\ chan'[e].sub # "none" => chan'[e].new \in Desc
             /\ chan'[e].sub = "alloc" => /\ desc'[chan'[e].new].next = NULL
                                          /\ Len(fifo'[e]) < DescNum[e]
  <2>1. SameList(chan'[e], chan[e]) /\ fifo'[e] = fifo[e] /\ desc' = desc
    BY <1>1, <1>6 DEF SameList
  <2> QED BY <1>2, <2>1, OtherList
<1>8. /\ Linking(c) = 0 /\ Linking(c)' = 0
      /\ Building(c) = {d} /\ Building(c)' = {}
      /\ Attached(c) = {d} \cup Elements(fifo[c])
      /\ Attached(c)' = Elements(fifo[c])
  BY <1>1, <1>6 DEF Linking, Building, Attached
<1>9. ListShapeOf(c)'
  BY <1>1, <1>6, <1>8, ListFacts DEF ListShapeOf
<1>10. SubInv'
  BY <1>6, <1>7 DEF SubInv
<1>11. /\ d \notin Elements(fifo[c])
       /\ \A e \in Chans \ {c} : d \notin Attached(e)
       /\ \A x \in Contexts : ctx[x].cur # d
  BY <1>2, <1>8, NonNull DEF IInv, ListInv, DescConserved
<1>12. DescConserved'
  <2>1. \A f \in Desc : \/ f \in pool'
                        \/ \E e \in Chans : f \in Attached(e)'
                        \/ \E x \in Contexts : ctx'[x].cur = f
    BY <1>1, <1>7, <1>8 DEF IInv, ListInv, DescConserved
  <2>2. ASSUME NEW e \in Chans
        PROVE  /\ pool' \cap Attached(e)' = {}
               /\ Building(e)' \cap Elements(fifo'[e]) = {}
               /\ Distinct(fifo'[e])
               /\ \A f \in Chans \ {e} : Attached(e)' \cap Attached(f)' = {}
    <3>1. /\ pool \cap Attached(e) = {}
          /\ Building(e) \cap Elements(fifo[e]) = {}
          /\ Distinct(fifo[e])
          /\ \A f \in Chans \ {e} : Attached(e) \cap Attached(f) = {}
      BY DEF IInv, ListInv, DescConserved
    <3>2. pool' \cap Attached(e)' = {}
      BY <1>1, <1>7, <1>8, <1>11, <3>1
    <3>3. Building(e)' \cap Elements(fifo'[e]) = {}
      BY <1>1, <1>7, <1>8, <3>1
    <3>4. \A f \in Chans \ {e} : Attached(e)' \cap Attached(f)' = {}
      BY <1>7, <1>8, <3>1
    <3> QED BY <1>1, <3>1, <3>2, <3>3, <3>4
  <2>3. \A x \in Contexts : ctx'[x].cur # NULL =>
          /\ ctx'[x].cur \notin pool'
          /\ \A e \in Chans : ctx'[x].cur \notin Attached(e)'
          /\ \A y \in Contexts \ {x} : ctx'[y].cur # ctx'[x].cur
    BY <1>1, <1>7, <1>8, <1>11 DEF IInv, ListInv, DescConserved
  <2> QED BY <2>1, <2>2, <2>3 DEF DescConserved
<1> QED BY <1>1, <1>5, <1>7, <1>9, <1>10, <1>12
        DEF IInv, ListInv, ListShape, WithinQuota

\* The descriptors of c are those of its list and the one it is given; the
\* other channels, the pool and the contexts keep theirs.
LEMMA LinkedConserved ==
  ASSUME DescConserved, NEW c \in Chans, UNCHANGED pool,
         \A x \in Contexts : ctx'[x].cur = ctx[x].cur,
         Attached(c)' = Attached(c), Distinct(fifo'[c]),
         Building(c)' \cap Elements(fifo'[c]) = {},
         \A e \in Chans \ {c} : /\ Attached(e)' = Attached(e)
                                /\ Building(e)' = Building(e)
                                /\ fifo'[e] = fifo[e]
  PROVE  DescConserved'
<1>1. \A e \in Chans : Attached(e)' = Attached(e)
  OBVIOUS
<1>2. ASSUME NEW e \in Chans
      PROVE  /\ Building(e)' \cap Elements(fifo'[e]) = {}
             /\ Distinct(fifo'[e])
  BY DEF DescConserved
<1>3. \A d \in Desc : \/ d \in pool'
                      \/ \E e \in Chans : d \in Attached(e)'
                      \/ \E x \in Contexts : ctx'[x].cur = d
  BY <1>1 DEF DescConserved
<1>4. \A e \in Chans :
        /\ pool' \cap Attached(e)' = {}
        /\ \A f \in Chans \ {e} : Attached(e)' \cap Attached(f)' = {}
  BY <1>1 DEF DescConserved
<1>5. \A x \in Contexts : ctx'[x].cur # NULL =>
        /\ ctx'[x].cur \notin pool'
        /\ \A e \in Chans : ctx'[x].cur \notin Attached(e)'
        /\ \A y \in Contexts \ {x} : ctx'[y].cur # ctx'[x].cur
  BY <1>1 DEF DescConserved
<1> QED BY <1>2, <1>3, <1>4, <1>5 DEF DescConserved

\* A submission ends: the record with the new list.
LEMMA RelinkType ==
  ASSUME NEW r \in ChanRecord, NEW h \in Desc \cup {NULL},
         NEW t \in Desc \cup {NULL}, NEW n \in Nat
  PROVE  /\ [r EXCEPT !.head = h, !.tail = t, !.count = n, !.sub = "none",
                      !.new = NULL] \in ChanRecord
         /\ [r EXCEPT !.tail = t, !.count = n, !.sub = "none", !.new = NULL]
              \in ChanRecord
         /\ [r EXCEPT !.head = h, !.count = n] \in ChanRecord
         /\ [r EXCEPT !.sub = "chained"] \in ChanRecord
<1>2. [r EXCEPT !.head = h, !.count = n] \in ChanRecord
  BY DEF ChanRecord
<1>3. [r EXCEPT !.sub = "chained"] \in ChanRecord
  BY DEF ChanRecord
<1>4. [r EXCEPT !.tail = t, !.count = n, !.sub = "none", !.new = NULL]
        \in ChanRecord
  BY DEF ChanRecord
<1>5. [r EXCEPT !.head = h, !.tail = t, !.count = n, !.sub = "none",
                !.new = NULL] \in ChanRecord
  BY DEF ChanRecord
<1> QED BY <1>2, <1>3, <1>4, <1>5

\* It becomes the only one of an empty list.
LEMMA SubmitFirstStep ==
  ASSUME IInv, NEW c \in Chans, SubmitFirst(c)
  PROVE  IInv'
<1> DEFINE d == chan[c].new
           q == [chan[c] EXCEPT !.head = d, !.tail = d, !.count = @ + 1,
                                !.sub = "none", !.new = NULL]
           k == hw[c].rxfree + Credit(c)
           h == [hw[c] EXCEPT !.rxfree = k]
           g == IF chan[c].state = "ACTIVE" THEN StartedOn(h, d) ELSE h
<1>1. /\ chan[c].sub = "alloc"
      /\ chan[c].head = NULL
      /\ fifo' = [fifo EXCEPT ![c] = Append(@, d)]
      /\ chan' = [chan EXCEPT ![c] = q]
      /\ hw' = [hw EXCEPT ![c] = g]
      /\ UNCHANGED <<ctlrState, desc, pool, ctx, out>>
  BY DEF SubmitFirst, ListEmpty
<1>2. /\ TypeOK /\ CtxInv /\ SubInv /\ ListShape /\ DescConserved
      /\ d \in Desc
      /\ fifo \in [Chans -> Seq(Desc)]
      /\ hw[c] \in HwRecord
  BY <1>1 DEF IInv, ListInv, SubInv, TypeOK
<1>3. q \in ChanRecord
  <2>1. chan[c] \in ChanRecord /\ chan[c].count + 1 \in Nat
    BY ListFacts DEF ChanRecord
  <2> QED BY <1>2, <2>1, RelinkType
<1>4. chan' \in [Chans -> ChanRecord]
  BY <1>1, <1>3, ListFacts, Update
<1>5. hw' \in [Chans -> HwRecord]
  <2>1. k \in Int
    BY <1>2 DEF Credit, HwRecord
  <2>2. h \in HwRecord
    BY <1>2, <2>1 DEF HwRecord
  <2> HIDE DEF h
  <2>3. g \in HwRecord
    BY <1>2, <2>2, HwUpdate
  <2> HIDE DEF g
  <2> QED BY <1>1, <1>2, <2>3, HwUpdate
<1>6. fifo[c] = <<>> /\ fifo'[c] = <<d>> /\ fifo' \in [Chans -> Seq(Desc)]
  <2>1. Len(fifo[c]) = 0
    BY <1>1, NonNull, ListFacts DEF ListShapeOf
  <2>2. fifo[c] = <<>>
    BY <2>1, ListFacts
  <2>3. fifo'[c] = <<d>> /\ <<d>> \in Seq(Desc)
    BY <1>1, <1>2, <2>2
  <2> QED BY <1>1, <1>2, <2>2, <2>3, Update
<1>7. TypeOK' /\ CtxInv'
  BY <1>1, <1>2, <1>4, <1>5, <1>6, CtxSame DEF TypeOK
<1>8. /\ chan'[c].head = d
      /\ chan'[c].tail = d
      /\ chan'[c].count = chan[c].count + 1
      /\ chan'[c].sub = "none"
      /\ \A e \in Chans \ {c} : chan'[e] = chan[e]
  BY <1>1, ListFacts DEF ChanRecord
<1>9. ASSUME NEW e \in Chans \ {c}
      PROVE  /\ ListShapeOf(e)'
             /\ Building(e)' = Building(e)
             /\ Attached(e)' = Attached(e)
             /\ chan'[e].sub # "none" => chan'[e].new \in Desc
             /\ chan'[e].sub = "alloc" => /\ desc'[chan'[e].new].next = NULL
                                          /\ Len(fifo'[e]) < DescNum[e]
             /\ fifo'[e] = fifo[e]
  <2>1. SameList(chan'[e], chan[e]) /\ fifo'[e] = fifo[e] /\ desc' = desc
    BY <1>1, <1>8 DEF SameList
  <2> QED BY <1>2, <2>1, OtherList
<1>10. /\ Linking(c) = 0 /\ Linking(c)' = 0
       /\ Building(c) = {d} /\ Building(c)' = {}
       /\ Elements(fifo[c]) = {} /\ Elements(fifo'[c]) = {d}
       /\ Distinct(fifo'[c])
  BY <1>1, <1>6, <1>8 DEF Linking, Building, Elements, Distinct
<1>11. /\ Len(fifo[c]) < DescNum[c]
       /\ desc[d].next = NULL
       /\ chan[c].count = 0
  BY <1>1, <1>2, <1>6, <1>10, ListFacts DEF SubInv, ListShapeOf
<1>12. ListShapeOf(c)' /\ Len(fifo'[c]) <= DescNum[c]
  <2>1. Len(fifo'[c]) = 1 /\ fifo'[c][1] = d /\ Len(fifo[c]) = 0
    BY <1>6
  <2> QED BY <1>1, <1>8, <1>10, <1>11, <2>1, ListFacts DEF ListShapeOf
<1>13. SubInv'
  BY <1>8, <1>9 DEF SubInv
<1>14. DescConserved'
  BY <1>1, <1>2, <1>9, <1>10, LinkedConserved DEF Attached
<1> QED BY <1>7, <1>9, <1>12, <1>13, <1>14
        DEF IInv, ListInv, ListShape, WithinQuota

\* It is written behind the last one of the list.
LEMMA ChainStep ==
  ASSUME IInv, NEW c \in Chans, Chain(c)
  PROVE  IInv'
<1> DEFINE d == chan[c].new
           t == chan[c].tail
           n == Len(fifo[c])
           q == [chan[c] EXCEPT !.sub = "chained"]
<1>1. /\ chan[c].sub = "alloc"
      /\ chan[c].head # NULL
      /\ desc' = [desc EXCEPT ![t].next = d]
      /\ fifo' = [fifo EXCEPT ![c] = Append(@, d)]
      /\ chan' = [chan EXCEPT ![c] = q]
      /\ UNCHANGED <<ctlrState, pool, hw, ctx, out>>
  BY DEF Chain, ListEmpty
<1>2. /\ TypeOK /\ CtxInv /\ SubInv /\ ListShape /\ DescConserved
      /\ d \in Desc
      /\ fifo \in [Chans -> Seq(Desc)]
      /\ desc \in [Desc -> DescRecord]
      /\ hw' \in [Chans -> HwRecord]
  BY <1>1 DEF IInv, ListInv, SubInv, TypeOK
<1>3. chan' \in [Chans -> ChanRecord]
  <2>1. q \in ChanRecord
    BY ListFacts DEF ChanRecord
  <2> QED BY <1>1, <2>1, ListFacts, Update
<1>4. /\ Linking(c) = 0 /\ Building(c) = {d}
      /\ Attached(c) = {d} \cup Elements(fifo[c])
      /\ d \notin Elements(fifo[c])
  BY <1>1, <1>2 DEF Linking, Building, Attached, DescConserved
<1>5. /\ n \in Nat
      /\ n > 0
      /\ t = fifo[c][n]
      /\ chan[c].head = fifo[c][1]
      /\ chan[c].count = n
      /\ n < DescNum[c]
      /\ desc[d].next = NULL
  BY <1>1, <1>2, <1>4, ListFacts DEF ListShapeOf, SubInv
<1>6. /\ t \in Desc
      /\ t \in Elements(fifo[c])
      /\ t # d
  BY <1>4, <1>5, ListFacts
<1>7. /\ fifo'[c] = Append(fifo[c], d)
      /\ fifo' \in [Chans -> Seq(Desc)]
      /\ Len(fifo'[c]) = n + 1
      /\ \A i \in 1..n : fifo'[c][i] = fifo[c][i]
      /\ fifo'[c][n + 1] = d
      /\ Elements(fifo'[c]) = Elements(fifo[c]) \cup {d}
      /\ Distinct(fifo'[c])
  <2>1. fifo[c] \in Seq(Desc) /\ Distinct(fifo[c])
    BY ListFacts
  <2>2. fifo'[c] = Append(fifo[c], d)
    BY <1>1, <1>2
  <2>3. Append(fifo[c], d) \in Seq(Desc)
    BY <1>2, <2>1, AppendElements
  <2>4. fifo' \in [Chans -> Seq(Desc)]
    BY <1>1, <1>2, <2>3, Update
  <2> QED BY <1>2, <1>4, <2>1, <2>2, <2>4, AppendElements
<1>8. /\ desc' \in [Desc -> DescRecord]
      /\ desc'[t].next = d
      /\ \A e \in Desc \ {t} : desc'[e].next = desc[e].next
  <2>1. desc[t] \in DescRecord
    BY <1>2, <1>6
  <2>2. [desc[t] EXCEPT !.next = d] \in DescRecord
    BY <1>2, <2>1 DEF DescRecord
  <2>3. [desc[t] EXCEPT !.next = d].next = d
    BY <2>1 DEF DescRecord
  <2>4. desc' = [desc EXCEPT ![t] = [desc[t] EXCEPT !.next = d]]
    BY <1>1
  <2> QED BY <1>2, <1>6, <2>2, <2>3, <2>4, Update
<1>9. TypeOK' /\ CtxInv'
  BY <1>1, <1>2, <1>3, <1>7, <1>8, CtxSame DEF TypeOK
<1>10. /\ chan'[c].head = chan[c].head
       /\ chan'[c].tail = t
       /\ chan'[c].count = n
       /\ chan'[c].sub = "chained"
       /\ chan'[c].new = d
       /\ \A e \in Chans \ {c} : chan'[e] = chan[e]
  BY <1>1, <1>5, ListFacts DEF ChanRecord
<1>11. ASSUME NEW e \in Chans \ {c}
       PROVE  /\ ListShapeOf(e)'
              /\ Building(e)' = Building(e)
              /\ Attached(e)' = Attached(e)
              /\ chan'[e].sub # "none" => chan'[e].new \in Desc
              /\ chan'[e].sub = "alloc" => /\ desc'[chan'[e].new].next = NULL
                                           /\ Len(fifo'[e]) < DescNum[e]
              /\ fifo'[e] = fifo[e]
  <2>1. SameList(chan'[e], chan[e]) /\ fifo'[e] = fifo[e]
    BY <1>1, <1>10 DEF SameList
  <2>2. t \notin Attached(e)
    BY <1>2, <1>4, <1>6 DEF DescConserved
  <2>3. \A i \in 1..Len(fifo[e]) :
           desc'[fifo[e][i]].next = desc[fifo[e][i]].next
    BY <1>8, <2>2, ListFacts DEF Attached
  <2>4. chan[e].sub = "alloc" =>
           desc'[chan[e].new].next = desc[chan[e].new].next
    BY <1>2, <1>8, <2>2 DEF Attached, Building, SubInv
  <2> QED BY <1>2, <2>1, <2>3, <2>4, OtherList
<1>12. /\ Linking(c)' = 1
       /\ Building(c)' = {}
       /\ Attached(c)' = Attached(c)
  BY <1>4, <1>7, <1>10 DEF Linking, Building, Attached
<1>13. ListShapeOf(c)' /\ Len(fifo'[c]) <= DescNum[c]
  <2>1. ASSUME NEW i \in 1..(n + 1)
        PROVE  desc'[fifo'[c][i]].next =
                 IF i = n + 1 THEN NULL ELSE fifo'[c][i + 1]
    <3>1. CASE i = n + 1
      BY <1>2, <1>5, <1>6, <1>7, <1>8, <3>1
    <3>2. CASE i = n
      BY <1>5, <1>7, <1>8, <3>2
    <3>3. CASE i \in 1..(n - 1)
      <4>1. i \in 1..n /\ n \in 1..n /\ i + 1 \in 1..n
        BY <1>5, <3>3
      <4>2. Distinct(fifo[c]) /\ fifo[c][i] \in Desc
        BY <4>1, ListFacts
      <4>3. fifo[c][i] # t
        BY <1>5, <3>3, <4>1, <4>2 DEF Distinct
      <4>4. desc[fifo[c][i]].next = fifo[c][i + 1]
        BY <1>2, <1>5, <3>3, <4>1 DEF ListShape, ListShapeOf
      <4> QED BY <1>5, <1>7, <1>8, <3>3, <4>1, <4>2, <4>3, <4>4
    <3> QED BY <1>5, <2>1, <3>1, <3>2, <3>3
  <2>2. /\ fifo'[c][1] = fifo[c][1]
        /\ fifo'[c][(n + 1) - 1] = t
    BY <1>5, <1>7
  <2> QED BY <1>5, <1>7, <1>10, <1>12, <2>1, <2>2, ListFacts, SMTT(30) DEF ListShapeOf
<1>14. SubInv'
  BY <1>2, <1>10, <1>11 DEF SubInv
<1>15. DescConserved'
  BY <1>1, <1>2, <1>7, <1>11, <1>12, LinkedConserved
<1> QED BY <1>9, <1>11, <1>13, <1>14, <1>15
        DEF IInv, ListInv, ListShape, WithinQuota

\* The submission looks whether the DMA has stopped before the new descriptor.
LEMMA FinishChainStep ==
  ASSUME IInv, NEW c \in Chans, FinishChain(c)
  PROVE  IInv'
<1> DEFINE d == chan[c].new
           t == chan[c].tail
           n == Len(fifo[c])
           q == [chan[c] EXCEPT !.tail = d, !.count = @ + 1, !.sub = "none",
                                !.new = NULL]
           k == hw[c].rxfree + Credit(c)
           h == [hw[c] EXCEPT !.rxfree = k]
           g == StartedOn(h, d)
<1>1. /\ chan[c].sub = "chained"
      /\ \/ /\ desc' = [desc EXCEPT ![t].mode = @ \ {"EOQ"}]
            /\ hw' = [hw EXCEPT ![c] = g]
         \/ /\ UNCHANGED desc
            /\ hw' = [hw EXCEPT ![c] = h]
      /\ chan' = [chan EXCEPT ![c] = q]
      /\ UNCHANGED <<ctlrState, pool, ctx, out, fifo>>
  BY DEF FinishChain
<1>2. /\ TypeOK /\ CtxInv /\ SubInv /\ ListShape /\ DescConserved
      /\ d \in Desc
      /\ fifo \in [Chans -> Seq(Desc)]
      /\ hw[c] \in HwRecord
      /\ Linking(c) = 1
      /\ chan[c].count + 1 \in Nat
  BY <1>1, ListFacts DEF IInv, ListInv, SubInv, TypeOK, Linking, ChanRecord
<1>3. /\ n \in Nat
      /\ n > 1
      /\ d = fifo[c][n]
      /\ t = fifo[c][n - 1]
      /\ chan[c].count = n - 1
      /\ chan[c].head = fifo[c][1]
      /\ n <= DescNum[c]
  <2>1. /\ n \in Nat
        /\ n <= DescNum[c]
        /\ ListShapeOf(c)
    BY ListFacts
  <2> QED BY <1>2, <2>1 DEF ListShapeOf
<1>4. t \in Desc
  BY <1>3, ListFacts
<1>5. chan' \in [Chans -> ChanRecord]
  <2>1. chan[c] \in ChanRecord
    BY ListFacts
  <2>2. q \in ChanRecord
    BY <1>2, <2>1, RelinkType
  <2> QED BY <1>1, <2>2, ListFacts, Update
<1>6. hw' \in [Chans -> HwRecord]
  <2>1. k \in Int
    BY <1>2 DEF Credit, HwRecord
  <2>2. h \in HwRecord
    BY <1>2, <2>1 DEF HwRecord
  <2> HIDE DEF h
  <2>3. g \in HwRecord
    BY <1>2, <2>2, HwUpdate
  <2> HIDE DEF g
  <2>4. /\ [hw EXCEPT ![c] = h] \in [Chans -> HwRecord]
        /\ [hw EXCEPT ![c] = g] \in [Chans -> HwRecord]
    BY <1>2, <2>2, <2>3, HwUpdate
  <2> QED BY <1>1, <2>4
<1>7. /\ desc' \in [Desc -> DescRecord]
      /\ \A e \in Desc : desc'[e].next = desc[e].next
  <2>1. desc[t] \in DescRecord
    BY <1>2, <1>4 DEF TypeOK
  <2>2. desc[t].mode \ {"EOQ"} \in SUBSET Flags
    BY <2>1 DEF DescRecord
  <2> QED BY <1>1, <1>2, <1>4, <2>2, ModeUpdate, DescSame
<1>8. TypeOK' /\ CtxInv'
  BY <1>1, <1>2, <1>5, <1>6, <1>7, CtxSame DEF TypeOK
<1>9. /\ chan'[c].head = chan[c].head
      /\ chan'[c].tail = d
      /\ chan'[c].count = n
      /\ chan'[c].sub = "none"
      /\ \A e \in Chans \ {c} : chan'[e] = chan[e]
  BY <1>1, <1>3, ListFacts DEF ChanRecord
<1>10. ASSUME NEW e \in Chans \ {c}
       PROVE  /\ ListShapeOf(e)'
              /\ Building(e)' = Building(e)
              /\ Attached(e)' = Attached(e)
              /\ chan'[e].sub # "none" => chan'[e].new \in Desc
              /\ chan'[e].sub = "alloc" => /\ desc'[chan'[e].new].next = NULL
                                           /\ Len(fifo'[e]) < DescNum[e]
              /\ fifo'[e] = fifo[e]
  <2>1. SameList(chan'[e], chan[e]) /\ fifo'[e] = fifo[e]
    BY <1>1, <1>9 DEF SameList
  <2>2. /\ \A i \in 1..Len(fifo[e]) :
             desc'[fifo[e][i]].next = desc[fifo[e][i]].next
        /\ chan[e].sub = "alloc" =>
             desc'[chan[e].new].next = desc[chan[e].new].next
    BY <1>2, <1>7, ListFacts DEF SubInv
  <2> QED BY <1>2, <2>1, <2>2, OtherList
<1>11. /\ Linking(c)' = 0
       /\ Building(c) = {} /\ Building(c)' = {}
       /\ Attached(c)' = Attached(c)
  BY <1>1, <1>9 DEF Linking, Building, Attached
<1>12. ListShapeOf(c)'
  <2>1. \A i \in 1..n : /\ desc'[fifo[c][i]].next = desc[fifo[c][i]].next
                        /\ desc[fifo[c][i]].next =
                             IF i = n THEN NULL ELSE fifo[c][i + 1]
    BY <1>2, <1>7, ListFacts DEF ListShapeOf
  <2> QED BY <1>1, <1>3, <1>9, <1>11, <2>1, SMTT(30) DEF ListShapeOf
<1>13. SubInv'
  BY <1>9, <1>10 DEF SubInv
<1>14. DescConserved'
  BY <1>1, <1>2, <1>10, <1>11, ListFacts, LinkedConserved
<1> QED BY <1>1, <1>3, <1>8, <1>10, <1>12, <1>13, <1>14
        DEF IInv, ListInv, ListShape, WithinQuota

\* The oldest descriptor of c leaves its list with context x.
LEMMA UnlinkStep ==
  ASSUME IInv, NEW x \in Contexts, NEW c \in Chans,
         NEW r \in {"idle", "poll", "drain", "clean"}, Unlink(x, c, r),
         ~Locked(c), chan[c].head # NULL, ctx[x].pc # "free",
         ctx[x].ch \in Chans, hw' \in [Chans -> HwRecord],
         UNCHANGED <<ctlrState, desc, pool, out>>
  PROVE  IInv'
<1> DEFINE n == Len(fifo[c])
           d == chan[c].head
           p == [ctx[x] EXCEPT !.pc = "free", !.cur = d, !.ret = r]
           q == [chan[c] EXCEPT !.head = desc[d].next, !.count = @ - 1]
<1>1. /\ chan' = [chan EXCEPT ![c] = q]
      /\ fifo' = [fifo EXCEPT ![c] = Tail(@)]
      /\ ctx' = [ctx EXCEPT ![x] = p]
  BY DEF Unlink
<1>2. /\ TypeOK /\ CtxInv /\ SubInv /\ ListShape /\ DescConserved
      /\ fifo \in [Chans -> Seq(Desc)]
      /\ ctx[x] \in CtxRecord
      /\ ctx[x].cur = NULL
      /\ chan[c].sub = "none"
      /\ Linking(c) = 0
      /\ Building(c) = {}
  BY ListFacts DEF IInv, ListInv, TypeOK, CtxInv, Holds, Locked
<1>3. /\ n \in Nat
      /\ n > 0
      /\ d = fifo[c][1]
      /\ chan[c].tail = fifo[c][n]
      /\ chan[c].count = n
      /\ n <= DescNum[c]
      /\ DescNum[c] \in Nat
      /\ \A i \in 1..n :
           desc[fifo[c][i]].next = IF i = n THEN NULL ELSE fifo[c][i + 1]
  <2>1. /\ n \in Nat
        /\ n <= DescNum[c]
        /\ DescNum[c] \in Nat
        /\ ListShapeOf(c)
    BY ListFacts
  <2> QED BY <1>2, <2>1 DEF ListShapeOf
<1>4. /\ d \in Desc
      /\ d \in Elements(fifo[c])
      /\ desc[d].next \in Desc \cup {NULL}
  <2>1. d \in Desc /\ d \in Elements(fifo[c])
    BY <1>3, ListFacts
  <2>2. desc[d] \in DescRecord
    BY <1>2, <2>1 DEF TypeOK
  <2> QED BY <2>1, <2>2 DEF DescRecord
<1>5. chan' \in [Chans -> ChanRecord]
  <2>1. chan[c] \in ChanRecord /\ chan[c].tail \in Desc \cup {NULL}
    BY ListFacts DEF ChanRecord
  <2>2. chan[c].count - 1 \in Nat
    BY <1>3
  <2>3. q \in ChanRecord
    BY <1>4, <2>1, <2>2, RelinkType
  <2> QED BY <1>1, <2>3, ListFacts, Update
<1>6. /\ ctx' \in [Contexts -> CtxRecord]
      /\ CtxInv'
      /\ ctx'[x].cur = d
      /\ \A y \in Contexts \ {x} : ctx'[y] = ctx[y]
  <2>1. p \in CtxRecord
    BY <1>2, <1>4 DEF CtxRecord, Places
  <2>2. Holds(p) /\ p.cur = d
    BY <1>2, NonNull DEF Holds, CtxRecord
  <2> HIDE DEF p
  <2>3. ctx \in [Contexts -> CtxRecord]
    BY <1>2 DEF TypeOK
  <2> QED BY <1>1, <1>2, <2>1, <2>2, <2>3, CtxUpdate
<1>7. /\ fifo' \in [Chans -> Seq(Desc)]
      /\ Len(fifo'[c]) = n - 1
      /\ \A i \in 1..(n - 1) : fifo'[c][i] = fifo[c][i + 1]
      /\ Elements(fifo'[c]) = Elements(fifo[c]) \ {d}
      /\ Distinct(fifo'[c])
      /\ \A e \in Chans \ {c} : fifo'[e] = fifo[e]
  <2>1. fifo[c] \in Seq(Desc) /\ Distinct(fifo[c])
    BY ListFacts
  <2>2. fifo'[c] = Tail(fifo[c]) /\ \A e \in Chans \ {c} : fifo'[e] = fifo[e]
    BY <1>1, <1>2
  <2>3. Tail(fifo[c]) \in Seq(Desc)
    BY <1>3, <2>1, TailElements
  <2>4. fifo' \in [Chans -> Seq(Desc)]
    BY <1>1, <1>2, <2>3, Update
  <2> QED BY <1>3, <2>1, <2>2, <2>4, TailElements
<1>8. TypeOK' /\ CtxInv'
  BY <1>2, <1>5, <1>6, <1>7 DEF TypeOK
<1>9. /\ chan'[c].head = desc[d].next
      /\ chan'[c].tail = chan[c].tail
      /\ chan'[c].count = n - 1
      /\ chan'[c].sub = "none"
      /\ \A e \in Chans \ {c} : chan'[e] = chan[e]
  BY <1>1, <1>2, <1>3, ListFacts DEF ChanRecord
<1>10. ASSUME NEW e \in Chans \ {c}
       PROVE  /\ ListShapeOf(e)'
              /\ Building(e)' = Building(e)
              /\ Attached(e)' = Attached(e)
              /\ chan'[e].sub # "none" => chan'[e].new \in Desc
              /\ chan'[e].sub = "alloc" => /\ desc'[chan'[e].new].next = NULL
                                           /\ Len(fifo'[e]) < DescNum[e]
              /\ fifo'[e] = fifo[e]
  <2>1. SameList(chan'[e], chan[e]) /\ fifo'[e] = fifo[e] /\ desc' = desc
    BY <1>7, <1>9 DEF SameList
  <2> QED BY <1>2, <2>1, OtherList
<1>11. /\ Linking(c)' = 0
       /\ Building(c)' = {}
       /\ Attached(c) = Elements(fifo[c])
       /\ Attached(c)' = Elements(fifo[c]) \ {d}
  BY <1>2, <1>7, <1>9 DEF Linking, Building, Attached
<1>12. ListShapeOf(c)' /\ Len(fifo'[c]) <= DescNum[c]
  <2>1. ASSUME NEW i \in 1..(n - 1)
        PROVE  desc[fifo'[c][i]].next =
                 IF i = n - 1 THEN NULL ELSE fifo'[c][i + 1]
    <3>1. i + 1 \in 1..n /\ (i + 1 = n <=> i = n - 1)
      BY <1>3, <2>1
    <3>2. desc[fifo[c][i + 1]].next =
            IF i = n - 1 THEN NULL ELSE fifo[c][(i + 1) + 1]
      BY <1>3, <3>1
    <3>3. fifo'[c][i] = fifo[c][i + 1]
      BY <1>7, <2>1
    <3>4. i # n - 1 => fifo'[c][i + 1] = fifo[c][(i + 1) + 1]
      <4>1. i # n - 1 => i + 1 \in 1..(n - 1)
        BY <1>3, <2>1
      <4> QED BY <1>7, <4>1
    <3>5. CASE i = n - 1
      BY <3>2, <3>3, <3>5
    <3>6. CASE i # n - 1
      BY <3>2, <3>3, <3>4, <3>6
    <3> QED BY <1>3, <2>1, <3>5, <3>6
  <2>2. desc[d].next = IF n - 1 = 0 THEN NULL ELSE fifo'[c][1]
    <3>0. n \in Nat /\ n > 0
      BY <1>3
    <3> HIDE DEF n
    <3>1. 1 \in 1..n /\ (n - 1 # 0 => 1 \in 1..(n - 1))
      BY <3>0
    <3> QED BY <1>3, <1>7, <3>1
  <2>3. n - 1 > 0 => fifo'[c][n - 1] = chan[c].tail
    <3>0. n \in Nat
      BY <1>3
    <3> HIDE DEF n
    <3>1. n - 1 > 0 => n - 1 \in 1..(n - 1) /\ (n - 1) + 1 = n
      BY <3>0
    <3> QED BY <1>3, <1>7, <3>1
  <2>4. ListShapeOf(c)'
    BY <1>3, <1>7, <1>9, <1>11, <2>1, <2>2, <2>3 DEF ListShapeOf
  <2>5. Len(fifo'[c]) <= DescNum[c]
    BY <1>3, <1>7
  <2> QED BY <2>4, <2>5
<1>13. SubInv'
  BY <1>9, <1>10 DEF SubInv
<1>14. /\ d \notin pool
       /\ \A e \in Chans \ {c} : d \notin Attached(e)
       /\ \A y \in Contexts : ctx[y].cur # d
  BY <1>2, <1>4, <1>11, NonNull DEF DescConserved
<1>15. DescConserved'
  <2>1. \A f \in Desc : \/ f \in pool'
                        \/ \E e \in Chans : f \in Attached(e)'
                        \/ \E y \in Contexts : ctx'[y].cur = f
    <3>1. TAKE f \in Desc
    <3>2. CASE f = d
      BY <1>6, <3>2
    <3>3. CASE f # d
      <4>1. ctx[x].cur # f
        BY <1>2, NonNull
      <4>2. \/ f \in pool
            \/ \E e \in Chans : f \in Attached(e)
            \/ \E y \in Contexts : ctx[y].cur = f
        BY <1>2 DEF DescConserved
      <4>3. \A e \in Chans : f \in Attached(e) => f \in Attached(e)'
        BY <1>10, <1>11, <3>3
      <4>4. \A y \in Contexts : ctx[y].cur = f => ctx'[y].cur = f
        BY <1>6, <4>1
      <4> QED BY <4>2, <4>3, <4>4
    <3> QED BY <3>2, <3>3
  <2>2. ASSUME NEW e \in Chans
        PROVE  /\ pool' \cap Attached(e)' = {}
               /\ Building(e)' \cap Elements(fifo'[e]) = {}
               /\ Distinct(fifo'[e])
               /\ \A f \in Chans \ {e} : Attached(e)' \cap Attached(f)' = {}
    <3>1. /\ pool \cap Attached(e) = {}
          /\ Building(e) \cap Elements(fifo[e]) = {}
          /\ Distinct(fifo[e])
          /\ \A f \in Chans \ {e} : Attached(e) \cap Attached(f) = {}
      BY <1>2 DEF DescConserved
    <3>2. pool' \cap Attached(e)' = {}
      BY <1>10, <1>11, <3>1
    <3>3. Building(e)' \cap Elements(fifo'[e]) = {} /\ Distinct(fifo'[e])
      BY <1>7, <1>10, <1>11, <3>1
    <3>4. \A f \in Chans \ {e} : Attached(e)' \cap Attached(f)' = {}
      BY <1>10, <1>11, <3>1
    <3> QED BY <3>2, <3>3, <3>4
  <2>3. ASSUME NEW y \in Contexts, ctx'[y].cur # NULL
        PROVE  /\ ctx'[y].cur \notin pool'
               /\ \A e \in Chans : ctx'[y].cur \notin Attached(e)'
               /\ \A z \in Contexts \ {y} : ctx'[z].cur # ctx'[y].cur
    <3>1. CASE y = x
      BY <1>6, <1>10, <1>11, <1>14, <3>1
    <3>2. CASE y # x
      <4>1. ctx'[y].cur = ctx[y].cur /\ ctx[y].cur # d
        BY <1>6, <1>14, <3>2
      <4>2. /\ ctx[y].cur \notin pool
            /\ \A e \in Chans : ctx[y].cur \notin Attached(e)
            /\ \A z \in Contexts \ {y} : ctx[z].cur # ctx[y].cur
        BY <1>2, <2>3, <4>1 DEF DescConserved
      <4> QED BY <1>6, <1>10, <1>11, <4>1, <4>2
    <3> QED BY <3>1, <3>2
  <2> QED BY <2>1, <2>2, <2>3 DEF DescConserved
<1> QED BY <1>8, <1>10, <1>12, <1>13, <1>15
        DEF IInv, ListInv, ListShape, WithinQuota

\* __cpdma_chan_process.
LEMMA ProcessStep ==
  ASSUME IInv, NEW x \in Contexts, NEW c \in Chans,
         NEW r \in {"idle", "poll", "drain", "clean"}, Process(x, c, r),
         ctx[x].pc # "free", ctx[x].ch \in Chans
  PROVE  IInv'
<1> DEFINE d == desc[chan[c].head]
           h == [hw[c] EXCEPT !.cpTd = FALSE]
           g == IF Requeue(d) THEN StartedOn(h, d.next) ELSE h
<1>1. /\ ~Locked(c)
      /\ chan[c].head # NULL
      /\ Unlink(x, c, r)
      /\ hw' = [hw EXCEPT ![c] = g]
      /\ UNCHANGED <<ctlrState, desc, pool, out>>
  BY DEF Process, HeadCompleted
<1>2. TypeOK /\ hw[c] \in HwRecord /\ desc \in [Desc -> DescRecord]
  BY DEF IInv, TypeOK
<1>3. chan[c].head \in Desc
  BY <1>1, ListFacts DEF ChanRecord
<1>4. d.next \in Desc \cup {NULL}
  BY <1>2, <1>3 DEF DescRecord
<1>5. h \in HwRecord
  BY <1>2, HwUpdate
<1> HIDE DEF h
<1>6. g \in HwRecord
  BY <1>2, <1>4, <1>5, HwUpdate
<1> HIDE DEF g
<1>7. hw' \in [Chans -> HwRecord]
  BY <1>1, <1>2, <1>6, HwUpdate
<1> QED BY <1>1, <1>7, UnlinkStep

\* The reclaiming steps of the pollers and of cpdma_chan_stop.
LEMMA ReclaimSteps ==
  ASSUME IInv, NEW x \in Contexts,
         PollProcess(x) \/ DrainProcess(x) \/ CleanUp(x)
  PROVE  IInv'
<1> DEFINE c == ctx[x].ch
<1>1. ctx[x].pc \in {"poll", "drain", "clean"}
  BY DEF PollProcess, DrainProcess, CleanUp
<1>2. c \in Chans /\ ctx[x].pc # "free"
  BY <1>1 DEF IInv, CtxInv, Holds
<1> HIDE DEF c
<1>3. CASE PollProcess(x)
  BY <1>2, <1>3, ProcessStep DEF PollProcess, c
<1>4. CASE DrainProcess(x)
  BY <1>2, <1>4, ProcessStep DEF DrainProcess, c
<1>5. CASE CleanUp(x)
  <2>1. hw' \in [Chans -> HwRecord]
    BY <1>5, HwSame DEF CleanUp, IInv
  <2> QED BY <1>2, <1>5, <2>1, UnlinkStep DEF CleanUp, c
<1> QED BY <1>3, <1>4, <1>5

\* An unlinked descriptor returns to the pool.
LEMMA FreeStep ==
  ASSUME IInv, NEW x \in Contexts, Free(x)
  PROVE  IInv'
<1> DEFINE d == ctx[x].cur
           p == [ctx[x] EXCEPT !.pc = "call", !.cur = NULL,
                               !.tok = desc[d].token]
<1>1. /\ ctx[x].pc = "free"
      /\ pool' = pool \cup {d}
      /\ ctx' = [ctx EXCEPT ![x] = p]
      /\ UNCHANGED <<ctlrState, chan, desc, hw, out, fifo>>
  BY DEF Free
<1>2. /\ TypeOK /\ CtxInv /\ SubInv /\ ListShape /\ DescConserved
      /\ WithinQuota
      /\ ctx[x] \in CtxRecord
      /\ Holds(ctx[x])
  BY DEF IInv, ListInv, TypeOK, CtxInv
<1>3. d # NULL /\ d \in Desc
  BY <1>1, <1>2 DEF Holds, CtxRecord
<1>4. desc[d].token \in Token \cup {NULL}
  <2>1. desc[d] \in DescRecord
    BY <1>2, <1>3 DEF TypeOK
  <2> QED BY <2>1 DEF DescRecord
<1>5. /\ ctx' \in [Contexts -> CtxRecord]
      /\ CtxInv'
      /\ ctx'[x].cur = NULL
      /\ \A y \in Contexts \ {x} : ctx'[y] = ctx[y]
  <2>1. p \in CtxRecord
    BY <1>2, <1>4 DEF CtxRecord, Places
  <2>2. Holds(p) /\ p.cur = NULL
    BY <1>1, <1>2 DEF Holds, CtxRecord
  <2> HIDE DEF p
  <2>3. ctx \in [Contexts -> CtxRecord]
    BY <1>2 DEF TypeOK
  <2> QED BY <1>1, <1>2, <2>1, <2>2, <2>3, CtxUpdate
<1>6. TypeOK' /\ CtxInv'
  BY <1>1, <1>2, <1>3, <1>5 DEF TypeOK
<1>7. SubInv' /\ ListShape' /\ WithinQuota'
  BY <1>1, <1>2 DEF SubInv, ListShape, ListShapeOf, Linking, WithinQuota
<1>8. \A e \in Chans : /\ Attached(e)' = Attached(e)
                       /\ Building(e)' = Building(e)
                       /\ d \notin Attached(e)
  BY <1>1, <1>2, <1>3 DEF DescConserved, Attached, Building
<1>9. \A y \in Contexts \ {x} : ctx[y].cur # d
  BY <1>2, <1>3 DEF DescConserved
<1>10. DescConserved'
  <2>1. \A f \in Desc : \/ f \in pool'
                        \/ \E e \in Chans : f \in Attached(e)'
                        \/ \E y \in Contexts : ctx'[y].cur = f
    <3>1. TAKE f \in Desc
    <3>2. CASE f = d
      BY <1>1, <3>2
    <3>3. CASE f # d
      BY <1>1, <1>2, <1>5, <1>8, <3>3 DEF DescConserved
    <3> QED BY <3>2, <3>3
  <2>2. \A e \in Chans :
          /\ pool' \cap Attached(e)' = {}
          /\ Building(e)' \cap Elements(fifo'[e]) = {}
          /\ Distinct(fifo'[e])
          /\ \A f \in Chans \ {e} : Attached(e)' \cap Attached(f)' = {}
    BY <1>1, <1>2, <1>8 DEF DescConserved
  <2>3. \A y \in Contexts : ctx'[y].cur # NULL =>
          /\ ctx'[y].cur \notin pool'
          /\ \A e \in Chans : ctx'[y].cur \notin Attached(e)'
          /\ \A z \in Contexts \ {y} : ctx'[z].cur # ctx'[y].cur
    BY <1>1, <1>2, <1>5, <1>8, <1>9 DEF DescConserved
  <2> QED BY <2>1, <2>2, <2>3 DEF DescConserved
<1> QED BY <1>6, <1>7, <1>10 DEF IInv, ListInv
-----------------------------------------------------------------------------
(* The invariant of the specification.                                     *)

\* Every list is empty and the pool has every descriptor.
LEMMA InitIInv == Init => IInv
<1> SUFFICES ASSUME Init PROVE IInv
  OBVIOUS
<1> DEFINE q == [state |-> "IDLE", head |-> NULL, tail |-> NULL, count |-> 0,
                 inten |-> FALSE, sub |-> "none", new |-> NULL]
           p == [next |-> NULL, mode |-> {}, token |-> NULL]
           r == [pc |-> "idle", ch |-> NULL, cur |-> NULL, tok |-> NULL,
                 ret |-> "idle", todo |-> {}]
<1>1. q \in ChanRecord /\ p \in DescRecord /\ r \in CtxRecord
  BY DEF ChanRecord, States, DescRecord, CtxRecord, Places
<1>2. HwReset \in HwRecord
  BY DEF HwReset, HwRecord
<1>3. Holds(r)
  BY DEF Holds
<1>4. /\ ctlrState = "IDLE"
      /\ chan = [c \in Chans |-> q]
      /\ desc = [d \in Desc |-> p]
      /\ pool = Desc
      /\ hw = [c \in Chans |-> HwReset]
      /\ ctx = [x \in Contexts |-> r]
      /\ out = {}
      /\ fifo = [c \in Chans |-> <<>>]
  BY DEF Init
<1>5. TypeOK
  <2> HIDE DEF q, p, r
  <2> QED BY <1>1, <1>2, <1>4 DEF TypeOK, States
<1>6. CtxInv
  <2> HIDE DEF r
  <2> QED BY <1>3, <1>4 DEF CtxInv
<1>7. \A c \in Chans : /\ Linking(c) = 0 /\ Building(c) = {}
                       /\ fifo[c] = <<>> /\ Len(fifo[c]) = 0
                       /\ Attached(c) = {} /\ Distinct(fifo[c])
  BY <1>4 DEF Linking, Building, Attached, Elements, Distinct
<1>8. SubInv /\ ListShape /\ WithinQuota
  BY <1>4, <1>7, ConstantsAssumption
     DEF SubInv, ListShape, ListShapeOf, WithinQuota
<1>9. DescConserved
  <2>1. \A x \in Contexts : ctx[x].cur = NULL
    BY <1>4
  <2> QED BY <1>4, <1>7, <2>1 DEF DescConserved
<1> QED BY <1>5, <1>6, <1>8, <1>9 DEF IInv, ListInv

\* Every step keeps the inductive invariant.
LEMMA NextIInv == IInv /\ [Next]_vars => IInv'
<1> SUFFICES ASSUME IInv, [Next]_vars PROVE IInv'
  OBVIOUS
<1>1. CASE UNCHANGED vars
  BY <1>1, FrameLemma, CtxSame
     DEF vars, IInv, TypeOK, CtxInv, ListFrame, SameList
<1>2. ASSUME NEW c \in Chans,
             Submit(c) \/ IdleSubmit(c) \/ SubmitSteps(c) \/ HwTransfer(c)
             \/ HwTeardown(c)
      PROVE  IInv'
  BY <1>2, AllocateStep, MapFailsStep, SubmitFirstStep, ChainStep,
     FinishChainStep, HwSteps
     DEF Submit, IdleSubmit, SubmitSteps, HwTransfer
<1>3. ASSUME NEW x \in Contexts, PollSteps(x) \/ IntCtrlSteps(x)
      PROVE  IInv'
  <2>1. CASE PollProcess(x) \/ Free(x) \/ Call(x)
    BY <2>1, ReclaimSteps, FreeStep, CallStep
  <2>2. CASE PollEnd(x)
    <3>1. ctx[x].ch \in Chans
      BY <2>2 DEF PollEnd, IInv, CtxInv, Holds
    <3> QED BY <2>2, <3>1, LocalSteps
  <2>3. CASE IntOnEnd(x)
    BY <2>3, GotoSteps
  <2>4. CASE \E c \in Chans : ChanIntCtrl(x, c)
    BY <2>4, StartSteps
  <2> QED BY <1>3, <2>1, <2>2, <2>3, <2>4 DEF PollSteps, IntCtrlSteps
<1>4. ASSUME NEW x \in Contexts, StopSteps(x) PROVE IInv'
  <2>1. CASE \E c \in Chans : StopBegin(x, c) \/ StopRefused(x, c)
    BY <2>1, StopFrameSteps, LocalSteps
  <2>2. CASE StopAck(x) \/ StopEnd(x) \/ ChanStart(x)
    <3>1. ctx[x].ch \in Chans
      BY <2>2 DEF StopAck, StopEnd, ChanStart, IInv, CtxInv, Holds
    <3> QED BY <2>2, <3>1, StopFrameSteps, StartSteps
  <2>3. CASE DrainProcess(x) \/ CleanUp(x)
    BY <2>3, ReclaimSteps
  <2>4. CASE DrainEnd(x) \/ TxLoop(x) \/ TxLoopEnd(x)
    BY <2>4, GotoSteps
  <2> QED BY <1>4, <2>1, <2>2, <2>3, <2>4 DEF StopSteps
<1>5. Rtnl \in Contexts /\ Pollers \subseteq Contexts
      /\ Watchdogs \subseteq Contexts
  BY DEF Contexts
<1>6. ASSUME NEW x \in Pollers, NEW c \in Chans, PollStart(x, c) PROVE IInv'
  BY <1>5, <1>6, LocalSteps
<1>7. ASSUME NEW w \in Watchdogs, TxTimeout(w) PROVE IInv'
  BY <1>5, <1>7, GotoSteps
<1>8. CASE CtlrStart \/ CtlrStopSteps
  BY <1>8, CtlrSteps DEF CtlrStopSteps
<1>9. CASE SecondOpen \/ LastStop \/ CtlrStartEnd
  BY <1>5, <1>9, GotoSteps
<1>10. CASE \E c \in Chans : CtlrChanOn(c)
  BY <1>5, <1>10, StartSteps
<1> QED BY <1>1, <1>2, <1>3, <1>4, <1>6, <1>7, <1>8, <1>9, <1>10
        DEF Next, TrafficNext, StopNext, OpenSteps

\* IInv holds in every reachable state: each action of the submitters, the
\* pollers, the watchdogs, the opening thread and the hardware preserves it.
THEOREM Invariance == Spec => []IInv
<1>1. Init => IInv
  BY InitIInv
<1>2. IInv /\ [Next]_vars => IInv'
  BY NextIInv
<1> QED BY <1>1, <1>2, PTL DEF Spec

\* Every variable of the engine keeps its type, whatever the interleaving of
\* submissions, reclaims, teardowns and the hardware.
THEOREM TypeCorrect == Spec => []TypeOK
<1>1. IInv => TypeOK
  BY DEF IInv
<1> QED BY <1>1, Invariance, PTL

\* No descriptor of the pool is leaked, freed twice or linked twice by
\* cpdma_desc_alloc and cpdma_desc_free's users.
THEOREM DescriptorsConserved == Spec => []DescConserved
<1>1. IInv => DescConserved
  BY DEF IInv, ListInv
<1> QED BY <1>1, Invariance, PTL

\* The hw_next chain, chan->head, chan->tail and chan->count of every channel
\* agree at every step of __cpdma_chan_submit and __cpdma_chan_process.
THEOREM ListsWellFormed == Spec => []ListShape
<1>1. IInv => ListShape
  BY DEF IInv, ListInv
<1> QED BY <1>1, Invariance, PTL

\* No channel holds more than chan->desc_num descriptors, although
\* cpdma_chan_submit_si reads chan->count before it links the new one.
THEOREM QuotaRespected == Spec => []WithinQuota
<1>1. IInv => WithinQuota
  BY DEF IInv, ListInv
<1> QED BY <1>1, Invariance, PTL

-----------------------------------------------------------------------------
(* Tokens: the invariant.                                                  *)

\* A descriptor in use carries a token, and so does a context that will call the handler.
TokenTypes ==
  /\ \A d \in Desc \ pool : desc[d].token \in Token
  /\ \A x \in Contexts : ctx[x].tok # NULL <=> ctx[x].pc = "call"

TokenInv == IInv /\ TokenTypes /\ TokensConserved

-----------------------------------------------------------------------------
(* Restored channels: the invariant.                                       *)

Pc(x) == ctx[x].pc

\* Which places context x reaches.
RoleOf(x) ==
  /\ Pc(x) \notin {"free", "call"} => ctx[x].ret = "idle"
  /\ IF x \in Pollers
     THEN Pc(x) \in {"idle", "poll", "free", "call"} /\ ctx[x].ret \in {"idle", "poll"}
     ELSE /\ Pc(x) # "poll" /\ ctx[x].ret # "poll"
          /\ Pc(x) \in {"free", "call"} => ctx[x].ret # "idle"
          /\ Pc(x) \notin (IF x = Rtnl THEN {"txloop", "chanon"} ELSE {"ctlron", "ctlrstop"})

Roles == \A x \in Contexts : RoleOf(x)

\* The controller's state follows the thread that opens and stops; the watchdogs rest
\* while it does.
Phase ==
  /\ ctlrState = "IDLE" => Pc(Rtnl) = "idle" /\ \A w \in Watchdogs : Pc(w) = "idle"
  /\ ctlrState = "ACTIVE" => Pc(Rtnl) \in {"idle", "ctlron", "inton", "intoff"}
  /\ ctlrState = "TEARDOWN" =>
       Pc(Rtnl) \in {"ctlrstop", "tdwait", "drain", "clean", "free", "call"}
  /\ Pc(Rtnl) \notin {"idle", "inton"} => \A w \in Watchdogs : Pc(w) = "idle"

\* Context x is in cpdma_chan_stop of channel c.
Stopping(x, c) ==
  /\ ctx[x].ch = c
  /\ Pc(x) \in {"tdwait", "drain", "clean"} \/ ctx[x].ret \in {"drain", "clean"}

\* Context x will enable the interrupt of channel c, if the channel is active then.
Unmasks(x, c) ==
  /\ Pc(x) \notin {"idle", "ctlron"}
  /\ Pc(x) = "inton" => c \in ctx[x].todo

\* Context x will call cpdma_chan_on for channel c.
TurnsOn(x, c) ==
  \/ x = Rtnl /\ Pc(x) = "ctlron" /\ c \in ctx[x].todo
  \/ x \in Watchdogs /\ Pc(x) = "chanon" /\ ctx[x].ch = c

\* Who will bring channel c back if it is not on.
Restored(c) ==
  /\ chan[c].state = "TEARDOWN" => \E x \in Contexts \ Pollers : Stopping(x, c)
  /\ chan[c].state = "IDLE" /\ ctlrState = "ACTIVE" =>
       \E x \in Contexts \ Pollers : TurnsOn(x, c)
  /\ chan[c].state = "ACTIVE" /\ ctlrState = "ACTIVE" /\ ~chan[c].inten =>
       \E x \in Contexts \ Pollers : Unmasks(x, c)
  /\ ctlrState = "IDLE" => chan[c].state = "IDLE"
  /\ ctlrState = "TEARDOWN" =>
       c \in ctx[Rtnl].todo \/ chan[c].state = "IDLE" \/ Stopping(Rtnl, c)

Restorer == \A c \in Chans : Restored(c)

RestoreInv == IInv /\ Roles /\ Phase /\ Restorer

-----------------------------------------------------------------------------
(* The DMA and the lists, without teardowns: the invariant.                *)

\* The flags of the descriptor at position i of the list of c.
ModeAt(c, i) == desc[fifo[c][i]].mode

\* The hardware has given back what precedes position k, and owns the rest.  It works
\* on k, or has reached the end of the queue before k, and says so at k - 1.
AtPosition(c, k) ==
  LET n == Len(fifo[c]) IN
  /\ k \in 1..(n + 1)
  /\ \A i \in k..n : ModeAt(c, i) = {"OWNER"}
  /\ \A i \in 1..(k - 1) :
       ModeAt(c, i) = IF i = k - 1 /\ hw[c].hdp = NULL THEN {"EOQ"} ELSE {}
  /\ hw[c].hdp # NULL =>
       /\ k <= n /\ hw[c].hdp = fifo[c][k]
       /\ hw[c].latch \in {Unread, NULL, desc[hw[c].hdp].next}
  /\ hw[c].hdp = NULL => hw[c].latch = Unread
  /\ IF chan[c].state = "ACTIVE"
     THEN /\ hw[c].hdp = NULL /\ k <= n => k > 1
          /\ c \in RxChans => hw[c].rxfree = n + 1 - k - Linking(c)
     ELSE k = 1 /\ hw[c] = HwReset

\* Nobody stops channel c, and the DMA follows its list.
Follows(c) ==
  /\ chan[c].state \in {"IDLE", "ACTIVE"}
  /\ ctlrState = "IDLE" => chan[c].state = "IDLE"
  /\ chan[c].sub = "alloc" => desc[chan[c].new].mode = {"OWNER"}
  /\ \E k \in 1..(Len(fifo[c]) + 1) : AtPosition(c, k)

TrafficInv == IInv /\ ctlrState \in {"IDLE", "ACTIVE"} /\ \A c \in Chans : Follows(c)
-----------------------------------------------------------------------------
(* Steps that leave the tokens alone.                                      *)

\* The tokens of the descriptors in use, and of the contexts, stay where they are.
TokenFrame ==
  /\ UNCHANGED <<pool, out>>
  /\ \A d \in Desc : desc'[d].token = desc[d].token
  /\ \A x \in Contexts : /\ ctx'[x].tok = ctx[x].tok
                         /\ ctx'[x].pc = "call" <=> ctx[x].pc = "call"

\* So do the lists, and the descriptors that contexts have unlinked.
Quiet ==
  /\ TokenFrame
  /\ UNCHANGED fifo
  /\ \A x \in Contexts : ctx'[x].cur = ctx[x].cur

\* Steps that neither take a token nor give it back keep every token where it is.
LEMMA TokenFrameLemma ==
  ASSUME TokenInv, TokenFrame PROVE TokenTypes' /\ TokensConserved'
<1>1. TokenTypes'
  BY DEF TokenInv, TokenTypes, TokenFrame
<1>2. TokensConserved'
  <2>1. {desc'[d].token : d \in Desc \ pool'} = {desc[d].token : d \in Desc \ pool}
    BY DEF TokenFrame
  <2>2. {ctx'[x].tok : x \in Contexts} = {ctx[x].tok : x \in Contexts}
    BY DEF TokenFrame
  <2>3. out' = {desc'[d].token : d \in Desc \ pool'} \cup ({ctx'[x].tok : x \in Contexts} \ {NULL})
    BY <2>1, <2>2 DEF TokenInv, TokensConserved, TokenFrame
  <2> QED BY <2>3 DEF TokenInv, TokensConserved, TokenFrame
<1> QED BY <1>1, <1>2

\* One context moves, and no other.
LEMMA ContextMoves ==
  ASSUME TypeOK, NEW x \in Contexts, NEW r, ctx' = [ctx EXCEPT ![x] = r],
         r.tok = ctx[x].tok, r.cur = ctx[x].cur, r.pc = "call" <=> ctx[x].pc = "call",
         UNCHANGED <<pool, out, fifo>>, \A d \in Desc : desc'[d].token = desc[d].token
  PROVE  Quiet
<1>1. \A y \in Contexts : ctx'[y] = IF y = x THEN r ELSE ctx[y]
  BY DEF TypeOK
<1> QED BY <1>1 DEF Quiet, TokenFrame

\* A context that goes elsewhere moves no token.
LEMMA GotoQuiet ==
  ASSUME TypeOK, NEW x \in Contexts, NEW p, NEW C, Goto(x, p) \/ GotoLoop(x, p, C),
         p # "call", ctx[x].pc # "call",
         UNCHANGED <<pool, out, fifo>>, UNCHANGED desc
  PROVE  Quiet
<1>1. ctx \in [Contexts -> CtxRecord] /\ ctx[x] \in CtxRecord
  BY DEF TypeOK
<1>2. CASE Goto(x, p)
  <2> DEFINE r == [ctx[x] EXCEPT !.pc = p]
  <2>1. ctx' = [ctx EXCEPT ![x] = r] /\ r.tok = ctx[x].tok /\ r.cur = ctx[x].cur /\ r.pc = p
    BY <1>1, <1>2 DEF Goto, CtxRecord
  <2> QED BY <2>1, ContextMoves
<1>3. CASE GotoLoop(x, p, C)
  <2> DEFINE r == [ctx[x] EXCEPT !.pc = p, !.ch = NULL, !.todo = C]
  <2>1. ctx' = [ctx EXCEPT ![x] = r] /\ r.tok = ctx[x].tok /\ r.cur = ctx[x].cur /\ r.pc = p
    BY <1>1, <1>3 DEF GotoLoop, CtxRecord
  <2> QED BY <2>1, ContextMoves
<1> QED BY <1>2, <1>3

\* Neither does the begin of a poll or of a teardown, or its end.
LEMMA PollAndStopQuiet ==
  ASSUME IInv, NEW x \in Contexts, NEW c \in Chans,
         PollStart(x, c) \/ PollEnd(x) \/ StopBegin(x, c) \/ StopRefused(x, c)
         \/ ChanIntCtrl(x, c) \/ CtlrChanOn(c)
  PROVE  Quiet
<1>1. TypeOK /\ ctx[x] \in CtxRecord
  BY DEF IInv, TypeOK
<1>2. CASE PollStart(x, c)
  <2> DEFINE r == [ctx[x] EXCEPT !.pc = "poll", !.ch = c]
  <2>1. ctx' = [ctx EXCEPT ![x] = r] /\ ctx[x].pc = "idle"
        /\ UNCHANGED <<pool, out, fifo>> /\ desc' = desc
    BY <1>2 DEF PollStart, LocalStep
  <2>2. r.tok = ctx[x].tok /\ r.cur = ctx[x].cur /\ r.pc = "poll"
    BY <1>1 DEF CtxRecord
  <2> HIDE DEF r
  <2> QED BY <1>1, <2>1, <2>2, ContextMoves
<1>3. CASE PollEnd(x)
  <2> DEFINE r == [ctx[x] EXCEPT !.pc = "idle", !.ch = NULL]
  <2>1. ctx' = [ctx EXCEPT ![x] = r] /\ ctx[x].pc = "poll"
        /\ UNCHANGED <<pool, out, fifo>> /\ desc' = desc
    BY <1>3 DEF PollEnd, LocalStep
  <2>2. r.tok = ctx[x].tok /\ r.cur = ctx[x].cur /\ r.pc = "idle"
    BY <1>1 DEF CtxRecord
  <2> HIDE DEF r
  <2> QED BY <1>1, <2>1, <2>2, ContextMoves
<1>4. CASE StopBegin(x, c)
  <2> DEFINE r == [ctx[x] EXCEPT !.pc = "tdwait", !.ch = c, !.todo = @ \ {c}]
  <2>1. ctx' = [ctx EXCEPT ![x] = r] /\ ctx[x].pc # "call"
        /\ UNCHANGED <<pool, out, fifo>> /\ desc' = desc
    BY <1>4 DEF StopBegin
  <2>2. r.tok = ctx[x].tok /\ r.cur = ctx[x].cur /\ r.pc = "tdwait"
    BY <1>1 DEF CtxRecord
  <2> HIDE DEF r
  <2> QED BY <1>1, <2>1, <2>2, ContextMoves
<1>5. CASE StopRefused(x, c)
  <2> DEFINE r == [ctx[x] EXCEPT !.pc = "chanon", !.ch = c, !.todo = @ \ {c}]
  <2>1. ctx' = [ctx EXCEPT ![x] = r] /\ ctx[x].pc # "call"
        /\ UNCHANGED <<pool, out, fifo>> /\ desc' = desc
    BY <1>5 DEF StopRefused, LocalStep
  <2>2. r.tok = ctx[x].tok /\ r.cur = ctx[x].cur /\ r.pc = "chanon"
    BY <1>1 DEF CtxRecord
  <2> HIDE DEF r
  <2> QED BY <1>1, <2>1, <2>2, ContextMoves
<1>6. CASE ChanIntCtrl(x, c)
  <2> DEFINE r == [ctx[x] EXCEPT !.todo = @ \ {c}]
  <2>1. ctx' = [ctx EXCEPT ![x] = r] /\ UNCHANGED <<pool, out, fifo>> /\ desc' = desc
    BY <1>6 DEF ChanIntCtrl
  <2>2. r.tok = ctx[x].tok /\ r.cur = ctx[x].cur /\ r.pc = ctx[x].pc
    BY <1>1 DEF CtxRecord
  <2> HIDE DEF r
  <2> QED BY <1>1, <2>1, <2>2, ContextMoves
<1>7. CASE CtlrChanOn(c)
  <2> DEFINE r == [ctx[Rtnl] EXCEPT !.todo = @ \ {c}]
  <2>1. ctx' = [ctx EXCEPT ![Rtnl] = r] /\ UNCHANGED <<pool, out, fifo>> /\ desc' = desc
    BY <1>7 DEF CtlrChanOn
  <2>2. Rtnl \in Contexts
    BY DEF Contexts
  <2>3. r.tok = ctx[Rtnl].tok /\ r.cur = ctx[Rtnl].cur /\ r.pc = ctx[Rtnl].pc
    BY <1>1, <2>2 DEF TypeOK, CtxRecord
  <2> HIDE DEF r
  <2> QED BY <1>1, <2>1, <2>2, <2>3, ContextMoves
<1> QED BY <1>2, <1>3, <1>4, <1>5, <1>6, <1>7

\* Nor what a teardown, a timeout or the controller does around the channels.
LEMMA GotoStepsQuiet ==
  ASSUME IInv, NEW x \in Contexts,
         StopAck(x) \/ DrainEnd(x) \/ StopEnd(x) \/ ChanStart(x) \/ IntOnEnd(x)
         \/ TxTimeout(x) \/ TxLoop(x) \/ TxLoopEnd(x)
         \/ CtlrStart \/ CtlrStartEnd \/ SecondOpen \/ LastStop \/ CtlrStop \/ CtlrStopEnd
  PROVE  Quiet
<1>1. TypeOK /\ Rtnl \in Contexts
  BY DEF IInv, Contexts
<1>2. CASE StopAck(x) \/ DrainEnd(x) \/ StopEnd(x) \/ ChanStart(x) \/ IntOnEnd(x)
  <2>1. /\ UNCHANGED <<pool, out, fifo>> /\ desc' = desc /\ ctx[x].pc # "call"
        /\ \E p \in Places \ {"call"} : Goto(x, p)
    BY <1>2 DEF StopAck, DrainEnd, StopEnd, ChanStart, IntOnEnd, LocalStep, Places
  <2> QED BY <1>1, <2>1, GotoQuiet
<1>3. CASE TxTimeout(x) \/ TxLoop(x) \/ TxLoopEnd(x)
  <2>1. /\ UNCHANGED <<pool, out, fifo>> /\ desc' = desc /\ ctx[x].pc # "call"
        /\ \E p \in Places \ {"call"}, C \in SUBSET Chans : GotoLoop(x, p, C)
    BY <1>3 DEF TxTimeout, TxLoop, TxLoopEnd, LocalStep, Places, Chans
  <2> QED BY <1>1, <2>1, GotoQuiet
<1>4. CASE CtlrStart \/ CtlrStartEnd \/ SecondOpen \/ LastStop \/ CtlrStop \/ CtlrStopEnd
  <2>1. /\ UNCHANGED <<pool, out, fifo>> /\ desc' = desc /\ ctx[Rtnl].pc # "call"
        /\ \E p \in Places \ {"call"}, C \in SUBSET Chans : GotoLoop(Rtnl, p, C)
    BY <1>1, <1>4 DEF CtlrStart, CtlrStartEnd, SecondOpen, LastStop, CtlrStop, CtlrStopEnd,
                      LocalStep, Places
  <2> QED BY <1>1, <2>1, GotoQuiet
<1> QED BY <1>2, <1>3, <1>4

\* Nor the hardware.
LEMMA HwQuiet ==
  ASSUME IInv, NEW c \in Chans, HwFetch(c) \/ HwComplete(c) \/ HwTeardown(c) \/ FinishChain(c)
  PROVE  Quiet
<1>1. /\ desc \in [Desc -> DescRecord]
      /\ \A d \in Desc : desc[d] \in DescRecord
  BY DEF IInv, TypeOK
<1>2. UNCHANGED <<pool, out, fifo, ctx>>
  BY DEF HwFetch, HwComplete, HwTeardown, FinishChain, HwStep
<1>3. desc' = desc \/ \E d \in Desc \cup {NULL} : \E m : desc' = [desc EXCEPT ![d].mode = m]
  <2>1. hw[c].hdp \in Desc \cup {NULL} /\ chan[c].tail \in Desc \cup {NULL}
    BY DEF IInv, TypeOK, HwRecord, ChanRecord
  <2> QED BY <2>1 DEF HwFetch, HwComplete, HwTeardown, FinishChain
<1>4. \A d \in Desc : desc'[d].token = desc[d].token
  BY <1>1, <1>3 DEF DescRecord
<1> QED BY <1>2, <1>4 DEF Quiet, TokenFrame
-----------------------------------------------------------------------------
(* Steps that move tokens.                                                 *)

\* What is known of a descriptor that context x or channel c holds.
LEMMA HeldFacts ==
  ASSUME TokenInv
  PROVE  /\ \A x \in Contexts : ctx[x].cur # NULL => ctx[x].cur \in Desc \ pool
         /\ \A c \in Chans : chan[c].sub = "alloc" => chan[c].new \in Desc \ pool
         /\ \A c \in Chans : \A i \in 1..Len(fifo[c]) : fifo[c][i] \in Desc \ pool
         /\ \A d \in Desc \ pool : desc[d].token \in Token /\ desc[d].token \in out
         /\ \A x \in Contexts : ctx[x].tok # NULL => ctx[x].tok \in out
         /\ pool \subseteq Desc /\ NULL \notin Desc /\ NULL \notin Token
<1>1. \A x \in Contexts : ctx[x].cur # NULL => ctx[x].cur \in Desc \ pool
  BY DEF TokenInv, IInv, ListInv, DescConserved, TypeOK, CtxRecord
<1>2. \A c \in Chans : chan[c].sub = "alloc" => chan[c].new \in Desc \ pool
  BY DEF TokenInv, IInv, ListInv, DescConserved, SubInv, Attached, Building
<1>3. ASSUME NEW c \in Chans, NEW i \in 1..Len(fifo[c]) PROVE fifo[c][i] \in Desc \ pool
  <2>1. fifo[c][i] \in Desc /\ fifo[c][i] \in Elements(fifo[c])
    BY ListFacts DEF TokenInv
  <2>2. pool \cap Attached(c) = {}
    BY DEF TokenInv, IInv, ListInv, DescConserved
  <2> QED BY <2>1, <2>2 DEF Attached
<1>4. \A d \in Desc \ pool : desc[d].token \in Token /\ desc[d].token \in out
  BY DEF TokenInv, TokenTypes, TokensConserved
<1>5. \A x \in Contexts : ctx[x].tok # NULL => ctx[x].tok \in out
  BY DEF TokenInv, TokensConserved
<1>6. pool \subseteq Desc
  BY DEF TokenInv, IInv, TypeOK
<1> QED BY <1>1, <1>2, <1>3, <1>4, <1>5, <1>6, NonNull

\* cpdma_chan_submit takes a token that is not yet in use.
LEMMA AllocateTokens ==
  ASSUME TokenInv, NEW c \in Chans, Allocate(c)
  PROVE  TokenTypes' /\ TokensConserved'
<1>1. PICK d \in pool, t \in Token \ out :
        /\ pool' = pool \ {d}
        /\ desc' = [desc EXCEPT ![d] = [next |-> NULL, mode |-> {"OWNER"}, token |-> t]]
        /\ out' = out \cup {t} /\ ctx' = ctx
  BY DEF Allocate
<1>2. /\ d \in Desc /\ Desc \ pool' = (Desc \ pool) \cup {d}
      /\ desc'[d].token = t /\ \A e \in Desc \ pool : desc'[e] = desc[e]
  BY <1>1 DEF TokenInv, IInv, TypeOK
<1>3. TokenTypes'
  BY <1>1, <1>2 DEF TokenInv, TokenTypes
<1>4. {desc'[e].token : e \in Desc \ pool'} = {desc[e].token : e \in Desc \ pool} \cup {t}
  BY <1>2
<1>5. out' = {desc'[e].token : e \in Desc \ pool'} \cup ({ctx'[x].tok : x \in Contexts} \ {NULL})
  BY <1>1, <1>4 DEF TokenInv, TokensConserved
<1>6. \A e \in Desc \ pool : desc[e].token # t
  BY HeldFacts
<1>7. \A x \in Contexts : ctx[x].tok # t
  BY HeldFacts
<1>8. \A e, f \in Desc \ pool' : desc'[e].token = desc'[f].token => e = f
  BY <1>2, <1>6 DEF TokenInv, TokensConserved
<1>9. \A x \in Contexts : ctx'[x].tok # NULL =>
        /\ \A e \in Desc \ pool' : desc'[e].token # ctx'[x].tok
        /\ \A y \in Contexts \ {x} : ctx'[y].tok # ctx'[x].tok
  BY <1>1, <1>2, <1>7 DEF TokenInv, TokensConserved
<1> QED BY <1>3, <1>5, <1>8, <1>9 DEF TokensConserved

\* If the mapping fails the caller keeps the token.
LEMMA MapFailsTokens ==
  ASSUME TokenInv, NEW c \in Chans, MapFails(c)
  PROVE  TokenTypes' /\ TokensConserved'
<1> DEFINE d == chan[c].new
           t == desc[d].token
<1>1. /\ pool' = pool \cup {d} /\ out' = out \ {t} /\ desc' = desc /\ ctx' = ctx
      /\ chan[c].sub = "alloc"
  BY DEF MapFails
<1>2. d \in Desc \ pool /\ Desc \ pool' = (Desc \ pool) \ {d}
  BY <1>1, HeldFacts
<1> HIDE DEF d
<1>3. TokenTypes'
  BY <1>1, <1>2 DEF TokenInv, TokenTypes
<1>4. \A e \in (Desc \ pool) \ {d} : desc[e].token # t
  BY <1>2 DEF TokenInv, TokensConserved
<1>5. \A x \in Contexts : ctx[x].tok # t
  BY <1>2, HeldFacts DEF TokenInv, TokensConserved
<1>6. {desc'[e].token : e \in Desc \ pool'} = {desc[e].token : e \in Desc \ pool} \ {t}
  BY <1>1, <1>2, <1>4
<1>7. {ctx'[x].tok : x \in Contexts} = {ctx[x].tok : x \in Contexts} \ {t}
  BY <1>1, <1>5
<1>8. out' = {desc'[e].token : e \in Desc \ pool'} \cup ({ctx'[x].tok : x \in Contexts} \ {NULL})
  BY <1>1, <1>6, <1>7 DEF TokenInv, TokensConserved
<1> QED BY <1>1, <1>2, <1>3, <1>8 DEF TokenInv, TokensConserved

\* __cpdma_chan_free: the token passes from the descriptor to the context.
LEMMA FreeTokens ==
  ASSUME TokenInv, NEW x \in Contexts, Free(x)
  PROVE  TokenTypes' /\ TokensConserved'
<1> DEFINE d == ctx[x].cur
           t == desc[d].token
<1>1. /\ ctx[x].pc = "free" /\ pool' = pool \cup {d} /\ out' = out /\ desc' = desc
      /\ ctx' = [ctx EXCEPT ![x].pc = "call", ![x].cur = NULL, ![x].tok = t]
  BY DEF Free
<1>2. /\ ctx'[x].tok = t /\ ctx'[x].pc = "call" /\ ctx[x].tok = NULL
      /\ \A y \in Contexts \ {x} : ctx'[y] = ctx[y]
  BY <1>1 DEF TokenInv, IInv, TypeOK, CtxRecord, TokenTypes
<1>3. d \in Desc \ pool /\ Desc \ pool' = (Desc \ pool) \ {d} /\ t \in Token /\ t # NULL
  BY <1>1, HeldFacts DEF TokenInv, IInv, CtxInv, Holds
<1> HIDE DEF d
<1>4. TokenTypes'
  BY <1>1, <1>2, <1>3 DEF TokenInv, TokenTypes
<1>5. \A e \in (Desc \ pool) \ {d} : desc[e].token # t
  BY <1>3 DEF TokenInv, TokensConserved
<1>6. \A y \in Contexts : ctx[y].tok # t
  BY <1>3 DEF TokenInv, TokensConserved
<1>7. {desc'[e].token : e \in Desc \ pool'} = {desc[e].token : e \in Desc \ pool} \ {t}
  BY <1>1, <1>3, <1>5
<1>8. {ctx'[y].tok : y \in Contexts} \ {NULL} = ({ctx[y].tok : y \in Contexts} \ {NULL}) \cup {t}
  BY <1>2, <1>3
<1>9. out' = {desc'[e].token : e \in Desc \ pool'} \cup ({ctx'[y].tok : y \in Contexts} \ {NULL})
  <2>1. t \in {desc[e].token : e \in Desc \ pool}
    BY <1>3
  <2> QED BY <1>1, <1>7, <1>8, <2>1 DEF TokenInv, TokensConserved
<1>10. \A e, f \in Desc \ pool' : desc'[e].token = desc'[f].token => e = f
  BY <1>1, <1>3 DEF TokenInv, TokensConserved
<1>11. ASSUME NEW y \in Contexts, ctx'[y].tok # NULL
       PROVE  /\ \A e \in Desc \ pool' : desc'[e].token # ctx'[y].tok
              /\ \A z \in Contexts \ {y} : ctx'[z].tok # ctx'[y].tok
  <2>1. CASE y = x
    BY <1>1, <1>2, <1>3, <1>5, <1>6, <2>1
  <2>2. CASE y # x
    <3>1. ctx'[y].tok = ctx[y].tok /\ ctx[y].tok # NULL /\ ctx[y].tok # t
      BY <1>2, <1>6, <1>11, <2>2
    <3>2. \A e \in Desc \ pool' : desc'[e].token # ctx'[y].tok
      BY <1>1, <1>3, <3>1 DEF TokenInv, TokensConserved
    <3>3. ASSUME NEW z \in Contexts \ {y} PROVE ctx'[z].tok # ctx'[y].tok
      <4>1. CASE z = x
        BY <1>2, <3>1, <4>1
      <4>2. CASE z # x
        BY <1>2, <3>1, <4>2 DEF TokenInv, TokensConserved
      <4> QED BY <4>1, <4>2
    <3> QED BY <3>2, <3>3
  <2> QED BY <2>1, <2>2
<1> QED BY <1>4, <1>9, <1>10, <1>11 DEF TokensConserved

\* chan->handler gives the token back.
LEMMA CallTokens ==
  ASSUME TokenInv, NEW x \in Contexts, Call(x)
  PROVE  TokenTypes' /\ TokensConserved'
<1> DEFINE t == ctx[x].tok
<1>1. /\ ctx[x].pc = "call" /\ out' = out \ {t} /\ desc' = desc /\ pool' = pool
  BY DEF Call
<1>2. /\ ctx'[x].tok = NULL /\ ctx'[x].pc # "call" /\ t # NULL
      /\ \A y \in Contexts \ {x} : ctx'[y] = ctx[y]
  BY <1>1 DEF Call, TokenInv, IInv, TypeOK, CtxRecord, TokenTypes
<1>3. TokenTypes'
  BY <1>1, <1>2 DEF TokenInv, TokenTypes
<1>4. /\ \A e \in Desc \ pool : desc[e].token # t
      /\ \A y \in Contexts \ {x} : ctx[y].tok # t
  BY <1>2 DEF TokenInv, TokensConserved
<1>5. {desc'[e].token : e \in Desc \ pool'} = {desc[e].token : e \in Desc \ pool} \ {t}
  BY <1>1, <1>4
<1>6. {ctx'[y].tok : y \in Contexts} \ {NULL} = ({ctx[y].tok : y \in Contexts} \ {NULL}) \ {t}
  BY <1>2, <1>4
<1>7. out' = {desc'[e].token : e \in Desc \ pool'} \cup ({ctx'[y].tok : y \in Contexts} \ {NULL})
  BY <1>1, <1>5, <1>6 DEF TokenInv, TokensConserved
<1>8. \A y \in Contexts : ctx'[y].tok # NULL => y # x /\ ctx[y].tok = ctx'[y].tok
  BY <1>2
<1> QED BY <1>1, <1>2, <1>3, <1>7, <1>8 DEF TokenInv, TokensConserved

\* A descriptor is unlinked, and its token with it.
LEMMA UnlinkTokens ==
  ASSUME TokenInv, NEW x \in Contexts, NEW c \in Chans,
         NEW r \in {"idle", "poll", "drain", "clean"}, Unlink(x, c, r),
         ctx[x].pc # "call", UNCHANGED <<desc, pool, out>>
  PROVE  TokenFrame
<1>1. ctx \in [Contexts -> CtxRecord]
  BY DEF TokenInv, IInv, TypeOK
<1>2. \A y \in Contexts : /\ ctx'[y].tok = ctx[y].tok
                         /\ ctx'[y].pc = IF y = x THEN "free" ELSE ctx[y].pc
  BY <1>1 DEF Unlink, CtxRecord
<1> QED BY <1>2 DEF TokenFrame
-----------------------------------------------------------------------------
(* Every step.                                                             *)

\* Context x unlinks the head of the list of c.
Reclaims(x, c) ==
  /\ \E r \in {"idle", "poll", "drain", "clean"} : Unlink(x, c, r)
  /\ ctx[x].pc \in {"poll", "drain", "clean"} /\ ctx[x].ch = c
  /\ ~Locked(c) /\ chan[c].head # NULL
  /\ UNCHANGED <<desc, pool, out>>

\* Whoever walks over a list unlinks its head in the same way.
LEMMA ReclaimCases ==
  ASSUME IInv, NEW x \in Contexts, PollProcess(x) \/ DrainProcess(x) \/ CleanUp(x)
  PROVE  \E c \in Chans : Reclaims(x, c)
<1> DEFINE c == ctx[x].ch
<1>1. ctx[x].pc \in {"poll", "drain", "clean"}
  BY DEF PollProcess, DrainProcess, CleanUp
<1>2. c \in Chans
  BY <1>1 DEF IInv, CtxInv, Holds
<1>3. CASE PollProcess(x)
  <2>1. PICK r \in {"poll", "idle"} : Process(x, c, r)
    BY <1>3 DEF PollProcess
  <2> QED BY <1>1, <1>2, <2>1 DEF Process, HeadCompleted, Reclaims
<1>4. CASE DrainProcess(x)
  <2>1. PICK r \in {"drain", "clean"} : Process(x, c, r)
    BY <1>4 DEF DrainProcess
  <2> QED BY <1>1, <1>2, <2>1 DEF Process, HeadCompleted, Reclaims
<1>5. CASE CleanUp(x)
  BY <1>1, <1>2, <1>5 DEF CleanUp, Reclaims
<1> QED BY <1>3, <1>4, <1>5

\* The steps, by what they do to tokens.
LEMMA NextCases ==
  ASSUME IInv, [Next]_vars
  PROVE  \/ Quiet
         \/ \E c \in Chans : Allocate(c) \/ MapFails(c) \/ SubmitFirst(c) \/ Chain(c)
         \/ \E x \in Contexts : Free(x) \/ Call(x) \/ \E c \in Chans : Reclaims(x, c)
<1> DEFINE Goal ==
      \/ Quiet
      \/ \E c \in Chans : Allocate(c) \/ MapFails(c) \/ SubmitFirst(c) \/ Chain(c)
      \/ \E x \in Contexts : Free(x) \/ Call(x) \/ \E c \in Chans : Reclaims(x, c)
<1>1. CASE UNCHANGED vars
  BY <1>1 DEF vars, Quiet, TokenFrame
<1>2. ASSUME NEW c \in Chans,
             Submit(c) \/ IdleSubmit(c) \/ SubmitSteps(c) \/ HwTransfer(c) \/ HwTeardown(c)
      PROVE  Goal
  BY <1>2, HwQuiet DEF Submit, IdleSubmit, SubmitSteps, HwTransfer
<1>3. ASSUME NEW x \in Contexts, PollSteps(x) \/ IntCtrlSteps(x) PROVE Goal
  <2>1. CASE PollProcess(x)
    BY <2>1, ReclaimCases
  <2>2. CASE PollEnd(x)
    <3>1. ctx[x].ch \in Chans
      BY <2>2 DEF PollEnd, IInv, CtxInv, Holds
    <3> QED BY <2>2, <3>1, PollAndStopQuiet
  <2>3. CASE IntOnEnd(x)
    BY <2>3, GotoStepsQuiet
  <2>4. CASE \E c \in Chans : ChanIntCtrl(x, c)
    BY <2>4, PollAndStopQuiet
  <2> QED BY <1>3, <2>1, <2>2, <2>3, <2>4 DEF PollSteps, IntCtrlSteps
<1>4. ASSUME NEW x \in Contexts, StopSteps(x) PROVE Goal
  <2>1. CASE \E c \in Chans : StopBegin(x, c) \/ StopRefused(x, c)
    BY <2>1, PollAndStopQuiet
  <2>2. CASE DrainProcess(x) \/ CleanUp(x)
    BY <2>2, ReclaimCases
  <2>3. CASE StopAck(x) \/ DrainEnd(x) \/ StopEnd(x) \/ ChanStart(x) \/ TxLoop(x) \/ TxLoopEnd(x)
    BY <2>3, GotoStepsQuiet
  <2> QED BY <1>4, <2>1, <2>2, <2>3 DEF StopSteps
<1>5. Rtnl \in Contexts /\ Pollers \subseteq Contexts /\ Watchdogs \subseteq Contexts
  BY DEF Contexts
<1>6. ASSUME NEW x \in Pollers, NEW c \in Chans, PollStart(x, c) PROVE Goal
  BY <1>5, <1>6, PollAndStopQuiet
<1>7. ASSUME NEW w \in Watchdogs, TxTimeout(w) PROVE Goal
  BY <1>5, <1>7, GotoStepsQuiet
<1>8. CASE CtlrStart \/ CtlrStopSteps \/ SecondOpen \/ LastStop \/ CtlrStartEnd
  BY <1>5, <1>8, GotoStepsQuiet DEF CtlrStopSteps
<1>9. CASE \E c \in Chans : CtlrChanOn(c)
  BY <1>5, <1>9, PollAndStopQuiet
<1> QED BY <1>1, <1>2, <1>3, <1>4, <1>6, <1>7, <1>8, <1>9
        DEF Next, TrafficNext, StopNext, OpenSteps
-----------------------------------------------------------------------------
(* No token is lost or returned twice.                                     *)

\* At first every token is out of the driver.
LEMMA InitTokenInv == ASSUME Init PROVE TokenInv
<1>1. \A x \in Contexts : ctx[x].tok = NULL /\ ctx[x].pc = "idle"
  BY DEF Init
<1>2. TokenTypes /\ TokensConserved
  BY <1>1 DEF Init, TokenTypes, TokensConserved
<1> QED BY <1>2, InitIInv DEF TokenInv

\* Every step keeps the tokens where the invariant says.
LEMMA NextTokenInv == ASSUME TokenInv, [Next]_vars PROVE TokenInv'
<1>1. IInv /\ IInv'
  BY NextIInv DEF TokenInv
<1>2. CASE TokenFrame
  BY <1>1, <1>2, TokenFrameLemma DEF TokenInv
<1>3. ASSUME NEW c \in Chans, Allocate(c) \/ MapFails(c) PROVE TokenInv'
  BY <1>1, <1>3, AllocateTokens, MapFailsTokens DEF TokenInv
<1>4. ASSUME NEW c \in Chans, SubmitFirst(c) \/ Chain(c) PROVE TokenFrame
  <2>1. UNCHANGED <<pool, out, ctx>>
    BY <1>4 DEF SubmitFirst, Chain
  <2>2. \A d \in Desc : desc'[d].token = desc[d].token
    <3>1. CASE SubmitFirst(c)
      BY <3>1 DEF SubmitFirst
    <3>2. ASSUME Chain(c), NEW d \in Desc PROVE desc'[d].token = desc[d].token
      <4>1. desc \in [Desc -> DescRecord]
        BY <1>1 DEF IInv, TypeOK
      <4>2. desc[d] \in DescRecord
        BY <4>1
      <4> QED BY <3>2, <4>1, <4>2 DEF Chain, DescRecord
    <3> QED BY <1>4, <3>1, <3>2
  <2> QED BY <2>1, <2>2 DEF TokenFrame
<1>5. ASSUME NEW x \in Contexts, Free(x) \/ Call(x) PROVE TokenInv'
  BY <1>1, <1>5, FreeTokens, CallTokens DEF TokenInv
<1>6. ASSUME NEW x \in Contexts, NEW c \in Chans, Reclaims(x, c) PROVE TokenFrame
  BY <1>6, UnlinkTokens DEF Reclaims
<1> QED BY <1>1, <1>2, <1>3, <1>4, <1>5, <1>6, NextCases DEF Quiet

\* In every reachable state the tokens are where the invariant says.
THEOREM TokenInvariance == Spec => []TokenInv
<1>1. Init => TokenInv
  BY InitTokenInv
<1>2. TokenInv /\ [Next]_vars => TokenInv'
  BY NextTokenInv
<1> QED BY <1>1, <1>2, PTL DEF Spec

\* No skb, XDP frame or page is lost or completed twice: the tokens of the descriptors in
\* use and those about to be passed to a handler are the ones handed over, each once.
THEOREM TokensAreConserved == Spec => []TokensConserved
<1>1. TokenInv => TokensConserved
  BY DEF TokenInv
<1> QED BY <1>1, TokenInvariance, PTL
-----------------------------------------------------------------------------
(* The linked list that the driver walks is the history of linked          *)
(* descriptors.                                                            *)

\* A non-empty set of naturals has a least element.
LEMMA Least ==
  ASSUME NEW T \in SUBSET Nat, T # {}
  PROVE  \E m \in T : \A k \in T : m <= k
<1>1. IsWellFoundedOn(OpToRel(<, Nat), Nat)
  BY NatLessThanWellFounded
<1>2. PICK x \in T : \A y \in T : ~ (<<y, x>> \in OpToRel(<, Nat))
  BY <1>1, WFMin
<1>3. ASSUME NEW y \in T PROVE x <= y
  <2>1. ~ (<<y, x>> \in {ss \in Nat \X Nat : ss[1] < ss[2]})
    BY <1>2 DEF OpToRel
  <2>2. <<y, x>> \in Nat \X Nat /\ <<y, x>>[1] = y /\ <<y, x>>[2] = x
    OBVIOUS
  <2> QED BY <2>1, <2>2
<1> QED BY <1>3

\* The elements of a sequence without repetition are as many as its length.
LEMMA DistinctLength ==
  ASSUME NEW s \in Seq(Desc), Distinct(s)
  PROVE  /\ Len(s) <= Cardinality(Desc) /\ Cardinality(Desc) \in Nat
         /\ Cardinality(1..Len(s)) = Len(s)
<1>1. IsFiniteSet(Desc)
  BY ConstantsAssumption
<1>2. Len(s) \in Nat /\ s \in [1..Len(s) -> Desc]
  OBVIOUS
<1>3. s \in Injection(1..Len(s), Desc)
  BY <1>2 DEF Distinct, Injection, IsInjective
<1>4. Cardinality(1..Len(s)) <= Cardinality(Desc)
  BY <1>1, <1>3, FS_Injection
<1>5. Cardinality(1..Len(s)) = Len(s)
  BY <1>2, FS_Interval
<1> QED BY <1>1, <1>4, <1>5, FS_CardinalityType

\* The walk over hw_next finds exactly the list.
LEMMA WalkIsList ==
  ASSUME NEW s \in Seq(Desc), Distinct(s), NEW h, NEW dd,
         h = IF Len(s) = 0 THEN NULL ELSE s[1],
         \A i \in 1..Len(s) : dd[s[i]].next = IF i = Len(s) THEN NULL ELSE s[i + 1]
  PROVE  Walk(h, dd) = s
<1> DEFINE K == Cardinality(Desc)
           IsNth(f) == f = [i \in 1..K |-> IF i = 1 THEN h
                                   ELSE IF f[i - 1] = NULL THEN NULL ELSE dd[f[i - 1]].next]
           w == [i \in 1..K |-> IF i <= Len(s) THEN s[i] ELSE NULL]
           nth == CHOOSE f : IsNth(f)
<1>1. K \in Nat /\ Len(s) \in Nat /\ Len(s) <= K /\ \A i \in 1..Len(s) : s[i] \in Desc /\ s[i] # NULL
  BY DistinctLength, NonNull
<1> HIDE DEF K
<1>2. IsNth(w)
  <2>1. ASSUME NEW i \in 1..K
        PROVE  w[i] = IF i = 1 THEN h ELSE IF w[i - 1] = NULL THEN NULL ELSE dd[w[i - 1]].next
    <3>1. CASE i = 1
      BY <1>1, <3>1
    <3>2. CASE i # 1
      <4>1. i - 1 \in 1..K /\ (i - 1) + 1 = i
        BY <1>1, <3>2
      <4>2. CASE i - 1 <= Len(s)
        <5>1. i - 1 \in 1..Len(s) /\ w[i - 1] = s[i - 1] /\ w[i - 1] # NULL
          BY <1>1, <4>1, <4>2
        <5>2. dd[s[i - 1]].next = IF i - 1 = Len(s) THEN NULL ELSE s[(i - 1) + 1]
          BY <5>1
        <5>3. w[i] = IF i - 1 = Len(s) THEN NULL ELSE s[i]
          BY <1>1, <4>1, <4>2
        <5> QED BY <3>2, <4>1, <5>1, <5>2, <5>3
      <4>3. CASE i - 1 > Len(s)
        BY <1>1, <3>2, <4>1, <4>3
      <4> QED BY <1>1, <4>1, <4>2, <4>3
    <3> QED BY <3>1, <3>2
  <2> HIDE DEF w
  <2>2. w = [i \in 1..K |-> w[i]]
    BY DEF w
  <2> QED BY <2>1, <2>2
<1> HIDE DEF w
<1>3. IsNth(nth)
  BY <1>2
<1>4. nth = w
  <2> HIDE DEF nth
  <2> DEFINE T == {i \in 1..K : nth[i] # w[i]}
  <2>1. SUFFICES ASSUME T # {} PROVE FALSE
    <3>1. T = {} => \A i \in 1..K : nth[i] = w[i]
      OBVIOUS
    <3>2. w = [i \in 1..K |-> w[i]] /\ nth = [i \in 1..K |-> nth[i]]
      BY <1>2, <1>3
    <3> QED BY <3>1, <3>2
  <2>2. PICK m \in T : \A k \in T : m <= k
    <3>1. T \in SUBSET Nat
      BY <1>1
    <3> HIDE DEF T
    <3> QED BY <2>1, <3>1, Least
  <2>3. m \in 1..K /\ nth[m] # w[m]
    BY <2>2
  <2>4. m = 1 \/ nth[m - 1] = w[m - 1]
    BY <2>2, <2>3, <1>1
  <2> HIDE DEF T
  <2>5. /\ nth[m] = IF m = 1 THEN h ELSE IF nth[m - 1] = NULL THEN NULL ELSE dd[nth[m - 1]].next
        /\ w[m] = IF m = 1 THEN h ELSE IF w[m - 1] = NULL THEN NULL ELSE dd[w[m - 1]].next
    BY <1>2, <1>3, <2>3
  <2> QED BY <2>3, <2>4, <2>5
<1> HIDE DEF nth
<1>5. {i \in 1..K : nth[i] # NULL} = 1..Len(s)
  BY <1>1, <1>4 DEF w
<1>6. Cardinality({i \in 1..K : nth[i] # NULL}) = Len(s)
  BY <1>5, DistinctLength
<1>7. Walk(h, dd) = [i \in 1..Cardinality({i \in 1..K : nth[i] # NULL}) |-> nth[i]]
  BY DEF Walk, K, nth
<1>8. Walk(h, dd) = [i \in 1..Len(s) |-> w[i]]
  BY <1>4, <1>6, <1>7
<1>9. \A i \in 1..Len(s) : w[i] = s[i]
  BY <1>1 DEF w
<1>10. s = [i \in 1..Len(s) |-> s[i]]
  OBVIOUS
<1> QED BY <1>8, <1>9, <1>10
-----------------------------------------------------------------------------
(* The mapping, in terms of the history of linked descriptors.             *)

\* The tokens of the lists.
Queues == [c \in Chans |-> [i \in 1..Len(fifo[c]) |-> desc[fifo[c][i]].token]]

\* The tokens of unlinked descriptors, and of contexts about to call the handler.
Held == {desc[ctx[x].cur].token : x \in {y \in Contexts : ctx[y].cur # NULL}}
          \cup ({ctx[x].tok : x \in Contexts} \ {NULL})

\* What the mapping reads off the descriptors are the tokens of the lists.
LEMMA AcceptedIsQueues == IInv => Accepted = Queues
<1>1. ASSUME IInv, NEW c \in Chans PROVE ListOf(c) = fifo[c]
  <2>1. /\ fifo[c] \in Seq(Desc) /\ Distinct(fifo[c]) /\ ListShapeOf(c)
    BY <1>1, ListFacts
  <2>2. /\ chan[c].head = IF Len(fifo[c]) = 0 THEN NULL ELSE fifo[c][1]
        /\ \A i \in 1..Len(fifo[c]) :
             desc[fifo[c][i]].next = IF i = Len(fifo[c]) THEN NULL ELSE fifo[c][i + 1]
    BY <2>1 DEF ListShapeOf
  <2> QED BY <2>1, <2>2, WalkIsList DEF ListOf
<1> QED BY <1>1 DEF Accepted, Queues

\* And what it reads off the contexts are the tokens in their hands.
LEMMA ReturningIsHeld == IInv => Returning = Held
<1>1. IInv => \A x \in Contexts : ctx[x].cur # NULL <=> ctx[x].pc = "free"
  BY DEF IInv, CtxInv, Holds
<1> QED BY <1>1 DEF Returning, Held

\* Nothing that the queue shows has changed.
LEMMA StutterMaps ==
  ASSUME TokenInv, UNCHANGED fifo,
         \A d \in Desc \ pool : desc'[d].token = desc[d].token,
         \A x \in Contexts : ctx'[x].cur = ctx[x].cur /\ ctx'[x].tok = ctx[x].tok
  PROVE  Queues' = Queues /\ Held' = Held
<1>1. \A c \in Chans : \A i \in 1..Len(fifo[c]) : fifo[c][i] \in Desc \ pool
  BY HeldFacts
<1>2. \A x \in Contexts : ctx[x].cur # NULL => ctx[x].cur \in Desc \ pool
  BY HeldFacts
<1>3. Queues' = Queues
  BY <1>1 DEF Queues
<1>4. Held' = Held
  <2>1. {ctx'[x].tok : x \in Contexts} = {ctx[x].tok : x \in Contexts}
    OBVIOUS
  <2>2. {y \in Contexts : ctx'[y].cur # NULL} = {y \in Contexts : ctx[y].cur # NULL}
    OBVIOUS
  <2>3. \A x \in {y \in Contexts : ctx[y].cur # NULL} :
          desc'[ctx'[x].cur].token = desc[ctx[x].cur].token
    BY <1>2
  <2> QED BY <2>1, <2>2, <2>3 DEF Held
<1> QED BY <1>3, <1>4

\* Empty lists are an empty queue.
LEMMA InitMaps == Init => Queue!Init
<1> SUFFICES ASSUME Init PROVE Queue!Init
  OBVIOUS
<1>1. Accepted = Queues /\ Returning = Held
  BY InitIInv, AcceptedIsQueues, ReturningIsHeld
<1>2. Queues = [c \in Chans |-> <<>>]
  <2>1. \A c \in Chans : fifo[c] = <<>>
    BY DEF Init
  <2> QED BY <2>1 DEF Queues
<1>3. Held = {}
  BY DEF Init, Held
<1> QED BY <1>1, <1>2, <1>3 DEF Queue!Init

\* A descriptor that a submission links: the queue accepts its token.
LEMMA AcceptMaps ==
  ASSUME TokenInv, NEW c \in Chans, SubmitFirst(c) \/ Chain(c)
  PROVE  LET t == desc[chan[c].new].token IN
         /\ t \in Token
         /\ t \notin Held \cup UNION {{Queues[e][i] : i \in 1..Len(Queues[e])} : e \in Chans}
         /\ Len(Queues[c]) < DescNum[c]
         /\ Queues' = [Queues EXCEPT ![c] = Append(@, t)]
         /\ Held' = Held
<1> DEFINE d == chan[c].new
           t == desc[d].token
<1>1. /\ chan[c].sub = "alloc" /\ UNCHANGED <<pool, ctx>>
      /\ fifo' = [fifo EXCEPT ![c] = Append(@, d)]
  BY DEF SubmitFirst, Chain
<1>2. \A e \in Desc : desc'[e].token = desc[e].token
  <2>1. desc \in [Desc -> DescRecord] /\ \A e \in Desc : desc[e] \in DescRecord
    BY DEF TokenInv, IInv, TypeOK
  <2> QED BY <2>1, SMTT(30) DEF SubmitFirst, Chain, DescRecord
<1>3. d \in Desc \ pool /\ t \in Token /\ t # NULL
  BY <1>1, HeldFacts
<1>4. /\ \A e \in Chans : d \notin Elements(fifo[e])
      /\ \A x \in Contexts : ctx[x].cur # NULL => ctx[x].cur # d
  <2>1. d \in Building(c) /\ d \in Attached(c)
    BY <1>1 DEF Building, Attached
  <2> QED BY <2>1 DEF TokenInv, IInv, ListInv, DescConserved, Attached
<1>5. /\ \A e \in Chans : \A i \in 1..Len(fifo[e]) :
           fifo[e][i] \in Desc \ pool /\ fifo[e][i] # d
      /\ \A x \in Contexts : ctx[x].cur # NULL => ctx[x].cur \in Desc \ pool
  BY <1>4, HeldFacts DEF Elements
<1>6. \A e \in Desc \ pool : e # d => desc[e].token # t
  BY <1>3 DEF TokenInv, TokensConserved
<1>7. \A x \in Contexts : ctx[x].tok # t
  BY <1>3 DEF TokenInv, TokensConserved
<1>8. Len(fifo[c]) < DescNum[c]
  BY <1>1 DEF TokenInv, IInv, ListInv, SubInv
<1>9. \A e \in Chans : fifo[e] \in Seq(Desc) /\ Len(fifo[e]) \in Nat
  BY DEF TokenInv, IInv, TypeOK
<1> HIDE DEF d, t
<1>10. \A e \in Chans : /\ Len(Queues[e]) = Len(fifo[e])
                        /\ \A i \in 1..Len(fifo[e]) : Queues[e][i] = desc[fifo[e][i]].token
  BY <1>9 DEF Queues
<1>11. t \notin Held
  BY <1>4, <1>5, <1>6, <1>7 DEF Held
<1>12. \A e \in Chans : \A i \in 1..Len(Queues[e]) : Queues[e][i] # t
  BY <1>5, <1>6, <1>10
<1>13. Queues' = [Queues EXCEPT ![c] = Append(@, t)]
  <2>1. ASSUME NEW e \in Chans, e # c
        PROVE  [i \in 1..Len(fifo'[e]) |-> desc'[fifo'[e][i]].token] = Queues[e]
    <3>1. fifo'[e] = fifo[e]
      BY <1>1, <2>1 DEF TokenInv, IInv, TypeOK
    <3> QED BY <1>2, <1>5, <3>1 DEF Queues
  <2>2. [i \in 1..Len(fifo'[c]) |-> desc'[fifo'[c][i]].token] = Append(Queues[c], t)
    <3>1. fifo'[c] = Append(fifo[c], d)
      BY <1>1 DEF TokenInv, IInv, TypeOK
    <3>2. /\ Len(fifo'[c]) = Len(fifo[c]) + 1 /\ fifo'[c][Len(fifo[c]) + 1] = d
          /\ \A i \in 1..Len(fifo[c]) : fifo'[c][i] = fifo[c][i]
      BY <1>3, <1>9, <3>1, AppendElements
    <3>3. Queues[c] \in Seq(Token)
      <4>1. Queues[c] = [i \in 1..Len(fifo[c]) |-> desc[fifo[c][i]].token]
        BY DEF Queues
      <4>2. \A i \in 1..Len(fifo[c]) : desc[fifo[c][i]].token \in Token
        BY <1>5, HeldFacts
      <4> QED BY <1>9, <4>1, <4>2
    <3>4. /\ Append(Queues[c], t) \in Seq(Token)
          /\ Len(Append(Queues[c], t)) = Len(fifo[c]) + 1
          /\ Append(Queues[c], t)[Len(fifo[c]) + 1] = t
          /\ \A i \in 1..Len(fifo[c]) : Append(Queues[c], t)[i] = desc[fifo[c][i]].token
      <4>1. Len(Queues[c]) = Len(fifo[c])
        BY <1>10
      <4>2. /\ Append(Queues[c], t) \in Seq(Token)
            /\ Len(Append(Queues[c], t)) = Len(Queues[c]) + 1
            /\ \A i \in 1..Len(Queues[c]) : Append(Queues[c], t)[i] = Queues[c][i]
            /\ Append(Queues[c], t)[Len(Queues[c]) + 1] = t
        BY <1>3, <3>3, AppendElements
      <4> QED BY <1>10, <4>1, <4>2
    <3>5. \A i \in 1..(Len(fifo[c]) + 1) :
            desc'[fifo'[c][i]].token = Append(Queues[c], t)[i]
      <4>1. \A i \in 1..(Len(fifo[c]) + 1) : i \in 1..Len(fifo[c]) \/ i = Len(fifo[c]) + 1
        BY <1>9
      <4>2. desc'[d].token = t
        BY <1>2, <1>3 DEF t
      <4>3. ASSUME NEW i \in 1..Len(fifo[c])
            PROVE  desc'[fifo'[c][i]].token = Append(Queues[c], t)[i]
        <5>1. fifo'[c][i] = fifo[c][i] /\ fifo[c][i] \in Desc
          BY <1>5, <3>2
        <5> QED BY <1>2, <3>4, <5>1
      <4>4. desc'[fifo'[c][Len(fifo[c]) + 1]].token = Append(Queues[c], t)[Len(fifo[c]) + 1]
        BY <3>2, <3>4, <4>2
      <4> QED BY <4>1, <4>3, <4>4
    <3>6. Append(Queues[c], t) = [i \in 1..(Len(fifo[c]) + 1) |-> Append(Queues[c], t)[i]]
      BY <3>4
    <3> QED BY <3>2, <3>5, <3>6
  <2>3. \A e \in Chans : Queues'[e] = IF e = c THEN Append(Queues[c], t) ELSE Queues[e]
    BY <2>1, <2>2 DEF Queues
  <2> QED BY <2>3 DEF Queues
<1>14. Held' = Held
  <2>1. ctx' = ctx
    BY <1>1
  <2> QED BY <1>2, <1>5, <2>1 DEF Held
<1> QED BY <1>3, <1>8, <1>10, <1>11, <1>12, <1>13, <1>14 DEF d, t

\* A context unlinks the head of a list: the queue takes its token back.
LEMMA TakeBackMaps ==
  ASSUME TokenInv, NEW x \in Contexts, NEW c \in Chans, Reclaims(x, c)
  PROVE  /\ Queues[c] # <<>>
         /\ Queues' = [Queues EXCEPT ![c] = Tail(@)]
         /\ Held' = Held \cup {Head(Queues[c])}
<1> DEFINE d == fifo[c][1]
<1>1. /\ ListShapeOf(c) /\ fifo[c] \in Seq(Desc) /\ Len(fifo[c]) \in Nat
      /\ chan[c].head # NULL
  BY ListFacts DEF TokenInv, Reclaims
<1>2. Len(fifo[c]) > 0 /\ chan[c].head = d
  BY <1>1 DEF ListShapeOf
<1>3. /\ fifo' = [fifo EXCEPT ![c] = Tail(@)] /\ desc' = desc
      /\ \E r : ctx' = [ctx EXCEPT ![x].pc = "free", ![x].cur = d, ![x].ret = r]
      /\ ctx[x].pc \in {"poll", "drain", "clean"}
  BY <1>2 DEF Reclaims, Unlink
<1>4. /\ ctx[x].cur = NULL /\ ctx'[x].cur = d /\ ctx'[x].tok = ctx[x].tok
      /\ \A y \in Contexts \ {x} : ctx'[y] = ctx[y]
  <2>1. ctx \in [Contexts -> CtxRecord] /\ ctx[x] \in CtxRecord /\ Holds(ctx[x])
    BY DEF TokenInv, IInv, TypeOK, CtxInv
  <2> QED BY <1>3, <2>1 DEF CtxRecord, Holds
<1>5. \A i \in 1..Len(fifo[c]) : fifo[c][i] \in Desc \ pool
  BY HeldFacts
<1>6. Queues[c] \in Seq(Token) /\ Len(Queues[c]) = Len(fifo[c])
      /\ \A i \in 1..Len(fifo[c]) : Queues[c][i] = desc[fifo[c][i]].token
  <2>1. Queues[c] = [i \in 1..Len(fifo[c]) |-> desc[fifo[c][i]].token]
    BY DEF Queues
  <2>2. \A i \in 1..Len(fifo[c]) : desc[fifo[c][i]].token \in Token
    BY <1>5, HeldFacts
  <2> QED BY <1>1, <2>1, <2>2
<1>7. Queues[c] # <<>> /\ Head(Queues[c]) = desc[d].token
  BY <1>1, <1>2, <1>6
<1> HIDE DEF d
<1>8. Queues' = [Queues EXCEPT ![c] = Tail(@)]
  <2>1. \A e \in Chans : fifo'[e] = IF e = c THEN Tail(fifo[c]) ELSE fifo[e]
    BY <1>3 DEF TokenInv, IInv, TypeOK
  <2>2. [i \in 1..Len(Tail(fifo[c])) |-> desc[Tail(fifo[c])[i]].token] = Tail(Queues[c])
    <3>1. /\ Len(Tail(fifo[c])) = Len(fifo[c]) - 1
          /\ \A i \in 1..(Len(fifo[c]) - 1) : Tail(fifo[c])[i] = fifo[c][i + 1]
      BY <1>1, <1>2, TailElements
    <3>2. /\ Tail(Queues[c]) \in Seq(Token) /\ Len(Tail(Queues[c])) = Len(fifo[c]) - 1
          /\ \A i \in 1..(Len(fifo[c]) - 1) : Tail(Queues[c])[i] = Queues[c][i + 1]
      BY <1>2, <1>6, TailElements
    <3>3. \A i \in 1..(Len(fifo[c]) - 1) : i + 1 \in 1..Len(fifo[c])
      BY <1>1
    <3>4. Tail(Queues[c]) = [i \in 1..(Len(fifo[c]) - 1) |-> Tail(Queues[c])[i]]
      BY <3>2
    <3> QED BY <1>6, <3>1, <3>2, <3>3, <3>4
  <2>3. \A e \in Chans : Queues'[e] = IF e = c THEN Tail(Queues[c]) ELSE Queues[e]
    <3>1. \A e \in Chans : Queues'[e] = [i \in 1..Len(fifo'[e]) |-> desc[fifo'[e][i]].token]
      BY <1>3 DEF Queues
    <3>2. \A e \in Chans : Queues[e] = [i \in 1..Len(fifo[e]) |-> desc[fifo[e][i]].token]
      BY DEF Queues
    <3>3. Queues'[c] = Tail(Queues[c])
      BY <2>1, <2>2, <3>1
    <3>4. ASSUME NEW e \in Chans, e # c PROVE Queues'[e] = Queues[e]
      BY <2>1, <3>1, <3>2, <3>4, ZenonT(40)
    <3> QED BY <3>3, <3>4
  <2> QED BY <2>3 DEF Queues
<1>9. Held' = Held \cup {desc[d].token}
  <2>1. {ctx'[y].tok : y \in Contexts} = {ctx[y].tok : y \in Contexts}
    BY <1>4
  <2>2. d # NULL
    BY <1>2, <1>5, NonNull DEF d
  <2>3. {y \in Contexts : ctx'[y].cur # NULL} = {y \in Contexts : ctx[y].cur # NULL} \cup {x}
    BY <1>4, <2>2
  <2>4. {desc'[ctx'[y].cur].token : y \in {y \in Contexts : ctx'[y].cur # NULL}}
          = {desc[ctx[y].cur].token : y \in {y \in Contexts : ctx[y].cur # NULL}} \cup {desc[d].token}
    <3>1. x \notin {y \in Contexts : ctx[y].cur # NULL}
      BY <1>4
    <3>2. \A y \in {y \in Contexts : ctx[y].cur # NULL} :
            desc'[ctx'[y].cur].token = desc[ctx[y].cur].token
      BY <1>3, <1>4, <3>1
    <3>3. desc'[ctx'[x].cur].token = desc[d].token
      BY <1>3, <1>4
    <3> QED BY <2>3, <3>2, <3>3
  <2> QED BY <2>1, <2>4 DEF Held
<1> QED BY <1>7, <1>8, <1>9

\* A context frees the descriptor, and keeps its token: nothing changes.
LEMMA FreeMaps ==
  ASSUME TokenInv, NEW x \in Contexts, Free(x)
  PROVE  Queues' = Queues /\ Held' = Held
<1> DEFINE d == ctx[x].cur
           t == desc[d].token
<1>1. /\ ctx[x].pc = "free" /\ UNCHANGED <<desc, fifo>>
      /\ ctx' = [ctx EXCEPT ![x].pc = "call", ![x].cur = NULL, ![x].tok = t]
  BY DEF Free
<1>2. /\ ctx'[x].tok = t /\ ctx'[x].cur = NULL /\ ctx[x].tok = NULL
      /\ \A y \in Contexts \ {x} : ctx'[y] = ctx[y]
  BY <1>1 DEF TokenInv, IInv, TypeOK, CtxRecord, TokenTypes
<1>3. d # NULL /\ t # NULL
  BY <1>1, HeldFacts DEF TokenInv, IInv, CtxInv, Holds
<1>4. {y \in Contexts : ctx[y].cur # NULL} = {y \in Contexts : ctx'[y].cur # NULL} \cup {x}
  BY <1>2, <1>3
<1>5. {desc[ctx[y].cur].token : y \in {y \in Contexts : ctx[y].cur # NULL}}
        = {desc'[ctx'[y].cur].token : y \in {y \in Contexts : ctx'[y].cur # NULL}} \cup {t}
  <2> HIDE DEF t
  <2>1. x \notin {y \in Contexts : ctx'[y].cur # NULL}
    BY <1>2
  <2>2. \A y \in {y \in Contexts : ctx'[y].cur # NULL} :
          desc'[ctx'[y].cur].token = desc[ctx[y].cur].token
    BY <1>1, <1>2, <2>1
  <2>3. desc[ctx[x].cur].token = t
    BY DEF t
  <2> QED BY <1>4, <2>2, <2>3
<1>6. {ctx'[y].tok : y \in Contexts} \ {NULL} = ({ctx[y].tok : y \in Contexts} \ {NULL}) \cup {t}
  BY <1>2, <1>3
<1>7. Held' = Held
  BY <1>5, <1>6 DEF Held
<1> QED BY <1>1, <1>7 DEF Queues

\* The handler is called: the queue returns the token.
LEMMA ReturnMaps ==
  ASSUME TokenInv, NEW x \in Contexts, Call(x)
  PROVE  LET t == ctx[x].tok IN
         /\ t \in Token /\ t \in Held /\ Held' = Held \ {t} /\ Queues' = Queues
<1> DEFINE t == ctx[x].tok
<1>1. ctx[x].pc = "call" /\ UNCHANGED <<desc, fifo>>
  BY DEF Call
<1>2. /\ ctx'[x].tok = NULL /\ ctx'[x].cur = ctx[x].cur /\ t # NULL /\ t \in Token
      /\ \A y \in Contexts \ {x} : ctx'[y] = ctx[y]
  <2>1. ctx \in [Contexts -> CtxRecord] /\ ctx[x] \in CtxRecord
    BY DEF TokenInv, IInv, TypeOK
  <2> QED BY <1>1, <2>1 DEF Call, CtxRecord, TokenInv, TokenTypes
<1>3. /\ \A e \in Desc \ pool : desc[e].token # t
      /\ \A y \in Contexts \ {x} : ctx[y].tok # t
  BY <1>2 DEF TokenInv, TokensConserved
<1>4. \A y \in Contexts : ctx[y].cur # NULL => desc[ctx[y].cur].token # t
  BY <1>3, HeldFacts
<1>5. t \in Held
  BY <1>2 DEF Held
<1> HIDE DEF t
<1>6. {ctx'[y].tok : y \in Contexts} \ {NULL} = ({ctx[y].tok : y \in Contexts} \ {NULL}) \ {t}
  BY <1>2, <1>3 DEF t
<1>7. \A y \in Contexts : ctx'[y].cur = ctx[y].cur
  BY <1>2
<1>8. Held' = Held \ {t}
  <2>1. {desc'[ctx'[y].cur].token : y \in {y \in Contexts : ctx'[y].cur # NULL}}
          = {desc[ctx[y].cur].token : y \in {y \in Contexts : ctx[y].cur # NULL}}
    BY <1>1, <1>7
  <2>2. t \notin {desc[ctx[y].cur].token : y \in {y \in Contexts : ctx[y].cur # NULL}}
    BY <1>4
  <2> QED BY <1>6, <2>1, <2>2 DEF Held
<1> QED BY <1>1, <1>2, <1>5, <1>8 DEF Queues, t
-----------------------------------------------------------------------------
(* The channels implement the abstract queue.                              *)

\* Every step of the driver is a step of DmaQueue or changes nothing of it.
LEMMA StepMaps ==
  TokenInv /\ [Next]_vars => [Queue!Next]_<<Accepted, Returning>>
<1> SUFFICES ASSUME TokenInv, [Next]_vars
             PROVE  Queue!Next \/ UNCHANGED <<Accepted, Returning>>
  OBVIOUS
<1>1. IInv /\ IInv'
  BY NextIInv DEF TokenInv
<1>2. Accepted = Queues /\ Returning = Held
  BY <1>1, AcceptedIsQueues, ReturningIsHeld
<1>3. Accepted' = Queues' /\ Returning' = Held'
  <2>1. (IInv => Accepted = Queues /\ Returning = Held)'
    BY AcceptedIsQueues, ReturningIsHeld, PTL
  <2> QED BY <1>1, <2>1
<1>4. ASSUME Queues' = Queues /\ Held' = Held PROVE UNCHANGED <<Accepted, Returning>>
  BY <1>2, <1>3, <1>4
<1>5. CASE Quiet
  BY <1>4, <1>5, StutterMaps DEF Quiet, TokenFrame
<1>6. ASSUME NEW c \in Chans, Allocate(c) \/ MapFails(c) PROVE UNCHANGED <<Accepted, Returning>>
  <2>1. UNCHANGED <<fifo, ctx>> /\ \A d \in Desc \ pool : desc'[d].token = desc[d].token
    BY <1>1, <1>6 DEF Allocate, MapFails, IInv, TypeOK
  <2> QED BY <1>4, <2>1, StutterMaps
<1>7. ASSUME NEW c \in Chans, SubmitFirst(c) \/ Chain(c) PROVE Queue!Next
  <2> DEFINE t == desc[chan[c].new].token
  <2>1. t \in Token /\ Queue!Accept(c, t)
    BY <1>2, <1>3, <1>7, AcceptMaps DEF Queue!Accept, Queue!held
  <2> QED BY <2>1 DEF Queue!Next
<1>8. ASSUME NEW x \in Contexts, Free(x) PROVE UNCHANGED <<Accepted, Returning>>
  BY <1>4, <1>8, FreeMaps
<1>9. ASSUME NEW x \in Contexts, Call(x) PROVE Queue!Next
  <2> DEFINE t == ctx[x].tok
  <2>1. t \in Token /\ Queue!Return(t)
    BY <1>2, <1>3, <1>9, ReturnMaps DEF Queue!Return
  <2> QED BY <2>1 DEF Queue!Next
<1>10. ASSUME NEW x \in Contexts, NEW c \in Chans, Reclaims(x, c) PROVE Queue!Next
  <2>1. Queue!TakeBack(c)
    BY <1>2, <1>3, <1>10, TakeBackMaps DEF Queue!TakeBack
  <2> QED BY <2>1 DEF Queue!Next
<1> QED BY <1>1, <1>5, <1>6, <1>7, <1>8, <1>9, <1>10, NextCases

\* The linked lists, the shared descriptor pool and the concurrent contexts implement the
\* abstract queue: tokens are taken back in the order they were accepted, within the quota,
\* and each is returned once.
THEOREM ChannelsImplementQueue == Spec => ImplementsQueue
<1>1. Init => Queue!Init
  BY InitMaps
<1>2. TokenInv /\ [Next]_vars => [Queue!Next]_<<Accepted, Returning>>
  BY StepMaps
<1> QED BY <1>1, <1>2, TokenInvariance, PTL DEF Spec, ImplementsQueue, Queue!Spec
-----------------------------------------------------------------------------
(* Steps and the contexts' roles.                                          *)

\* What a context is after it has gone elsewhere.
LEMMA GotoFacts ==
  ASSUME TypeOK, NEW x \in Contexts, NEW p, Goto(x, p)
  PROVE  /\ \A y \in Contexts \ {x} : ctx'[y] = ctx[y]
         /\ ctx'[x].pc = p /\ ctx'[x].ret = ctx[x].ret
         /\ ctx'[x].ch = ctx[x].ch /\ ctx'[x].todo = ctx[x].todo
<1>1. ctx \in [Contexts -> CtxRecord] /\ ctx[x] \in CtxRecord
  BY DEF TypeOK
<1> QED BY <1>1 DEF Goto, CtxRecord

\* And after it has begun to walk over channels.
LEMMA GotoLoopFacts ==
  ASSUME TypeOK, NEW x \in Contexts, NEW p, NEW C, GotoLoop(x, p, C)
  PROVE  /\ \A y \in Contexts \ {x} : ctx'[y] = ctx[y]
         /\ ctx'[x].pc = p /\ ctx'[x].ret = ctx[x].ret
         /\ ctx'[x].ch = NULL /\ ctx'[x].todo = C
<1>1. ctx \in [Contexts -> CtxRecord] /\ ctx[x] \in CtxRecord
  BY DEF TypeOK
<1> QED BY <1>1 DEF GotoLoop, CtxRecord

\* Context x does for channel c what it did.
KeepsFor(x, c) ==
  /\ Stopping(x, c) => Stopping(x, c)'
  /\ TurnsOn(x, c) => TurnsOn(x, c)'
  /\ Unmasks(x, c) => Unmasks(x, c)'
  /\ x = Rtnl /\ ctlrState = "TEARDOWN" /\ c \in ctx[x].todo => c \in ctx'[x].todo

\* A step of context x that keeps the controller's state, and touches no channel but c.
LEMMA OneContext ==
  ASSUME RestoreInv, NEW x \in Contexts, NEW C \in SUBSET Chans,
         \A y \in Contexts \ {x} : ctx'[y] = ctx[y],
         ctlrState' = ctlrState,
         RoleOf(x)', Phase',
         \A e \in Chans \ C : /\ chan'[e].state = chan[e].state
                              /\ chan'[e].inten = chan[e].inten
                              /\ x \in Pollers \/ KeepsFor(x, e),
         \A c \in C : Restored(c)'
  PROVE  Roles' /\ Phase' /\ Restorer'
<1>1. Roles'
  BY DEF RestoreInv, Roles, RoleOf, Pc
<1>2. ASSUME NEW e \in Chans \ C PROVE Restored(e)'
  <2>1. \A y \in Contexts \ Pollers :
          /\ Stopping(y, e) => Stopping(y, e)'
          /\ TurnsOn(y, e) => TurnsOn(y, e)'
          /\ Unmasks(y, e) => Unmasks(y, e)'
    <3>1. ASSUME NEW y \in Contexts \ {x}
          PROVE  /\ Stopping(y, e) => Stopping(y, e)'
                 /\ TurnsOn(y, e) => TurnsOn(y, e)'
                 /\ Unmasks(y, e) => Unmasks(y, e)'
      BY <3>1 DEF Stopping, TurnsOn, Unmasks, Pc
    <3> QED BY <1>2, <3>1 DEF KeepsFor
  <2>2. Rtnl \in Contexts \ Pollers
    BY ConstantsAssumption DEF Contexts
  <2>3. ctlrState = "TEARDOWN" /\ e \in ctx[Rtnl].todo => e \in ctx'[Rtnl].todo
    BY <1>2, <2>2 DEF KeepsFor
  <2>4. Restored(e)
    BY DEF RestoreInv, Restorer
  <2> QED BY <1>2, <2>1, <2>2, <2>3, <2>4 DEF Restored
<1> QED BY <1>1, <1>2 DEF Restorer

\* One that touches no channel.
LEMMA NoChannel ==
  ASSUME RestoreInv, NEW x \in Contexts,
         \A y \in Contexts \ {x} : ctx'[y] = ctx[y],
         ctlrState' = ctlrState,
         RoleOf(x)', Phase',
         \A e \in Chans : /\ chan'[e].state = chan[e].state
                          /\ chan'[e].inten = chan[e].inten
                          /\ x \in Pollers \/ KeepsFor(x, e)
  PROVE  Roles' /\ Phase' /\ Restorer'
<1> DEFINE C == {}
<1>1. C \in SUBSET Chans /\ \A c \in C : Restored(c)'
  OBVIOUS
<1>2. \A e \in Chans \ C : /\ chan'[e].state = chan[e].state
                           /\ chan'[e].inten = chan[e].inten
                           /\ x \in Pollers \/ KeepsFor(x, e)
  OBVIOUS
<1> HIDE DEF C
<1> QED BY <1>1, <1>2, OneContext

\* One that touches channel c.
LEMMA OneChannel ==
  ASSUME RestoreInv, NEW x \in Contexts, NEW c \in Chans,
         \A y \in Contexts \ {x} : ctx'[y] = ctx[y],
         ctlrState' = ctlrState,
         RoleOf(x)', Phase',
         \A e \in Chans \ {c} : chan'[e] = chan[e] /\ KeepsFor(x, e),
         Restored(c)'
  PROVE  Roles' /\ Phase' /\ Restorer'
<1> DEFINE C == {c}
<1>1. C \in SUBSET Chans /\ \A d \in C : Restored(d)'
  OBVIOUS
<1>2. \A e \in Chans \ C : /\ chan'[e].state = chan[e].state
                           /\ chan'[e].inten = chan[e].inten
                           /\ x \in Pollers \/ KeepsFor(x, e)
  OBVIOUS
<1> HIDE DEF C
<1> QED BY <1>1, <1>2, OneContext

\* Steps that no context takes.
LEMMA NoContext ==
  ASSUME RestoreInv, UNCHANGED <<ctx, ctlrState>>,
         \A e \in Chans : chan'[e].state = chan[e].state /\ chan'[e].inten = chan[e].inten
  PROVE  Roles' /\ Phase' /\ Restorer'
<1>1. Roles' /\ Phase'
  BY DEF RestoreInv, Roles, RoleOf, Phase, Pc
<1>2. ASSUME NEW e \in Chans PROVE Restored(e)'
  BY DEF RestoreInv, Restorer, Restored, Stopping, TurnsOn, Unmasks, Pc
<1> QED BY <1>1, <1>2 DEF Restorer

\* Submissions and the hardware turn no channel on or off.
LEMMA QuietChannels ==
  ASSUME RestoreInv, NEW c \in Chans,
         Allocate(c) \/ MapFails(c) \/ SubmitFirst(c) \/ Chain(c) \/ FinishChain(c)
         \/ HwFetch(c) \/ HwComplete(c) \/ HwTeardown(c)
  PROVE  Roles' /\ Phase' /\ Restorer'
<1>1. UNCHANGED <<ctx, ctlrState>>
  BY DEF Allocate, MapFails, SubmitFirst, Chain, FinishChain, HwFetch, HwComplete, HwTeardown, HwStep
<1>2. chan \in [Chans -> ChanRecord] /\ chan[c] \in ChanRecord
  BY DEF RestoreInv, IInv, TypeOK
<1>3. \A e \in Chans : chan'[e].state = chan[e].state /\ chan'[e].inten = chan[e].inten
  <2>1. CASE Allocate(c)
    <3>1. PICK d \in pool : chan' = [chan EXCEPT ![c].sub = "alloc", ![c].new = d]
      BY <2>1 DEF Allocate
    <3> QED BY <1>2, <3>1 DEF ChanRecord
  <2>2. CASE MapFails(c) \/ Chain(c)
    BY <1>2, <2>2 DEF MapFails, Chain, ChanRecord
  <2>3. CASE SubmitFirst(c)
    BY <1>2, <2>3 DEF SubmitFirst, ChanRecord
  <2>4. CASE FinishChain(c)
    BY <1>2, <2>4 DEF FinishChain, ChanRecord
  <2>5. CASE HwFetch(c) \/ HwComplete(c) \/ HwTeardown(c)
    BY <2>5 DEF HwFetch, HwComplete, HwTeardown, HwStep
  <2> QED BY <2>1, <2>2, <2>3, <2>4, <2>5
<1> QED BY <1>1, <1>3, NoContext

\* What Phase says depends only on these.
LEMMA SamePhase ==
  ASSUME RestoreInv, NEW x \in Contexts, ctlrState' = ctlrState,
         \A y \in Contexts \ {x} : ctx'[y] = ctx[y],
         \/ x \in Pollers
         \/ x = Rtnl /\ Pc(x) \in {"tdwait", "drain", "clean", "free", "call", "ctlrstop"}
                     /\ Pc(x)' \in {"ctlrstop", "tdwait", "drain", "clean", "free", "call"}
         \/ x \in Watchdogs /\ Pc(x) # "idle"
  PROVE  Phase'
<1>1. /\ Watchdogs \subseteq Contexts /\ Rtnl \in Contexts
      /\ Rtnl \notin Pollers \cup Watchdogs /\ Pollers \cap Watchdogs = {}
  BY ConstantsAssumption DEF Contexts
<1>2. CASE x \in Pollers
  BY <1>1, <1>2 DEF RestoreInv, Phase, Pc
<1>3. CASE x = Rtnl /\ Pc(x) \in {"tdwait", "drain", "clean", "free", "call", "ctlrstop"}
                    /\ Pc(x)' \in {"ctlrstop", "tdwait", "drain", "clean", "free", "call"}
  BY <1>1, <1>3 DEF RestoreInv, Phase, Pc, IInv, TypeOK, States
<1>4. CASE x \in Watchdogs /\ Pc(x) # "idle"
  BY <1>1, <1>4 DEF RestoreInv, Phase, Pc
<1> QED BY <1>2, <1>3, <1>4

\* A poll turns no channel on or off.
LEMMA PollRestored ==
  ASSUME RestoreInv, NEW x \in Contexts, NEW c \in Chans,
         PollStart(x, c) \/ PollEnd(x) \/ PollProcess(x)
  PROVE  Roles' /\ Phase' /\ Restorer'
<1>1. /\ ctx \in [Contexts -> CtxRecord] /\ ctx[x] \in CtxRecord /\ RoleOf(x)
      /\ chan \in [Chans -> ChanRecord] /\ \A e \in Chans : chan[e] \in ChanRecord
  BY DEF RestoreInv, IInv, TypeOK, Roles
<1>2. x \in Pollers /\ ctlrState' = ctlrState
  <2>1. CASE PollStart(x, c)
    BY <2>1, ConstantsAssumption DEF PollStart, LocalStep
  <2>2. CASE PollEnd(x) \/ PollProcess(x)
    BY <1>1, <2>2 DEF PollEnd, PollProcess, RoleOf, Pc, LocalStep, Process
  <2> QED BY <2>1, <2>2
<1>3. /\ \A y \in Contexts \ {x} : ctx'[y] = ctx[y]
      /\ RoleOf(x)'
      /\ \A e \in Chans : chan'[e].state = chan[e].state /\ chan'[e].inten = chan[e].inten
  <2>1. CASE PollStart(x, c)
    BY <1>1, <1>2, <2>1 DEF PollStart, LocalStep, CtxRecord, RoleOf, Pc
  <2>2. CASE PollEnd(x)
    BY <1>1, <1>2, <2>2 DEF PollEnd, LocalStep, CtxRecord, RoleOf, Pc
  <2>3. CASE PollProcess(x)
    <3>1. PICK r \in {"poll", "idle"} : Unlink(x, ctx[x].ch, r)
      BY <2>3 DEF PollProcess, Process
    <3>2. ctx[x].ch \in Chans
      BY <2>3 DEF PollProcess, RestoreInv, IInv, CtxInv, Holds
    <3>3. \A y \in Contexts \ {x} : ctx'[y] = ctx[y]
      BY <1>1, <3>1 DEF Unlink
    <3>4. ctx'[x].pc = "free" /\ ctx'[x].ret = r
      BY <1>1, <3>1 DEF Unlink, CtxRecord
    <3>5. \A e \in Chans : chan'[e].state = chan[e].state /\ chan'[e].inten = chan[e].inten
      BY <1>1, <3>1, <3>2 DEF Unlink, ChanRecord
    <3> QED BY <1>2, <3>3, <3>4, <3>5 DEF RoleOf, Pc
  <2> QED BY <2>1, <2>2, <2>3
<1>4. Phase'
  BY <1>2, <1>3, SamePhase
<1> QED BY <1>2, <1>3, <1>4, NoChannel

\* A context that stops a channel goes on doing so.
LEMMA Within ==
  ASSUME RestoreInv, NEW x \in Contexts \ Pollers,
         \A y \in Contexts \ {x} : ctx'[y] = ctx[y],
         ctx'[x].ch = ctx[x].ch, ctx'[x].todo = ctx[x].todo,
         Pc(x) \in {"tdwait", "drain", "clean", "free", "call"},
         \/ Pc(x)' \in {"drain", "clean"} /\ ctx'[x].ret = "idle"
         \/ Pc(x)' \in {"free", "call"} /\ ctx'[x].ret \in {"drain", "clean"},
         ctlrState' = ctlrState,
         \A e \in Chans : chan'[e].state = chan[e].state /\ chan'[e].inten = chan[e].inten
  PROVE  Roles' /\ Phase' /\ Restorer'
<1>1. x \in Watchdogs \cup {Rtnl} /\ Rtnl \notin Watchdogs
  BY ConstantsAssumption DEF Contexts
<1>2. RoleOf(x)'
  BY DEF RoleOf, Pc
<1>3. Phase'
  BY <1>1, SamePhase DEF Pc
<1>4. \A e \in Chans : KeepsFor(x, e)
  BY DEF KeepsFor, Stopping, TurnsOn, Unmasks, Pc
<1> QED BY <1>2, <1>3, <1>4, NoChannel

\* What a teardown does between its begin and its end leaves the channel to it.
LEMMA WithinRestored ==
  ASSUME RestoreInv, NEW x \in Contexts,
         StopAck(x) \/ DrainEnd(x) \/ DrainProcess(x) \/ CleanUp(x) \/ Free(x) \/ Call(x)
  PROVE  Roles' /\ Phase' /\ Restorer'
<1>1. /\ ctx \in [Contexts -> CtxRecord] /\ ctx[x] \in CtxRecord /\ RoleOf(x) /\ TypeOK
      /\ chan \in [Chans -> ChanRecord] /\ \A e \in Chans : chan[e] \in ChanRecord
  BY DEF RestoreInv, IInv, TypeOK, Roles
<1>2. CASE StopAck(x) \/ DrainEnd(x)
  <2>1. \E p \in {"drain", "clean"} : Goto(x, p)
    BY <1>2 DEF StopAck, DrainEnd
  <2>2. Pc(x) \in {"tdwait", "drain"} /\ UNCHANGED <<chan, ctlrState>>
    BY <1>2 DEF StopAck, DrainEnd, LocalStep, Pc
  <2>3. x \notin Pollers /\ ctx[x].ret = "idle"
    BY <1>1, <2>2 DEF RoleOf
  <2>4. /\ \A y \in Contexts \ {x} : ctx'[y] = ctx[y]
        /\ Pc(x)' \in {"drain", "clean"} /\ ctx'[x].ret = "idle"
        /\ ctx'[x].ch = ctx[x].ch /\ ctx'[x].todo = ctx[x].todo
    BY <1>1, <2>1, <2>3, GotoFacts DEF Pc
  <2> QED BY <2>2, <2>3, <2>4, Within
<1>3. CASE DrainProcess(x) \/ CleanUp(x)
  <2>1. ctx[x].ch \in Chans /\ Pc(x) \in {"drain", "clean"}
    BY <1>3 DEF DrainProcess, CleanUp, RestoreInv, IInv, CtxInv, Holds, Pc
  <2>2. PICK r \in {"drain", "clean"} : Unlink(x, ctx[x].ch, r)
    BY <1>3 DEF DrainProcess, CleanUp, Process
  <2>3. ctlrState' = ctlrState /\ x \notin Pollers
    BY <1>1, <1>3, <2>1 DEF DrainProcess, CleanUp, Process, RoleOf
  <2>4. \A e \in Chans : chan'[e].state = chan[e].state /\ chan'[e].inten = chan[e].inten
    BY <1>1, <2>1, <2>2 DEF Unlink, ChanRecord
  <2>5. /\ \A y \in Contexts \ {x} : ctx'[y] = ctx[y]
        /\ Pc(x)' = "free" /\ ctx'[x].ret = r
        /\ ctx'[x].ch = ctx[x].ch /\ ctx'[x].todo = ctx[x].todo
    BY <1>1, <2>2 DEF Unlink, CtxRecord, Pc
  <2> QED BY <2>1, <2>3, <2>4, <2>5, Within
<1>4. CASE Free(x) \/ Call(x)
  <2>1. UNCHANGED <<chan, ctlrState>> /\ Pc(x) \in {"free", "call"}
    BY <1>4 DEF Free, Call, Pc
  <2>2. /\ \A y \in Contexts \ {x} : ctx'[y] = ctx[y]
        /\ ctx'[x].todo = ctx[x].todo
        /\ ctx[x].ret # "idle" => ctx'[x].ch = ctx[x].ch
        /\ \/ Pc(x)' = "call" /\ ctx'[x].ret = ctx[x].ret
           \/ Pc(x)' = ctx[x].ret /\ ctx'[x].ret = "idle"
    BY <1>1, <1>4 DEF Free, Call, CtxRecord, Pc
  <2>3. CASE x \in Pollers
    <3>1. RoleOf(x)'
      BY <1>1, <2>2, <2>3 DEF RoleOf, Pc
    <3>2. Phase'
      BY <2>1, <2>2, <2>3, SamePhase
    <3> QED BY <2>1, <2>2, <2>3, <3>1, <3>2, NoChannel
  <2>4. CASE x \notin Pollers
    <3>1. ctx[x].ret \in {"drain", "clean"}
      BY <1>1, <2>1, <2>4 DEF RoleOf, CtxRecord
    <3> QED BY <2>1, <2>2, <2>4, <3>1, Within
  <2> QED BY <2>3, <2>4
<1> QED BY <1>2, <1>3, <1>4
-----------------------------------------------------------------------------
(* Stopping and starting.                                                  *)

\* What cpdma_chan_on makes of the channel and of its interrupt.
LEMMA TurnOnFacts ==
  ASSUME TypeOK, NEW c \in Chans, TurnOn(c)
  PROVE  /\ \A e \in Chans \ {c} : chan'[e] = chan[e]
         /\ IF chan[c].state = "IDLE" /\ ctlrState = "ACTIVE"
            THEN chan'[c].state = "ACTIVE" /\ chan'[c].inten = TRUE
            ELSE chan'[c] = chan[c]
<1>1. chan \in [Chans -> ChanRecord] /\ chan[c] \in ChanRecord
  BY DEF TypeOK
<1> QED BY <1>1 DEF TurnOn, ChanRecord

\* A context is a poller, the rtnl lock or a watchdog, and only one of them.
LEMMA ContextKinds ==
  /\ Watchdogs \subseteq Contexts \ Pollers /\ Rtnl \in Contexts \ Pollers
  /\ Rtnl \notin Watchdogs
  /\ \A x \in Contexts : x \in Pollers \/ x = Rtnl \/ x \in Watchdogs
BY ConstantsAssumption DEF Contexts

\* A teardown begins: whoever stops the channel will start it again.
LEMMA StopBeginRestored ==
  ASSUME RestoreInv, NEW x \in Contexts, NEW c \in Chans, StopBegin(x, c)
  PROVE  Roles' /\ Phase' /\ Restorer'
<1>1. /\ ctx \in [Contexts -> CtxRecord] /\ ctx[x] \in CtxRecord /\ RoleOf(x)
      /\ chan \in [Chans -> ChanRecord] /\ chan[c] \in ChanRecord /\ ctlrState \in States
  BY DEF RestoreInv, IInv, TypeOK, Roles
<1>2. /\ Pc(x) \in {"txloop", "ctlrstop"} /\ ctlrState' = ctlrState
      /\ \A y \in Contexts \ {x} : ctx'[y] = ctx[y]
      /\ Pc(x)' = "tdwait" /\ ctx'[x].ch = c /\ ctx'[x].ret = ctx[x].ret
      /\ ctx'[x].todo = ctx[x].todo \ {c}
      /\ \A e \in Chans \ {c} : chan'[e] = chan[e]
      /\ chan'[c].state = "TEARDOWN"
  BY <1>1 DEF StopBegin, CtxRecord, ChanRecord, Pc
<1>3. /\ x \notin Pollers /\ ctx[x].ret = "idle" /\ RoleOf(x)'
      /\ x = Rtnl => Pc(x) = "ctlrstop"
      /\ x # Rtnl => Pc(x) = "txloop" /\ x \in Watchdogs
  BY <1>1, <1>2, ContextKinds DEF RoleOf, Pc
<1>4. Phase'
  BY <1>2, <1>3, SamePhase
<1>5. \A e \in Chans \ {c} : chan'[e] = chan[e] /\ KeepsFor(x, e)
  BY <1>2, <1>3 DEF KeepsFor, Stopping, TurnsOn, Unmasks, Pc
<1>6. ctlrState # "IDLE" /\ (ctlrState = "TEARDOWN" => x = Rtnl)
  BY <1>2, <1>3 DEF RestoreInv, Phase, Pc
<1>7. Stopping(x, c)'
  BY <1>2 DEF Stopping, Pc
<1>8. Restored(c)'
  BY <1>2, <1>3, <1>6, <1>7 DEF Restored
<1> QED BY <1>2, <1>3, <1>4, <1>5, <1>8, OneChannel

\* A teardown is refused: somebody else stops the channel.
LEMMA StopRefusedRestored ==
  ASSUME RestoreInv, NEW x \in Contexts, NEW c \in Chans, StopRefused(x, c)
  PROVE  Roles' /\ Phase' /\ Restorer'
<1>1. /\ ctx \in [Contexts -> CtxRecord] /\ ctx[x] \in CtxRecord /\ RoleOf(x)
  BY DEF RestoreInv, IInv, TypeOK, Roles
<1>2. /\ Pc(x) = "txloop" /\ UNCHANGED <<ctlrState, chan>>
      /\ \A y \in Contexts \ {x} : ctx'[y] = ctx[y]
      /\ Pc(x)' = "chanon" /\ ctx'[x].ch = c /\ ctx'[x].ret = ctx[x].ret
  BY <1>1 DEF StopRefused, LocalStep, CtxRecord, Pc
<1>3. x \in Watchdogs /\ x # Rtnl /\ ctx[x].ret = "idle" /\ RoleOf(x)'
  BY <1>1, <1>2, ContextKinds DEF RoleOf, Pc
<1>4. Phase'
  BY <1>2, <1>3, SamePhase
<1>5. \A e \in Chans : KeepsFor(x, e)
  BY <1>2, <1>3 DEF KeepsFor, Stopping, TurnsOn, Unmasks, Pc
<1> QED BY <1>2, <1>3, <1>4, <1>5, NoChannel

\* A teardown ends with the channel idle, and its start still to come.
LEMMA StopEndRestored ==
  ASSUME RestoreInv, NEW x \in Contexts, StopEnd(x)
  PROVE  Roles' /\ Phase' /\ Restorer'
<1> DEFINE p == IF x = Rtnl THEN "ctlrstop" ELSE "chanon"
<1>1. PICK c \in Chans : c = ctx[x].ch
  BY DEF StopEnd, RestoreInv, IInv, CtxInv, Holds
<1>2. /\ TypeOK /\ RoleOf(x) /\ ctlrState \in States
      /\ chan \in [Chans -> ChanRecord] /\ Pc(x) = "clean"
      /\ chan[c] \in ChanRecord
  BY DEF StopEnd, RestoreInv, IInv, TypeOK, Roles, Pc
<1>3. /\ Goto(x, p) /\ ctlrState' = ctlrState
      /\ \A e \in Chans \ {c} : chan'[e] = chan[e]
      /\ chan'[c].state = "IDLE"
  BY <1>1, <1>2 DEF StopEnd, ChanRecord
<1>4. /\ \A y \in Contexts \ {x} : ctx'[y] = ctx[y]
      /\ Pc(x)' = p /\ ctx'[x].ret = ctx[x].ret
      /\ ctx'[x].ch = ctx[x].ch /\ ctx'[x].todo = ctx[x].todo
  BY <1>2, <1>3, GotoFacts DEF Pc
<1>5. /\ x \notin Pollers /\ ctx[x].ret = "idle" /\ RoleOf(x)' /\ (x # Rtnl => x \in Watchdogs)
  BY <1>2, <1>4, ContextKinds DEF RoleOf, Pc
<1>6. Phase'
  BY <1>2, <1>3, <1>4, <1>5, SamePhase
<1>7. \A e \in Chans \ {c} : chan'[e] = chan[e] /\ KeepsFor(x, e)
  BY <1>1, <1>2, <1>3, <1>4, <1>5 DEF KeepsFor, Stopping, TurnsOn, Unmasks, Pc
<1>8. ctlrState = "ACTIVE" => x # Rtnl
  BY <1>2 DEF RestoreInv, Phase
<1>9. ctlrState = "ACTIVE" => TurnsOn(x, c)'
  BY <1>1, <1>4, <1>5, <1>8 DEF TurnsOn, Pc
<1>10. Restored(c)'
  <2>1. x \in Contexts \ Pollers
    BY <1>5
  <2> QED BY <1>3, <1>9, <2>1 DEF Restored
<1> QED BY <1>2, <1>3, <1>4, <1>5, <1>6, <1>7, <1>10, OneChannel

\* The channel is started, whoever has made it idle.
LEMMA ChanStartRestored ==
  ASSUME RestoreInv, NEW x \in Contexts, ChanStart(x)
  PROVE  Roles' /\ Phase' /\ Restorer'
<1>1. PICK c \in Chans : c = ctx[x].ch
  BY DEF ChanStart, RestoreInv, IInv, CtxInv, Holds
<1>2. /\ TypeOK /\ RoleOf(x) /\ ctlrState \in States
      /\ Pc(x) = "chanon" /\ Restored(c)
  BY DEF ChanStart, RestoreInv, IInv, TypeOK, Roles, Pc, Restorer
<1>3. /\ Goto(x, "txloop") /\ ctlrState' = ctlrState /\ TurnOn(c)
  BY <1>1 DEF ChanStart
<1>4. /\ \A y \in Contexts \ {x} : ctx'[y] = ctx[y]
      /\ Pc(x)' = "txloop" /\ ctx'[x].ret = ctx[x].ret
      /\ ctx'[x].ch = ctx[x].ch /\ ctx'[x].todo = ctx[x].todo
  BY <1>2, <1>3, GotoFacts DEF Pc
<1>5. /\ x \in Watchdogs /\ x \notin Pollers /\ x # Rtnl /\ ctx[x].ret = "idle" /\ RoleOf(x)'
  BY <1>2, <1>4, ContextKinds DEF RoleOf, Pc
<1>6. Phase'
  BY <1>2, <1>3, <1>4, <1>5, SamePhase
<1>7. /\ \A e \in Chans \ {c} : chan'[e] = chan[e]
      /\ IF chan[c].state = "IDLE" /\ ctlrState = "ACTIVE"
         THEN chan'[c].state = "ACTIVE" /\ chan'[c].inten = TRUE
         ELSE chan'[c] = chan[c]
  BY <1>2, <1>3, TurnOnFacts
<1>8. \A e \in Chans \ {c} : chan'[e] = chan[e] /\ KeepsFor(x, e)
  BY <1>1, <1>2, <1>4, <1>5, <1>7 DEF KeepsFor, Stopping, TurnsOn, Unmasks, Pc
<1>9. Restored(c)'
  <2>1. CASE chan[c].state = "IDLE" /\ ctlrState = "ACTIVE"
    BY <1>3, <1>7, <2>1 DEF Restored
  <2>2. CASE ~(chan[c].state = "IDLE" /\ ctlrState = "ACTIVE")
    <3>1. \A y \in Contexts \ Pollers : /\ Stopping(y, c) => Stopping(y, c)'
                                        /\ Unmasks(y, c) => Unmasks(y, c)'
      BY <1>2, <1>4, <1>5 DEF Stopping, Unmasks, Pc
    <3>2. ctx'[Rtnl].todo = ctx[Rtnl].todo /\ (Stopping(Rtnl, c) => Stopping(Rtnl, c)')
      BY <1>4, <1>5, <3>1, ContextKinds
    <3> QED BY <1>2, <1>3, <1>7, <2>2, <3>1, <3>2 DEF Restored
  <2> QED BY <2>1, <2>2
<1> QED BY <1>2, <1>3, <1>4, <1>5, <1>6, <1>8, <1>9, OneChannel

\* The channel's interrupt is unmasked.
LEMMA ChanIntCtrlRestored ==
  ASSUME RestoreInv, NEW x \in Contexts, NEW c \in Chans, ChanIntCtrl(x, c)
  PROVE  Roles' /\ Phase' /\ Restorer'
<1>1. /\ ctx \in [Contexts -> CtxRecord] /\ ctx[x] \in CtxRecord /\ RoleOf(x) /\ Restored(c)
      /\ chan \in [Chans -> ChanRecord] /\ chan[c] \in ChanRecord /\ ctlrState \in States
  BY DEF RestoreInv, IInv, TypeOK, Roles, Restorer
<1>2. /\ Pc(x) \in {"intoff", "inton"} /\ c \in ctx[x].todo /\ ctlrState' = ctlrState
      /\ \A y \in Contexts \ {x} : ctx'[y] = ctx[y]
      /\ Pc(x)' = Pc(x) /\ ctx'[x].ch = ctx[x].ch /\ ctx'[x].ret = ctx[x].ret
      /\ ctx'[x].todo = ctx[x].todo \ {c}
      /\ \A e \in Chans \ {c} : chan'[e] = chan[e]
      /\ chan'[c].state = chan[c].state
      /\ chan[c].state = "ACTIVE" => chan'[c].inten = (Pc(x) = "inton")
  BY <1>1 DEF ChanIntCtrl, CtxRecord, ChanRecord, Pc
<1>3. x \notin Pollers /\ ctx[x].ret = "idle" /\ RoleOf(x)'
  BY <1>1, <1>2 DEF RoleOf, Pc
<1>4. Phase'
  BY <1>2, ContextKinds DEF RestoreInv, Phase, Pc
<1>5. ctlrState = "TEARDOWN" => x # Rtnl
  BY <1>2 DEF RestoreInv, Phase
<1>6. \A e \in Chans \ {c} : chan'[e] = chan[e] /\ KeepsFor(x, e)
  BY <1>2, <1>3, <1>5 DEF KeepsFor, Stopping, TurnsOn, Unmasks, Pc
<1>7. /\ \A y \in Contexts \ Pollers : /\ Stopping(y, c) => Stopping(y, c)'
                                      /\ TurnsOn(y, c) => TurnsOn(y, c)'
      /\ ctlrState = "TEARDOWN" => ctx'[Rtnl] = ctx[Rtnl] /\ (Stopping(Rtnl, c) => Stopping(Rtnl, c)')
  BY <1>2, <1>3, <1>5, ContextKinds DEF Stopping, TurnsOn, Pc
<1>8. chan'[c].state = "ACTIVE" /\ ~chan'[c].inten => Unmasks(x, c)'
  BY <1>2 DEF Unmasks, Pc
<1>9. Restored(c)'
  <2>1. x \in Contexts \ Pollers /\ Restored(c)
    BY <1>1, <1>3
  <2>2. ctlrState' = ctlrState /\ chan'[c].state = chan[c].state
    BY <1>2
  <2>3. ASSUME chan'[c].state = "TEARDOWN" PROVE \E y \in Contexts \ Pollers : Stopping(y, c)'
    <3>1. PICK y \in Contexts \ Pollers : Stopping(y, c)
      BY <2>1, <2>2, <2>3 DEF Restored
    <3> QED BY <1>2, <1>3, <3>1 DEF Stopping, Pc
  <2>4. ASSUME chan'[c].state = "IDLE" /\ ctlrState' = "ACTIVE" PROVE \E y \in Contexts \ Pollers : TurnsOn(y, c)'
    <3>1. PICK y \in Contexts \ Pollers : TurnsOn(y, c)
      BY <2>1, <2>2, <2>4 DEF Restored
    <3> QED BY <1>2, <1>3, <3>1 DEF TurnsOn, Pc
  <2>5. /\ ctlrState' = "IDLE" => chan'[c].state = "IDLE"
        /\ ctlrState' = "TEARDOWN" =>
             c \in ctx'[Rtnl].todo \/ chan'[c].state = "IDLE" \/ Stopping(Rtnl, c)'
    BY <1>7, <2>1, <2>2 DEF Restored
  <2> QED BY <1>8, <2>1, <2>3, <2>4, <2>5 DEF Restored
<1> QED BY <1>2, <1>3, <1>4, <1>6, <1>9, OneChannel

\* Steps between the channels neither stop nor start one.
LEMMA GotoRestored ==
  ASSUME RestoreInv, NEW x \in Contexts,
         \/ IntOnEnd(x) \/ TxTimeout(x) \/ TxLoop(x) \/ TxLoopEnd(x)
         \/ x = Rtnl /\ (CtlrStartEnd \/ SecondOpen \/ LastStop)
  PROVE  Roles' /\ Phase' /\ Restorer'
<1>1. /\ TypeOK /\ RoleOf(x) /\ Phase /\ ctlrState' = ctlrState /\ chan' = chan
  BY DEF RestoreInv, IInv, Roles, IntOnEnd, TxTimeout, TxLoop, TxLoopEnd,
         CtlrStartEnd, SecondOpen, LastStop, LocalStep
<1>2. CASE IntOnEnd(x)
  <2>1. /\ \A y \in Contexts \ {x} : ctx'[y] = ctx[y]
        /\ Pc(x) = "inton" /\ Pc(x)' = "idle" /\ ctx'[x].ret = ctx[x].ret
        /\ ctx[x].todo = {} /\ ctx'[x].todo = {} /\ ctx'[x].ch = ctx[x].ch
    BY <1>1, <1>2, GotoFacts DEF IntOnEnd, Pc
  <2>2. x \notin Pollers /\ ctx[x].ret = "idle" /\ RoleOf(x)'
    BY <1>1, <2>1 DEF RoleOf, Pc
  <2>3. Phase'
    BY <1>1, <2>1, ContextKinds DEF Phase, Pc
  <2>4. \A e \in Chans : KeepsFor(x, e)
    BY <2>1, <2>2 DEF KeepsFor, Stopping, TurnsOn, Unmasks, Pc
  <2> QED BY <1>1, <2>1, <2>2, <2>3, <2>4, NoChannel
<1>3. CASE TxTimeout(x) \/ TxLoop(x) \/ TxLoopEnd(x)
  <2>1. /\ x \in Watchdogs /\ x # Rtnl /\ x \notin Pollers
    <3>1. x \in Watchdogs
      <4>1. CASE TxTimeout(x)
        BY <4>1 DEF TxTimeout
      <4>2. CASE TxLoop(x)
        BY <4>2 DEF TxLoop
      <4>3. CASE TxLoopEnd(x)
        BY <1>1, <4>3, ContextKinds DEF TxLoopEnd, RoleOf, Pc
      <4> QED BY <1>3, <4>1, <4>2, <4>3
    <3> QED BY <3>1, ContextKinds
  <2>2. PICK p \in {"intoff", "txloop", "inton"}, C \in {Chans, TxChans} :
          GotoLoop(x, p, C) /\ (p = "inton" => C = Chans)
    BY <1>3 DEF TxTimeout, TxLoop, TxLoopEnd
  <2>3. /\ \A y \in Contexts \ {x} : ctx'[y] = ctx[y]
        /\ Pc(x)' = p /\ ctx'[x].ret = ctx[x].ret /\ ctx'[x].todo = C
    BY <1>1, <2>2, GotoLoopFacts DEF Pc
  <2>4. Pc(x) \in {"idle", "intoff", "txloop"}
    BY <1>3 DEF TxTimeout, TxLoop, TxLoopEnd, Pc
  <2>5. ctx[x].ret = "idle" /\ RoleOf(x)'
    BY <1>1, <2>1, <2>3, <2>4 DEF RoleOf, Pc
  <2>6. Phase'
    <3>1. CASE TxTimeout(x)
      BY <1>1, <2>1, <2>3, <3>1, ContextKinds DEF TxTimeout, Phase, Pc
    <3>2. CASE TxLoop(x) \/ TxLoopEnd(x)
      <4>1. Pc(x) # "idle"
        BY <3>2 DEF TxLoop, TxLoopEnd, Pc
      <4> QED BY <1>1, <2>1, <2>3, <4>1, SamePhase
    <3> QED BY <1>3, <3>1, <3>2
  <2>7. \A e \in Chans : KeepsFor(x, e)
    BY <2>1, <2>2, <2>3, <2>4, <2>5 DEF KeepsFor, Stopping, TurnsOn, Unmasks, Pc
  <2> QED BY <1>1, <2>3, <2>5, <2>6, <2>7, NoChannel
<1>4. CASE x = Rtnl /\ (CtlrStartEnd \/ SecondOpen \/ LastStop)
  <2>1. PICK p \in {"intoff", "inton"} : GotoLoop(x, p, Chans)
    BY <1>4 DEF CtlrStartEnd, SecondOpen, LastStop
  <2>2. /\ \A y \in Contexts \ {x} : ctx'[y] = ctx[y]
        /\ Pc(x)' = p /\ ctx'[x].ret = ctx[x].ret /\ ctx'[x].todo = Chans
    BY <1>1, <2>1, GotoLoopFacts DEF Pc
  <2>3. \/ Pc(x) = "idle" /\ ctlrState = "ACTIVE"
        \/ Pc(x) = "ctlron" /\ ctx[x].todo = {}
    BY <1>4 DEF CtlrStartEnd, SecondOpen, LastStop, Pc
  <2>4. x \notin Pollers /\ ctx[x].ret = "idle" /\ RoleOf(x)'
    BY <1>1, <1>4, <2>2, <2>3, ContextKinds DEF RoleOf, Pc
  <2>5. Phase'
    <3>1. p = "intoff" => \A w \in Watchdogs : Pc(w) = "idle"
      <4>1. CASE LastStop
        BY <4>1, ContextKinds DEF LastStop, Pc
      <4>2. CASE CtlrStartEnd \/ SecondOpen
        <5>1. GotoLoop(x, "inton", Chans)
          BY <1>4, <4>2 DEF CtlrStartEnd, SecondOpen
        <5> QED BY <1>1, <2>2, <5>1, GotoLoopFacts DEF Pc
      <4> QED BY <1>4, <4>1, <4>2
    <3>2. ctlrState = "ACTIVE"
      BY <1>1, <1>4, <2>3 DEF Phase, TypeOK, States
    <3> QED BY <1>1, <1>4, <2>2, <3>1, <3>2, ContextKinds DEF Phase, Pc
  <2>6. \A e \in Chans : KeepsFor(x, e)
    BY <1>4, <2>2, <2>3, <2>4 DEF KeepsFor, Stopping, TurnsOn, Unmasks, Pc
  <2> QED BY <1>1, <2>2, <2>4, <2>5, <2>6, NoChannel
<1> QED BY <1>2, <1>3, <1>4

\* The controller turns on the channels that it finds idle.
LEMMA CtlrChanOnRestored ==
  ASSUME RestoreInv, NEW c \in Chans, CtlrChanOn(c)
  PROVE  Roles' /\ Phase' /\ Restorer'
<1> DEFINE x == Rtnl
<1>1. /\ TypeOK /\ x \in Contexts \ Pollers /\ RoleOf(x) /\ ctlrState \in States /\ Phase
      /\ ctx \in [Contexts -> CtxRecord] /\ ctx[x] \in CtxRecord /\ Restored(c)
  BY ContextKinds DEF RestoreInv, IInv, TypeOK, Roles, Restorer
<1>2. /\ Pc(x) = "ctlron" /\ ctlrState' = ctlrState /\ TurnOn(c)
      /\ \A y \in Contexts \ {x} : ctx'[y] = ctx[y]
      /\ Pc(x)' = "ctlron" /\ ctx'[x].ch = ctx[x].ch /\ ctx'[x].ret = ctx[x].ret
      /\ ctx'[x].todo = ctx[x].todo \ {c}
  BY <1>1 DEF CtlrChanOn, CtxRecord, Pc
<1>3. ctlrState = "ACTIVE" /\ ctx[x].ret = "idle" /\ RoleOf(x)'
  BY <1>1, <1>2 DEF Phase, States, RoleOf, Pc
<1>4. Phase'
  BY <1>1, <1>2, ContextKinds DEF Phase, Pc
<1>5. /\ \A e \in Chans \ {c} : chan'[e] = chan[e]
      /\ IF chan[c].state = "IDLE"
         THEN chan'[c].state = "ACTIVE" /\ chan'[c].inten = TRUE
         ELSE chan'[c] = chan[c]
  BY <1>1, <1>2, <1>3, TurnOnFacts
<1>6. \A e \in Chans \ {c} : chan'[e] = chan[e] /\ KeepsFor(x, e)
  BY <1>2, <1>3, <1>5, ContextKinds DEF KeepsFor, Stopping, TurnsOn, Unmasks, Pc
<1>7. \A y \in Contexts \ Pollers : /\ Stopping(y, c) => Stopping(y, c)'
                                    /\ Unmasks(y, c) => Unmasks(y, c)'
  BY <1>2, <1>3 DEF Stopping, Unmasks, Pc
<1>8. Restored(c)'
  <2>1. CASE chan[c].state = "IDLE"
    BY <1>2, <1>3, <1>5, <2>1 DEF Restored
  <2>2. CASE chan[c].state # "IDLE"
    BY <1>1, <1>2, <1>3, <1>5, <1>7, <2>2 DEF Restored
  <2> QED BY <2>1, <2>2
<1> HIDE DEF x
<1> QED BY <1>1, <1>2, <1>3, <1>4, <1>6, <1>8, OneChannel

\* The controller goes on or off with no timeout in between.
LEMMA CtlrStepsRestored ==
  ASSUME RestoreInv, CtlrStart \/ CtlrStop \/ CtlrStopEnd
  PROVE  Roles' /\ Phase' /\ Restorer'
<1>1. /\ TypeOK /\ Rtnl \in Contexts \ Pollers /\ RoleOf(Rtnl) /\ ctlrState \in States /\ Phase
      /\ chan \in [Chans -> ChanRecord] /\ \A e \in Chans : chan[e] \in ChanRecord /\ Restored(e)
  BY ContextKinds DEF RestoreInv, IInv, TypeOK, Roles, Restorer
<1>2. /\ \A y \in Contexts \ {Rtnl} : ctx'[y] = ctx[y]
      /\ ctx'[Rtnl].ret = ctx[Rtnl].ret /\ ctx'[Rtnl].ch = NULL
      /\ CtlrStart => Pc(Rtnl)' = "ctlron" /\ ctx'[Rtnl].todo = Chans
      /\ CtlrStop => Pc(Rtnl)' = "ctlrstop" /\ ctx'[Rtnl].todo = Chans
      /\ CtlrStopEnd => Pc(Rtnl)' = "idle" /\ ctx'[Rtnl].todo = {}
  BY <1>1, GotoLoopFacts DEF CtlrStart, CtlrStop, CtlrStopEnd, Pc
<1>3. Pc(Rtnl) \in {"idle", "intoff", "ctlrstop"} /\ ctx[Rtnl].ret = "idle"
  BY <1>1 DEF CtlrStart, CtlrStop, CtlrStopEnd, RoleOf, Pc
<1>4. Roles'
  <2>1. RoleOf(Rtnl)'
    BY <1>1, <1>2, <1>3 DEF RoleOf, Pc
  <2>2. ASSUME NEW y \in Contexts \ {Rtnl} PROVE RoleOf(y)'
    BY <1>2, <2>2 DEF RestoreInv, Roles, RoleOf, Pc
  <2> QED BY <2>1, <2>2 DEF Roles
<1>5. \A e \in Chans : chan'[e].state = chan[e].state
  BY <1>1 DEF CtlrStart, CtlrStop, CtlrStopEnd, ChanRecord
<1>6. \A w \in Watchdogs : Pc(w) = "idle" /\ Pc(w)' = "idle"
  <2>1. \A w \in Watchdogs : Pc(w) = "idle"
    BY <1>1 DEF CtlrStart, CtlrStop, CtlrStopEnd, Phase, Pc
  <2> QED BY <1>2, <2>1, ContextKinds DEF Pc
<1>7. CASE CtlrStart
  <2>1. ctlrState = "IDLE" /\ ctlrState' = "ACTIVE" /\ Pc(Rtnl)' = "ctlron"
    BY <1>2, <1>7 DEF CtlrStart
  <2>2. Phase'
    BY <1>6, <2>1 DEF Phase, Pc
  <2>3. ASSUME NEW e \in Chans PROVE Restored(e)'
    <3>1. chan'[e].state = "IDLE"
      BY <1>1, <1>5, <2>1 DEF Restored
    <3>2. TurnsOn(Rtnl, e)'
      BY <1>2, <1>7 DEF TurnsOn, Pc
    <3> QED BY <1>1, <2>1, <3>1, <3>2 DEF Restored
  <2> QED BY <1>4, <2>2, <2>3 DEF Restorer
<1>8. CASE CtlrStop
  <2>1. ctlrState' = "TEARDOWN" /\ Pc(Rtnl)' = "ctlrstop" /\ Pc(Rtnl) = "intoff"
    BY <1>2, <1>8 DEF CtlrStop, Pc
  <2>2. Phase'
    BY <1>6, <2>1 DEF Phase, Pc
  <2>3. ASSUME NEW e \in Chans PROVE Restored(e)'
    <3>1. ASSUME chan'[e].state = "TEARDOWN" PROVE \E y \in Contexts \ Pollers : Stopping(y, e)'
      <4>1. PICK y \in Contexts \ Pollers : Stopping(y, e)
        BY <1>1, <1>5, <3>1 DEF Restored
      <4>2. y # Rtnl
        BY <1>3, <2>1, <4>1 DEF Stopping
      <4> QED BY <1>2, <4>1, <4>2 DEF Stopping, Pc
    <3>2. e \in ctx'[Rtnl].todo
      BY <1>2, <1>8
    <3> QED BY <2>1, <3>1, <3>2 DEF Restored
  <2> QED BY <1>4, <2>2, <2>3 DEF Restorer
<1>9. CASE CtlrStopEnd
  <2>1. /\ ctlrState' = "IDLE" /\ Pc(Rtnl)' = "idle" /\ Pc(Rtnl) = "ctlrstop"
        /\ ctx[Rtnl].todo = {}
    BY <1>2, <1>9 DEF CtlrStopEnd, Pc
  <2>2. Phase'
    BY <1>6, <2>1 DEF Phase, Pc
  <2>3. ctlrState = "TEARDOWN"
    BY <1>1, <2>1 DEF Phase, States
  <2>4. ASSUME NEW e \in Chans PROVE Restored(e)'
    <3>1. chan[e].state = "IDLE"
      <4>1. ~Stopping(Rtnl, e)
        BY <1>3, <2>1 DEF Stopping
      <4> QED BY <1>1, <2>1, <2>3, <4>1 DEF Restored
    <3> QED BY <1>5, <2>1, <3>1 DEF Restored
  <2> QED BY <1>4, <2>2, <2>4 DEF Restorer
<1> QED BY <1>7, <1>8, <1>9
-----------------------------------------------------------------------------
(* After every timeout, every channel is on.                               *)

\* Nothing is on at first, and nobody at work.
LEMMA InitRestoreInv == ASSUME Init PROVE RestoreInv
<1>1. \A x \in Contexts : ctx[x].pc = "idle" /\ ctx[x].ret = "idle"
  BY DEF Init
<1>2. Roles /\ Phase
  BY <1>1, ContextKinds DEF Init, Roles, RoleOf, Phase, Pc
<1>3. Restorer
  BY DEF Init, Restorer, Restored
<1> QED BY <1>2, <1>3, InitIInv DEF RestoreInv

\* Every step keeps who is to restore a channel.
LEMMA NextRestoreInv == ASSUME RestoreInv, [Next]_vars PROVE RestoreInv'
<1> DEFINE Goal == Roles' /\ Phase' /\ Restorer'
<1>1. IInv'
  BY NextIInv DEF RestoreInv
<1> SUFFICES Goal
  BY <1>1 DEF RestoreInv
<1>2. CASE UNCHANGED vars
  BY <1>2, NoContext DEF vars
<1>3. ASSUME NEW c \in Chans,
             Submit(c) \/ IdleSubmit(c) \/ SubmitSteps(c) \/ HwTransfer(c) \/ HwTeardown(c)
      PROVE  Goal
  BY <1>3, QuietChannels DEF Submit, IdleSubmit, SubmitSteps, HwTransfer
<1>4. ASSUME NEW x \in Contexts, PollSteps(x) PROVE Goal
  <2>1. CASE PollProcess(x) \/ PollEnd(x)
    <3>1. ctx[x].ch \in Chans
      BY <2>1 DEF PollProcess, PollEnd, RestoreInv, IInv, CtxInv, Holds
    <3> QED BY <2>1, <3>1, PollRestored
  <2>2. CASE Free(x) \/ Call(x)
    BY <2>2, WithinRestored
  <2> QED BY <1>4, <2>1, <2>2 DEF PollSteps
<1>5. ASSUME NEW x \in Contexts, IntCtrlSteps(x) PROVE Goal
  BY <1>5, ChanIntCtrlRestored, GotoRestored DEF IntCtrlSteps
<1>6. ASSUME NEW x \in Contexts, StopSteps(x) PROVE Goal
  <2>1. CASE \E c \in Chans : StopBegin(x, c) \/ StopRefused(x, c)
    BY <2>1, StopBeginRestored, StopRefusedRestored
  <2>2. CASE StopAck(x) \/ DrainProcess(x) \/ DrainEnd(x) \/ CleanUp(x)
    BY <2>2, WithinRestored
  <2>3. CASE StopEnd(x) \/ ChanStart(x)
    BY <2>3, StopEndRestored, ChanStartRestored
  <2>4. CASE TxLoop(x) \/ TxLoopEnd(x)
    BY <2>4, GotoRestored
  <2> QED BY <1>6, <2>1, <2>2, <2>3, <2>4 DEF StopSteps
<1>7. ASSUME NEW x \in Pollers, NEW c \in Chans, PollStart(x, c) PROVE Goal
  <2>1. x \in Contexts
    BY DEF Contexts
  <2> QED BY <1>7, <2>1, PollRestored
<1>8. ASSUME NEW w \in Watchdogs, TxTimeout(w) PROVE Goal
  <2>1. w \in Contexts
    BY DEF Contexts
  <2> QED BY <1>8, <2>1, GotoRestored
<1>9. CASE CtlrStart \/ CtlrStopSteps
  BY <1>9, CtlrStepsRestored DEF CtlrStopSteps
<1>10. CASE CtlrStartEnd \/ SecondOpen \/ LastStop
  <2>1. Rtnl \in Contexts
    BY DEF Contexts
  <2> QED BY <1>10, <2>1, GotoRestored
<1>11. CASE \E c \in Chans : CtlrChanOn(c)
  BY <1>11, CtlrChanOnRestored
<1> QED BY <1>2, <1>3, <1>4, <1>5, <1>6, <1>7, <1>8, <1>9, <1>10, <1>11
        DEF Next, TrafficNext, StopNext, OpenSteps

\* In every reachable state each stopped channel has the one who restores it.
THEOREM RestoreInvariance == Spec => []RestoreInv
<1>1. Init => RestoreInv
  BY InitRestoreInv
<1>2. RestoreInv /\ [Next]_vars => RestoreInv'
  BY NextRestoreInv
<1> QED BY <1>1, <1>2, PTL DEF Spec

\* Once no watchdog and no open or stop is in progress on a running controller, every
\* channel is active with its interrupt enabled, however the timeouts of several netdevs
\* interleaved.
THEOREM TimeoutsRestoreChannels == Spec => []ChannelsRestored
<1>1. RestoreInv => ChannelsRestored
  <2> SUFFICES ASSUME RestoreInv, ctlrState = "ACTIVE",
                      \A x \in Contexts \ Pollers : ctx[x].pc = "idle",
                      NEW c \in Chans
               PROVE  chan[c].state = "ACTIVE" /\ chan[c].inten
    BY DEF ChannelsRestored
  <2>1. \A x \in Contexts \ Pollers : ctx[x].ret = "idle"
    BY DEF RestoreInv, Roles, RoleOf, Pc
  <2>2. \A x \in Contexts \ Pollers : ~Stopping(x, c) /\ ~TurnsOn(x, c) /\ ~Unmasks(x, c)
    BY <2>1 DEF Stopping, TurnsOn, Unmasks, Pc
  <2>3. Restored(c) /\ chan[c] \in ChanRecord
    BY DEF RestoreInv, Restorer, IInv, TypeOK
  <2>4. chan[c].state = "ACTIVE"
    BY <2>2, <2>3 DEF Restored, ChanRecord, States
  <2> QED BY <2>2, <2>3, <2>4 DEF Restored
<1> QED BY <1>1, RestoreInvariance, PTL
-----------------------------------------------------------------------------
(* The DMA follows the lists.                                              *)

\* A list and its DMA that a step leaves as they are.
SameLinks(c) ==
  /\ fifo'[c] = fifo[c] /\ hw'[c] = hw[c]
  /\ chan'[c].state = chan[c].state /\ Linking(c)' = Linking(c)
  /\ \A i \in 1..Len(fifo[c]) : /\ desc'[fifo[c][i]].mode = desc[fifo[c][i]].mode
                                /\ desc'[fifo[c][i]].next = desc[fifo[c][i]].next

\* The position of the DMA in a list when neither of them changes.
LEMMA SameAt ==
  ASSUME IInv, NEW c \in Chans, NEW k \in Nat, AtPosition(c, k), SameLinks(c)
  PROVE  AtPosition(c, k)'
<1>1. Len(fifo[c]) \in Nat
  BY ListFacts
<1>2. \A i \in 1..Len(fifo[c]) : ModeAt(c, i)' = ModeAt(c, i)
  BY DEF ModeAt, SameLinks
<1>3. hw[c].hdp # NULL => desc'[hw[c].hdp].next = desc[hw[c].hdp].next
  <2>1. ASSUME hw[c].hdp # NULL PROVE k \in 1..Len(fifo[c]) /\ hw[c].hdp = fifo[c][k]
    BY <1>1, <2>1 DEF AtPosition
  <2> QED BY <2>1 DEF SameLinks
<1> QED BY <1>1, <1>2, <1>3 DEF AtPosition, SameLinks

\* A channel that a step leaves as it is.
SameChannel(c) ==
  /\ fifo'[c] = fifo[c] /\ hw'[c] = hw[c]
  /\ chan'[c].state = chan[c].state /\ chan'[c].sub = chan[c].sub /\ chan'[c].new = chan[c].new
  /\ \A d \in Attached(c) : desc'[d].mode = desc[d].mode /\ desc'[d].next = desc[d].next

\* A channel that a step leaves as it is keeps its position.
LEMMA SameFollows ==
  ASSUME TrafficInv, NEW c \in Chans, SameChannel(c), ctlrState' \in {ctlrState, "ACTIVE"}
  PROVE  Follows(c)'
<1>1. PICK k \in 1..(Len(fifo[c]) + 1) : AtPosition(c, k)
  BY DEF TrafficInv, Follows
<1>2. Len(fifo[c]) \in Nat /\ k \in Nat
  BY ListFacts DEF TrafficInv
<1>3. SameLinks(c)
  BY DEF SameChannel, SameLinks, Linking, Attached, Elements
<1>4. AtPosition(c, k)'
  BY <1>1, <1>2, <1>3, SameAt DEF TrafficInv
<1>5. chan[c].sub = "alloc" => desc'[chan[c].new].mode = desc[chan[c].new].mode
  BY DEF SameChannel, Attached, Building
<1> QED BY <1>1, <1>4, <1>5 DEF TrafficInv, Follows, SameChannel

\* The other channels' descriptors are not those of channel c.
LEMMA Apart ==
  ASSUME IInv, NEW c \in Chans, NEW e \in Chans \ {c}, NEW d \in Attached(c)
  PROVE  d \notin Attached(e) /\ d \notin pool
BY DEF IInv, ListInv, DescConserved

\* What the invariant says of one channel.
LEMMA AtFacts ==
  ASSUME TrafficInv, NEW c \in Chans
  PROVE  /\ \E k \in 1..(Len(fifo[c]) + 1) : AtPosition(c, k)
         /\ fifo[c] \in Seq(Desc) /\ Len(fifo[c]) \in Nat
         /\ \A i \in 1..Len(fifo[c]) : fifo[c][i] \in Desc /\ fifo[c][i] \in Attached(c)
         /\ \A i, j \in 1..Len(fifo[c]) : fifo[c][i] = fifo[c][j] => i = j
         /\ ListShapeOf(c)
         /\ ~Locked(c) => Linking(c) = 0
         /\ chan[c].sub = "alloc" =>
              /\ chan[c].new \in Desc /\ chan[c].new \in Attached(c)
              /\ \A i \in 1..Len(fifo[c]) : fifo[c][i] # chan[c].new
         /\ chan \in [Chans -> ChanRecord] /\ chan[c] \in ChanRecord
         /\ hw \in [Chans -> HwRecord] /\ hw[c] \in HwRecord
         /\ desc \in [Desc -> DescRecord] /\ \A d \in Desc : desc[d] \in DescRecord
         /\ fifo \in [Chans -> Seq(Desc)]
<1>1. IInv
  BY DEF TrafficInv
<1>2. /\ fifo[c] \in Seq(Desc) /\ Len(fifo[c]) \in Nat
      /\ \A i \in 1..Len(fifo[c]) : fifo[c][i] \in Desc /\ fifo[c][i] \in Elements(fifo[c])
      /\ ListShapeOf(c) /\ Distinct(fifo[c])
      /\ ~Locked(c) => Linking(c) = 0
  BY <1>1, ListFacts
<1>3. \A i \in 1..Len(fifo[c]) : fifo[c][i] \in Attached(c)
  BY <1>2 DEF Attached
<1>4. \A i, j \in 1..Len(fifo[c]) : fifo[c][i] = fifo[c][j] => i = j
  BY <1>2 DEF Distinct
<1>5. chan[c].sub = "alloc" =>
        /\ chan[c].new \in Desc /\ chan[c].new \in Attached(c)
        /\ \A i \in 1..Len(fifo[c]) : fifo[c][i] # chan[c].new
  <2>1. Building(c) \cap Elements(fifo[c]) = {}
    BY <1>1 DEF IInv, ListInv, DescConserved
  <2> QED BY <1>1, <1>2, <2>1 DEF IInv, ListInv, SubInv, Building, Attached
<1> QED BY <1>1, <1>2, <1>3, <1>4, <1>5 DEF TrafficInv, Follows, IInv, TypeOK

\* So does one whose list and registers do not change.
LEMMA LinksFollow ==
  ASSUME TrafficInv, NEW c \in Chans, SameLinks(c), ctlrState' = ctlrState,
         chan'[c].sub = "alloc" => desc'[chan'[c].new].mode = {"OWNER"}
  PROVE  Follows(c)'
<1>1. PICK k \in 1..(Len(fifo[c]) + 1) : AtPosition(c, k)
  BY DEF TrafficInv, Follows
<1>2. Len(fifo[c]) \in Nat /\ k \in Nat
  BY AtFacts
<1>3. AtPosition(c, k)'
  BY <1>1, <1>2, SameAt DEF TrafficInv
<1> QED BY <1>1, <1>3 DEF TrafficInv, Follows, SameLinks

\* A descriptor is allocated, or freed again: no list sees it.
LEMMA AllocateFollows ==
  ASSUME TrafficInv, NEW c \in Chans, Allocate(c) \/ MapFails(c)
  PROVE  \A e \in Chans : Follows(e)'
<1>1. ctlrState' = ctlrState /\ fifo' = fifo /\ hw' = hw
  BY DEF Allocate, MapFails
<1>2. /\ chan \in [Chans -> ChanRecord] /\ chan[c] \in ChanRecord
      /\ desc \in [Desc -> DescRecord] /\ pool \subseteq Desc
  BY DEF TrafficInv, IInv, TypeOK
<1>3. CASE Allocate(c)
  <2>1. PICK d \in pool, t \in Token \ out :
          /\ desc' = [desc EXCEPT ![d] = [next |-> NULL, mode |-> {"OWNER"}, token |-> t]]
          /\ chan' = [chan EXCEPT ![c].sub = "alloc", ![c].new = d]
    BY <1>3 DEF Allocate
  <2>2. ASSUME NEW e \in Chans PROVE d \notin Attached(e)
    BY DEF TrafficInv, IInv, ListInv, DescConserved
  <2>3. \A f \in Desc \ {d} : desc'[f] = desc[f]
    BY <1>2, <2>1
  <2>4. ASSUME NEW e \in Chans PROVE \A f \in Attached(e) : f \in Desc \ {d}
    <3>1. \A f \in Attached(e) : f \in Desc
      BY AtFacts DEF Attached, Building, Elements
    <3> QED BY <2>2, <3>1
  <2>5. ASSUME NEW e \in Chans \ {c} PROVE Follows(e)'
    <3>1. chan'[e] = chan[e]
      BY <1>2, <2>1
    <3>2. SameChannel(e)
      BY <1>1, <2>3, <2>4, <3>1 DEF SameChannel
    <3> QED BY <1>1, <3>2, SameFollows
  <2>6. Follows(c)'
    <3>1. /\ chan'[c].state = chan[c].state /\ chan'[c].sub = "alloc" /\ chan'[c].new = d
          /\ chan[c].sub = "none"
      BY <1>2, <1>3, <2>1 DEF Allocate, Locked, ChanRecord
    <3>2. SameLinks(c)
      BY <1>1, <2>3, <2>4, <3>1, AtFacts DEF SameLinks, Linking
    <3>3. desc'[d].mode = {"OWNER"}
      BY <1>2, <2>1
    <3> QED BY <1>1, <3>1, <3>2, <3>3, LinksFollow
  <2> QED BY <2>5, <2>6
<1>4. CASE MapFails(c)
  <2>1. chan' = [chan EXCEPT ![c].sub = "none", ![c].new = NULL] /\ desc' = desc /\ chan[c].sub = "alloc"
    BY <1>4 DEF MapFails
  <2>2. ASSUME NEW e \in Chans \ {c} PROVE Follows(e)'
    <3>1. SameChannel(e)
      BY <1>1, <1>2, <2>1 DEF SameChannel
    <3> QED BY <1>1, <3>1, SameFollows
  <2>3. Follows(c)'
    <3>1. chan'[c].state = chan[c].state /\ chan'[c].sub = "none"
      BY <1>2, <2>1 DEF ChanRecord
    <3>2. SameLinks(c)
      BY <1>1, <2>1, <3>1 DEF SameLinks, Linking
    <3> QED BY <1>1, <3>1, <3>2, LinksFollow
  <2> QED BY <2>2, <2>3
<1> QED BY <1>3, <1>4

\* The first descriptor: an active channel's DMA starts on it.
LEMMA SubmitFirstFollows ==
  ASSUME TrafficInv, NEW c \in Chans, SubmitFirst(c)
  PROVE  \A e \in Chans : Follows(e)'
<1>1. PICK d \in Desc : d = chan[c].new
  BY AtFacts DEF SubmitFirst
<1>2. PICK k \in 1..(Len(fifo[c]) + 1) : AtPosition(c, k)
  BY AtFacts
<1>3. /\ ctlrState' = ctlrState /\ desc' = desc /\ chan[c].sub = "alloc" /\ chan[c].head = NULL
      /\ fifo' = [fifo EXCEPT ![c] = Append(@, d)]
      /\ desc[d].mode = {"OWNER"}
  BY <1>1 DEF SubmitFirst, ListEmpty, TrafficInv, Follows
<1>4. \A e \in Chans \ {c} : Follows(e)'
  <2>1. ASSUME NEW e \in Chans \ {c} PROVE SameChannel(e)
    BY <1>3, AtFacts DEF SubmitFirst, SameChannel
  <2> QED BY <1>3, <2>1, SameFollows
<1>5. Len(fifo[c]) = 0 /\ Linking(c) = 0 /\ fifo[c] \in Seq(Desc) /\ d # NULL
  <2>1. ListShapeOf(c) /\ fifo[c] \in Seq(Desc) /\ Len(fifo[c]) \in Nat
        /\ (Len(fifo[c]) > 0 => fifo[c][1] \in Desc)
    BY AtFacts
  <2>2. Len(fifo[c]) = 0
    BY <1>3, <2>1, NonNull DEF ListShapeOf
  <2> QED BY <1>1, <1>3, <2>1, <2>2, NonNull DEF Linking
<1>6. k = 1 /\ hw[c].hdp = NULL /\ hw[c].latch = Unread
      /\ (chan[c].state = "ACTIVE" /\ c \in RxChans => hw[c].rxfree = 0)
      /\ (chan[c].state # "ACTIVE" => hw[c] = HwReset)
  BY <1>2, <1>5 DEF AtPosition, HwReset
<1>7. /\ Len(fifo'[c]) = 1 /\ fifo'[c][1] = d
  <2>1. fifo'[c] = Append(fifo[c], d)
    BY <1>3, AtFacts
  <2> QED BY <1>1, <1>5, <2>1
<1>8. /\ chan'[c].state = chan[c].state /\ chan'[c].sub = "none" /\ Linking(c)' = 0
  <2>1. chan'[c].state = chan[c].state /\ chan'[c].sub = "none"
    BY AtFacts DEF SubmitFirst, ChanRecord
  <2> QED BY <2>1 DEF Linking
<1>9. CASE chan[c].state = "ACTIVE"
  <2>1. /\ hw'[c].hdp = d /\ hw'[c].latch = Unread
        /\ c \in RxChans => hw'[c].rxfree = 1
    BY <1>1, <1>6, <1>9, AtFacts DEF SubmitFirst, StartedOn, HwRecord, Credit
  <2>2. AtPosition(c, 1)'
    BY <1>3, <1>5, <1>7, <1>8, <1>9, <2>1 DEF AtPosition, ModeAt
  <2>3. ctlrState = "IDLE" => chan[c].state = "IDLE"
    BY DEF TrafficInv, Follows
  <2> QED BY <1>3, <1>4, <1>7, <1>8, <1>9, <2>2, <2>3 DEF Follows
<1>10. CASE chan[c].state # "ACTIVE"
  <2>1. hw'[c] = HwReset
    BY <1>6, <1>10, AtFacts DEF SubmitFirst, HwReset, Credit
  <2>2. AtPosition(c, 1)'
    BY <1>3, <1>5, <1>7, <1>8, <1>10, <2>1 DEF AtPosition, ModeAt, HwReset
  <2>3. chan[c].state \in {"IDLE", "ACTIVE"} /\ (ctlrState = "IDLE" => chan[c].state = "IDLE")
    BY DEF TrafficInv, Follows
  <2> QED BY <1>3, <1>4, <1>7, <1>8, <2>2, <2>3 DEF Follows
<1> QED BY <1>9, <1>10

\* A descriptor is chained at the tail, whether or not the DMA has got there.
LEMMA ChainFollows ==
  ASSUME TrafficInv, NEW c \in Chans, Chain(c)
  PROVE  \A e \in Chans : Follows(e)'
<1>1. PICK d \in Desc : d = chan[c].new
  BY AtFacts DEF Chain
<1>2. PICK k \in 1..(Len(fifo[c]) + 1) : AtPosition(c, k)
  BY AtFacts
<1>3. PICK n \in Nat : n = Len(fifo[c])
  BY AtFacts
<1>4. PICK p \in Desc : p = chan[c].tail /\ n > 0 /\ p = fifo[c][n] /\ desc[p].next = NULL
  <2>1. /\ ListShapeOf(c) /\ chan[c].head # NULL /\ chan[c].sub = "alloc"
        /\ \A i \in 1..n : fifo[c][i] \in Desc
    BY <1>3, AtFacts DEF Chain, ListEmpty
  <2>2. n > 0 /\ chan[c].tail = fifo[c][n] /\ desc[fifo[c][n]].next = NULL
    BY <1>3, <2>1 DEF ListShapeOf, Linking
  <2> QED BY <2>1, <2>2
<1>5. /\ ctlrState' = ctlrState /\ hw' = hw /\ chan[c].sub = "alloc"
      /\ fifo' = [fifo EXCEPT ![c] = Append(@, d)]
      /\ desc' = [desc EXCEPT ![p].next = d]
      /\ desc[d].mode = {"OWNER"}
  BY <1>1, <1>4 DEF Chain, TrafficInv, Follows
<1>6. /\ \A f \in Desc : desc'[f].mode = desc[f].mode
      /\ \A f \in Desc \ {p} : desc'[f].next = desc[f].next
  BY <1>5, AtFacts DEF DescRecord
<1>7. \A e \in Chans \ {c} : Follows(e)'
  <2>1. p \in Attached(c)
    BY <1>3, <1>4, AtFacts
  <2>2. ASSUME NEW e \in Chans \ {c} PROVE SameChannel(e)
    <3>1. \A f \in Attached(e) : f \in Desc \ {p}
      <4>1. \A f \in Attached(e) : f \in Desc
        BY AtFacts DEF Attached, Building, Elements
      <4>2. p \notin Attached(e)
        BY <2>1, Apart DEF TrafficInv
      <4> QED BY <4>1, <4>2
    <3>2. chan'[e] = chan[e] /\ fifo'[e] = fifo[e]
      BY <1>5, AtFacts DEF Chain
    <3> QED BY <1>5, <1>6, <3>1, <3>2 DEF SameChannel
  <2> QED BY <1>5, <2>2, SameFollows
<1>8. chan'[c].state = chan[c].state /\ chan'[c].sub = "chained" /\ Linking(c)' = 1 /\ Linking(c) = 0
  <2>1. chan'[c].state = chan[c].state /\ chan'[c].sub = "chained"
    BY AtFacts DEF Chain, ChanRecord
  <2> QED BY <1>5, <2>1 DEF Linking
<1>9. /\ Len(fifo'[c]) = n + 1 /\ fifo'[c][n + 1] = d
      /\ \A i \in 1..n : fifo'[c][i] = fifo[c][i] /\ fifo[c][i] \in Desc
  <2>1. fifo'[c] = Append(fifo[c], d) /\ fifo[c] \in Seq(Desc)
    BY <1>5, AtFacts
  <2> QED BY <1>3, <2>1, AppendElements, AtFacts
<1>10. \A i \in 1..n : ModeAt(c, i)' = ModeAt(c, i)
  BY <1>6, <1>9 DEF ModeAt
<1>11. ModeAt(c, n + 1)' = {"OWNER"}
  BY <1>5, <1>6, <1>9 DEF ModeAt
<1>12. hw[c].hdp # NULL =>
         /\ k <= n /\ hw[c].hdp = fifo'[c][k]
         /\ hw[c].latch \in {Unread, NULL, desc'[hw[c].hdp].next}
  <2>1. ASSUME hw[c].hdp # NULL
        PROVE  /\ k \in 1..n /\ hw[c].hdp = fifo[c][k]
               /\ hw[c].latch \in {Unread, NULL, desc[hw[c].hdp].next}
    BY <1>2, <1>3, <2>1 DEF AtPosition
  <2>2. ASSUME hw[c].hdp # NULL PROVE hw[c].latch \in {Unread, NULL, desc'[hw[c].hdp].next}
    <3>1. CASE hw[c].hdp = p
      BY <1>4, <2>1, <2>2, <3>1
    <3>2. CASE hw[c].hdp # p
      BY <1>6, <1>9, <2>1, <2>2, <3>2
    <3> QED BY <3>1, <3>2
  <2> QED BY <1>9, <2>1, <2>2
<1>13. AtPosition(c, k)'
  <2>1. k \in 1..(n + 2)
    BY <1>2, <1>3
  <2>2. \A i \in k..(n + 1) : ModeAt(c, i)' = {"OWNER"}
    <3>1. \A i \in k..n : ModeAt(c, i) = {"OWNER"}
      BY <1>2, <1>3 DEF AtPosition
    <3> QED BY <1>2, <1>3, <1>10, <1>11, <3>1, SMTT(30)
  <2>3. \A i \in 1..(k - 1) : ModeAt(c, i)' = IF i = k - 1 /\ hw[c].hdp = NULL THEN {"EOQ"} ELSE {}
    <3>1. \A i \in 1..(k - 1) : i \in 1..n
      BY <1>2, <1>3
    <3> QED BY <1>2, <1>10, <3>1 DEF AtPosition
  <2>4. IF chan[c].state = "ACTIVE"
        THEN /\ hw[c].hdp = NULL /\ k <= n + 1 => k > 1
             /\ c \in RxChans => hw[c].rxfree = (n + 1) + 1 - k - 1
        ELSE k = 1 /\ hw[c] = HwReset
    BY <1>2, <1>3, <1>4, <1>8 DEF AtPosition
  <2>5. hw[c].hdp = NULL => hw[c].latch = Unread
    BY <1>2 DEF AtPosition
  <2> QED BY <1>3, <1>5, <1>8, <1>9, <1>12, <2>1, <2>2, <2>3, <2>4, <2>5 DEF AtPosition
<1>14. chan[c].state \in {"IDLE", "ACTIVE"} /\ (ctlrState = "IDLE" => chan[c].state = "IDLE")
  BY DEF TrafficInv, Follows
<1>15. Follows(c)'
  <2>1. k \in 1..(Len(fifo'[c]) + 1)
    BY <1>2, <1>3, <1>9
  <2> QED BY <1>5, <1>8, <1>13, <1>14, <2>1 DEF Follows
<1> QED BY <1>7, <1>15

\* The end of the submission: if the DMA stopped short of the new descriptor, it goes on.
LEMMA FinishChainFollows ==
  ASSUME TrafficInv, NEW c \in Chans, FinishChain(c)
  PROVE  \A e \in Chans : Follows(e)'
<1>1. PICK k \in 1..(Len(fifo[c]) + 1) : AtPosition(c, k)
  BY AtFacts
<1>2. PICK n \in Nat : n = Len(fifo[c])
  BY AtFacts
<1>3. PICK d \in Desc, p \in Desc :
        /\ n > 1 /\ d = chan[c].new /\ d = fifo[c][n] /\ p = chan[c].tail /\ p = fifo[c][n - 1]
  <2>1. chan[c].sub = "chained" /\ ListShapeOf(c) /\ \A i \in 1..n : fifo[c][i] \in Desc
    BY <1>2, AtFacts DEF FinishChain
  <2>2. n > 1 /\ chan[c].new = fifo[c][n] /\ chan[c].tail = fifo[c][n - 1]
    BY <1>2, <2>1 DEF ListShapeOf, Linking
  <2>3. n \in 1..n /\ n - 1 \in 1..n
    BY <2>2
  <2> QED BY <2>1, <2>2, <2>3
<1>4. /\ ctlrState' = ctlrState /\ fifo' = fifo /\ chan[c].sub = "chained"
      /\ \A e \in Chans \ {c} : chan'[e] = chan[e] /\ hw'[e] = hw[e]
  BY AtFacts DEF FinishChain
<1>5. /\ chan'[c].state = chan[c].state /\ chan'[c].sub = "none" /\ Linking(c)' = 0 /\ Linking(c) = 1
  <2>1. chan'[c].state = chan[c].state /\ chan'[c].sub = "none"
    BY AtFacts DEF FinishChain, ChanRecord
  <2> QED BY <1>4, <2>1 DEF Linking
<1>6. \A f \in Desc \ {p} : desc'[f] = desc[f]
  BY <1>3, AtFacts DEF FinishChain
<1>7. \A e \in Chans \ {c} : Follows(e)'
  <2>1. p \in Attached(c)
    <3>1. n - 1 \in 1..n
      BY <1>3
    <3> QED BY <1>2, <1>3, <3>1, AtFacts
  <2>2. ASSUME NEW e \in Chans \ {c} PROVE SameChannel(e)
    <3>1. \A f \in Attached(e) : f \in Desc \ {p}
      <4>1. \A f \in Attached(e) : f \in Desc
        BY AtFacts DEF Attached, Building, Elements
      <4>2. p \notin Attached(e)
        BY <2>1, Apart DEF TrafficInv
      <4> QED BY <4>1, <4>2
    <3> QED BY <1>4, <1>6, <3>1 DEF SameChannel
  <2> QED BY <1>4, <2>2, SameFollows
<1>8. /\ \A i \in 1..n : fifo[c][i] \in Desc
      /\ \A i, j \in 1..n : fifo[c][i] = fifo[c][j] => i = j
      /\ hw[c] \in HwRecord /\ desc[p] \in DescRecord /\ n \in 1..n /\ n - 1 \in 1..n
  BY <1>2, <1>3, AtFacts
<1>9. \A i \in 1..n : i # n - 1 => ModeAt(c, i)' = ModeAt(c, i)
  BY <1>3, <1>4, <1>6, <1>8 DEF ModeAt
<1>10. chan[c].state \in {"IDLE", "ACTIVE"} /\ (ctlrState = "IDLE" => chan[c].state = "IDLE")
  BY DEF TrafficInv, Follows
<1>11. /\ \A i \in k..n : ModeAt(c, i) = {"OWNER"}
       /\ \A i \in 1..(k - 1) :
            ModeAt(c, i) = IF i = k - 1 /\ hw[c].hdp = NULL THEN {"EOQ"} ELSE {}
       /\ k \in 1..(n + 1)
  BY <1>1, <1>2 DEF AtPosition
<1>12. ASSUME AtPosition(c, k)' PROVE Follows(c)'
  BY <1>1, <1>4, <1>5, <1>10, <1>12 DEF Follows
<1>13. CASE Misqueued(c, p)
  <2>1. ModeAt(c, n - 1) = desc[p].mode /\ "EOQ" \in desc[p].mode /\ chan[c].state = "ACTIVE"
    BY <1>3, <1>13 DEF Misqueued, ModeAt
  <2>2. n - 1 = k - 1 /\ hw[c].hdp = NULL /\ desc[p].mode = {"EOQ"}
    <3>1. n - 1 \notin k..n
      BY <1>11, <2>1
    <3>2. n - 1 \in 1..(k - 1)
      BY <1>8, <1>11, <3>1
    <3> QED BY <1>11, <2>1, <3>2
  <2>3. /\ desc'[p].mode = {} /\ desc'[p].next = desc[p].next
        /\ hw'[c].hdp = d /\ hw'[c].latch = Unread
        /\ c \in RxChans => hw'[c].rxfree = hw[c].rxfree + 1
    <3>1. desc' = [desc EXCEPT ![p].mode = @ \ {"EOQ"}]
      BY <1>3, <1>13 DEF FinishChain
    <3>2. hw'[c] = StartedOn([hw[c] EXCEPT !.rxfree = @ + Credit(c)], d)
      BY <1>3, <1>13, AtFacts DEF FinishChain
    <3>3. desc'[p].mode = {} /\ desc'[p].next = desc[p].next
      BY <1>3, <1>8, <2>2, <3>1, AtFacts DEF DescRecord
    <3> QED BY <1>8, <2>1, <3>2, <3>3 DEF StartedOn, HwRecord, Credit
  <2>4. ModeAt(c, n - 1)' = {}
    BY <1>3, <1>4, <2>3 DEF ModeAt
  <2>5. \A i \in 1..(k - 1) : ModeAt(c, i)' = {}
    BY <1>8, <1>9, <1>11, <2>2, <2>4
  <2>6. \A i \in k..n : ModeAt(c, i)' = {"OWNER"}
    BY <1>8, <1>9, <1>11, <2>2
  <2>7. c \in RxChans => hw'[c].rxfree = n + 1 - k
    <3>1. c \in RxChans => hw[c].rxfree = n + 1 - k - 1
      BY <1>1, <1>2, <1>5, <2>1 DEF AtPosition
    <3> QED BY <1>11, <2>3, <3>1
  <2>8. hw'[c].hdp = fifo'[c][k] /\ k <= n /\ d # NULL
    BY <1>3, <1>4, <2>2, <2>3, NonNull
  <2>9. AtPosition(c, k)'
    BY <1>2, <1>4, <1>5, <1>11, <2>1, <2>3, <2>5, <2>6, <2>7, <2>8 DEF AtPosition
  <2> QED BY <1>7, <1>11, <1>12, <2>9
<1>14. CASE ~Misqueued(c, p)
  <2>1. desc' = desc /\ hw'[c] = [hw[c] EXCEPT !.rxfree = @ + Credit(c)]
    BY <1>3, <1>14, AtFacts DEF FinishChain
  <2>2. /\ hw'[c].hdp = hw[c].hdp /\ hw'[c].latch = hw[c].latch
        /\ c \in RxChans /\ chan[c].state = "ACTIVE" => hw'[c].rxfree = hw[c].rxfree + 1
        /\ chan[c].state # "ACTIVE" => hw'[c] = hw[c]
    BY <1>8, <2>1 DEF HwRecord, Credit
  <2>3. \A i \in 1..n : ModeAt(c, i)' = ModeAt(c, i)
    BY <1>4, <2>1 DEF ModeAt
  <2>4. AtPosition(c, k)'
    BY <1>1, <1>2, <1>4, <1>5, <1>11, <2>1, <2>2, <2>3, SMTT(30) DEF AtPosition
  <2> QED BY <1>7, <1>11, <1>12, <2>4
<1> QED BY <1>13, <1>14

\* The head is unlinked: if the DMA stopped on it, it goes on with the rest.
LEMMA ProcessFollows ==
  ASSUME TrafficInv, NEW x \in Contexts, NEW c \in Chans, NEW r, Process(x, c, r)
  PROVE  \A e \in Chans : Follows(e)'
<1>1. PICK k \in 1..(Len(fifo[c]) + 1) : AtPosition(c, k)
  BY AtFacts
<1>2. PICK n \in Nat : n = Len(fifo[c])
  BY AtFacts
<1>3. /\ ctlrState' = ctlrState /\ desc' = desc /\ HeadCompleted(c) /\ Linking(c) = 0 /\ ~Locked(c)
      /\ fifo' = [fifo EXCEPT ![c] = Tail(@)]
      /\ \A e \in Chans \ {c} : chan'[e] = chan[e] /\ hw'[e] = hw[e]
  BY AtFacts DEF Process, Unlink
<1>4. /\ n > 0 /\ chan[c].head = fifo[c][1] /\ fifo[c][1] \in Desc /\ 1 \in 1..n
      /\ "OWNER" \notin ModeAt(c, 1)
      /\ desc[fifo[c][1]].next = IF n = 1 THEN NULL ELSE fifo[c][2]
  <2>1. ListShapeOf(c) /\ chan[c].head # NULL /\ \A i \in 1..n : fifo[c][i] \in Desc
    BY <1>2, <1>3, AtFacts DEF HeadCompleted
  <2>2. n > 0 /\ chan[c].head = fifo[c][1]
    BY <1>2, <2>1 DEF ListShapeOf
  <2>3. 1 \in 1..n
    BY <2>2
  <2>4. desc[fifo[c][1]].next = IF 1 = n THEN NULL ELSE fifo[c][1 + 1]
    BY <1>2, <2>1, <2>3 DEF ListShapeOf
  <2> QED BY <1>3, <2>1, <2>2, <2>3, <2>4 DEF HeadCompleted, ModeAt
<1>5. chan'[c].state = chan[c].state /\ chan'[c].sub = chan[c].sub /\ Linking(c)' = 0
  <2>1. chan'[c].state = chan[c].state /\ chan'[c].sub = chan[c].sub
    BY AtFacts DEF Process, Unlink, ChanRecord
  <2> QED BY <1>3, <2>1 DEF Linking
<1>6. \A e \in Chans \ {c} : Follows(e)'
  <2>1. ASSUME NEW e \in Chans \ {c} PROVE SameChannel(e)
    BY <1>3, AtFacts DEF SameChannel
  <2> QED BY <1>3, <2>1, SameFollows
<1>7. /\ \A i \in k..n : ModeAt(c, i) = {"OWNER"}
      /\ \A i \in 1..(k - 1) :
           ModeAt(c, i) = IF i = k - 1 /\ hw[c].hdp = NULL THEN {"EOQ"} ELSE {}
      /\ k \in 1..(n + 1)
  BY <1>1, <1>2 DEF AtPosition
<1>8. k > 1 /\ k - 1 \in 1..n /\ chan[c].state = "ACTIVE"
  <2>1. 1 \notin k..n
    BY <1>4, <1>7
  <2>2. k > 1
    BY <1>4, <1>7, <2>1
  <2> QED BY <1>1, <1>7, <2>2 DEF AtPosition, TrafficInv, Follows
<1>9. /\ Len(fifo'[c]) = n - 1
      /\ \A i \in 1..(n - 1) : fifo'[c][i] = fifo[c][i + 1]
  <2>1. fifo'[c] = Tail(fifo[c]) /\ fifo[c] \in Seq(Desc)
    BY <1>3, AtFacts
  <2> QED BY <1>2, <1>4, <2>1, TailElements
<1>10. \A i \in 1..(n - 1) : ModeAt(c, i)' = ModeAt(c, i + 1)
  BY <1>3, <1>9 DEF ModeAt
<1>11. \A i \in (k - 1)..(n - 1) : ModeAt(c, i)' = {"OWNER"}
  <2>1. \A i \in (k - 1)..(n - 1) : i \in 1..(n - 1) /\ i + 1 \in k..n
    BY <1>7, <1>8
  <2> QED BY <1>7, <1>10, <2>1
<1>12. \A i \in 1..(k - 2) :
         ModeAt(c, i)' = IF i = k - 2 /\ hw[c].hdp = NULL THEN {"EOQ"} ELSE {}
  <2>1. \A i \in 1..(k - 2) : i \in 1..(n - 1) /\ i + 1 \in 1..(k - 1) /\ (i = k - 2 <=> i + 1 = k - 1)
    BY <1>7, <1>8
  <2> QED BY <1>7, <1>10, <2>1
<1>13. ASSUME AtPosition(c, k - 1)' PROVE Follows(c)'
  <2>1. k - 1 \in 1..(Len(fifo'[c]) + 1)
    BY <1>7, <1>8, <1>9
  <2>2. chan'[c].sub # "alloc"
    BY <1>3, <1>5 DEF Locked
  <2> QED BY <1>3, <1>5, <1>13, <2>1, <2>2 DEF Follows, TrafficInv
<1>14. hw[c] \in HwRecord /\ hw'[c] = IF Requeue(desc[fifo[c][1]])
                                     THEN StartedOn([hw[c] EXCEPT !.cpTd = FALSE], desc[fifo[c][1]].next)
                                     ELSE [hw[c] EXCEPT !.cpTd = FALSE]
  BY <1>4, AtFacts DEF Process
<1>15. hw'[c].rxfree = hw[c].rxfree /\ (c \in RxChans => hw'[c].rxfree = n + 1 - k)
  <2>1. hw'[c].rxfree = hw[c].rxfree
    BY <1>14 DEF StartedOn, HwRecord
  <2> QED BY <1>1, <1>2, <1>3, <1>7, <1>8, <2>1 DEF AtPosition
<1>16. CASE Requeue(desc[fifo[c][1]])
  <2>1. "EOQ" \in ModeAt(c, 1) /\ n > 1 /\ desc[fifo[c][1]].next = fifo[c][2]
    BY <1>4, <1>16 DEF Requeue, ModeAt
  <2>2. k = 2 /\ hw[c].hdp = NULL
    BY <1>7, <1>8, <2>1
  <2>3. hw'[c].hdp = fifo[c][2] /\ hw'[c].latch = Unread
    BY <1>14, <1>16, <2>1 DEF StartedOn, HwRecord
  <2>4. fifo'[c][1] = fifo[c][2] /\ fifo[c][2] # NULL
    <3>1. 1 \in 1..(n - 1) /\ 2 \in 1..n /\ 1 + 1 = 2
      BY <2>1
    <3> QED BY <1>2, <1>9, <3>1, AtFacts, NonNull
  <2>5. AtPosition(c, k - 1)'
    BY <1>5, <1>7, <1>8, <1>9, <1>11, <1>15, <2>1, <2>2, <2>3, <2>4 DEF AtPosition
  <2> QED BY <1>6, <1>13, <2>5
<1>17. CASE ~Requeue(desc[fifo[c][1]])
  <2>1. hw'[c].hdp = hw[c].hdp /\ hw'[c].latch = hw[c].latch
    BY <1>14, <1>17 DEF HwRecord
  <2>2. ASSUME hw[c].hdp # NULL
        PROVE  /\ k - 1 <= n - 1 /\ hw[c].hdp = fifo'[c][k - 1]
               /\ hw[c].latch \in {Unread, NULL, desc'[hw[c].hdp].next}
    <3>1. /\ k <= n /\ hw[c].hdp = fifo[c][k]
          /\ hw[c].latch \in {Unread, NULL, desc[hw[c].hdp].next}
      BY <1>1, <1>2, <2>2 DEF AtPosition
    <3>2. k - 1 \in 1..(n - 1) /\ (k - 1) + 1 = k
      BY <1>7, <1>8, <3>1
    <3> QED BY <1>3, <1>9, <3>1, <3>2
  <2>3. hw[c].hdp = NULL => hw[c].latch = Unread
    BY <1>1 DEF AtPosition
  <2>4. ASSUME hw[c].hdp = NULL, k - 1 <= n - 1 PROVE k - 1 > 1
    <3>1. CASE k = 2
      <4>1. "EOQ" \in ModeAt(c, 1) /\ n > 1
        BY <1>7, <1>8, <2>4, <3>1
      <4>2. 2 \in 1..n
        BY <4>1
      <4>3. fifo[c][2] # NULL
        BY <1>2, <4>2, AtFacts, NonNull
      <4> QED BY <1>4, <1>17, <4>1, <4>3 DEF Requeue, ModeAt
    <3>2. CASE k # 2
      BY <1>7, <1>8, <3>2
    <3> QED BY <3>1, <3>2
  <2>5. AtPosition(c, k - 1)'
    BY <1>5, <1>7, <1>8, <1>9, <1>11, <1>12, <1>15, <2>1, <2>2, <2>3, <2>4 DEF AtPosition
  <2> QED BY <1>6, <1>13, <2>5
<1> QED BY <1>16, <1>17

\* The DMA reads hw_next, and completes a descriptor.
LEMMA HwFollows ==
  ASSUME TrafficInv, NEW c \in Chans, HwFetch(c) \/ HwComplete(c)
  PROVE  \A e \in Chans : Follows(e)'
<1>1. PICK k \in 1..(Len(fifo[c]) + 1) : AtPosition(c, k)
  BY AtFacts
<1>2. PICK n \in Nat : n = Len(fifo[c])
  BY AtFacts
<1>3. /\ ctlrState' = ctlrState /\ chan' = chan /\ fifo' = fifo /\ hw[c].hdp # NULL
      /\ \A e \in Chans \ {c} : hw'[e] = hw[e]
      /\ Linking(c)' = Linking(c)
  BY AtFacts DEF HwFetch, HwComplete, HwStep, Linking
<1>4. PICK d \in Desc : /\ d = hw[c].hdp /\ k \in 1..n /\ d = fifo[c][k] /\ d \in Attached(c)
                       /\ hw[c].latch \in {Unread, NULL, desc[d].next}
  <2>1. k \in 1..n /\ hw[c].hdp = fifo[c][k]
        /\ hw[c].latch \in {Unread, NULL, desc[hw[c].hdp].next}
    BY <1>1, <1>2, <1>3 DEF AtPosition
  <2> QED BY <1>2, <2>1, AtFacts
<1>5. chan[c].state = "ACTIVE" /\ hw[c] \in HwRecord
  BY <1>1, <1>3, AtFacts DEF AtPosition, HwReset
<1>6. \A f \in Desc : desc'[f].next = desc[f].next /\ (f # d => desc'[f].mode = desc[f].mode)
  <2>1. CASE HwFetch(c)
    BY <2>1 DEF HwFetch
  <2>2. CASE HwComplete(c)
    BY <1>4, <2>2, AtFacts, ZenonT(40) DEF HwComplete, DescRecord
  <2> QED BY <2>1, <2>2
<1>7. \A e \in Chans \ {c} : Follows(e)'
  <2>1. ASSUME NEW e \in Chans \ {c} PROVE SameChannel(e)
    <3>1. \A f \in Attached(e) : f \in Desc /\ f # d
      <4>1. \A f \in Attached(e) : f \in Desc
        BY AtFacts DEF Attached, Building, Elements
      <4>2. d \notin Attached(e)
        BY <1>4, Apart DEF TrafficInv
      <4> QED BY <4>1, <4>2
    <3> QED BY <1>3, <1>6, <3>1 DEF SameChannel
  <2> QED BY <1>3, <2>1, SameFollows
<1>8. /\ \A i \in k..n : ModeAt(c, i) = {"OWNER"}
      /\ \A i \in 1..(k - 1) : ModeAt(c, i) = {}
      /\ c \in RxChans => hw[c].rxfree = n + 1 - k - Linking(c)
  BY <1>1, <1>2, <1>3, <1>5 DEF AtPosition
<1>9. \A i \in 1..n : fifo[c][i] \in Desc /\ (i # k => fifo[c][i] # d)
  BY <1>2, <1>4, AtFacts
<1>10. \A i \in 1..n : i # k => ModeAt(c, i)' = ModeAt(c, i)
  BY <1>3, <1>6, <1>9 DEF ModeAt
<1>11. ASSUME NEW m \in 1..(n + 1), AtPosition(c, m)' PROVE Follows(c)'
  <2>1. chan[c].sub = "alloc" => chan[c].new \in Desc /\ chan[c].new # d
    BY <1>2, <1>4, AtFacts
  <2>2. chan[c].sub = "alloc" => desc'[chan[c].new].mode = {"OWNER"}
    BY <1>6, <2>1 DEF TrafficInv, Follows
  <2> QED BY <1>2, <1>3, <1>11, <2>2 DEF Follows, TrafficInv
<1>12. CASE HwFetch(c)
  <2>1. desc' = desc /\ hw' = [hw EXCEPT ![c].latch = desc[d].next]
    BY <1>4, <1>12 DEF HwFetch
  <2>2. hw'[c].hdp = d /\ hw'[c].latch = desc'[d].next /\ hw'[c].rxfree = hw[c].rxfree
    BY <1>4, <1>5, <2>1, AtFacts DEF HwRecord
  <2>3. \A i \in 1..n : ModeAt(c, i)' = ModeAt(c, i)
    BY <1>3, <2>1 DEF ModeAt
  <2>4. AtPosition(c, k)'
    BY <1>2, <1>3, <1>4, <1>5, <1>8, <2>2, <2>3 DEF AtPosition
  <2> QED BY <1>4, <1>7, <1>11, <2>4
<1>13. CASE HwComplete(c)
  <2> DEFINE next == hw[c].latch
  <2>1. /\ desc' = [desc EXCEPT ![d].mode = (@ \ {"OWNER"}) \cup (IF next = NULL THEN {"EOQ"} ELSE {})]
        /\ hw' = [hw EXCEPT ![c] = WithCredit(c, StartedOn(@, next), @.rxfree - 1)]
        /\ next \in {NULL, desc[d].next}
    BY <1>4, <1>13 DEF HwComplete
  <2>2. ModeAt(c, k)' = IF next = NULL THEN {"EOQ"} ELSE {}
    <3>1. desc[d].mode = {"OWNER"}
      BY <1>4, <1>8 DEF ModeAt
    <3>2. desc'[d].mode = IF next = NULL THEN {"EOQ"} ELSE {}
      BY <1>4, <2>1, <3>1, AtFacts DEF DescRecord
    <3> QED BY <1>3, <1>4, <3>2 DEF ModeAt
  <2>3. /\ hw'[c].hdp = next /\ hw'[c].latch = Unread
        /\ c \in RxChans => hw'[c].rxfree = hw[c].rxfree - 1
    BY <1>5, <2>1, AtFacts DEF WithCredit, StartedOn, HwRecord
  <2>4. next # NULL => k + 1 <= n /\ next = fifo'[c][k + 1]
    <3>1. desc[fifo[c][k]].next = IF k = n THEN NULL ELSE fifo[c][k + 1]
      BY <1>2, <1>4, AtFacts DEF ListShapeOf
    <3> QED BY <1>3, <1>4, <2>1, <3>1
  <2>5. \A i \in (k + 1)..n : ModeAt(c, i)' = {"OWNER"}
    <3>1. \A i \in (k + 1)..n : i \in 1..n /\ i # k /\ i \in k..n
      BY <1>4
    <3> QED BY <1>8, <1>10, <3>1
  <2>6. \A i \in 1..k : ModeAt(c, i)' = IF i = k /\ next = NULL THEN {"EOQ"} ELSE {}
    <3>1. \A i \in 1..k : i # k => i \in 1..(k - 1) /\ i \in 1..n
      BY <1>4
    <3> QED BY <1>8, <1>10, <2>2, <3>1
  <2>7. c \in RxChans => hw'[c].rxfree = n + 1 - (k + 1) - Linking(c)
    BY <1>4, <1>8, <2>3 DEF Linking
  <2>8. k + 1 \in 1..(n + 1) /\ (k + 1) - 1 = k /\ k + 1 > 1
    BY <1>4
  <2> HIDE DEF next
  <2>9. AtPosition(c, k + 1)'
    BY <1>2, <1>3, <1>5, <2>3, <2>4, <2>5, <2>6, <2>7, <2>8 DEF AtPosition
  <2> QED BY <1>7, <1>11, <2>8, <2>9
<1> QED BY <1>12, <1>13

\* cpdma_chan_on: the DMA starts on the list that was filled before.
LEMMA ChanOnFollows ==
  ASSUME TrafficInv, NEW c \in Chans, CtlrChanOn(c)
  PROVE  \A e \in Chans : Follows(e)'
<1>1. PICK k \in 1..(Len(fifo[c]) + 1) : AtPosition(c, k)
  BY AtFacts
<1>2. PICK n \in Nat : n = Len(fifo[c])
  BY AtFacts
<1>3. /\ ctlrState' = ctlrState /\ desc' = desc /\ fifo' = fifo /\ Linking(c) = 0 /\ TurnOn(c)
      /\ \A e \in Chans \ {c} : chan'[e] = chan[e] /\ hw'[e] = hw[e]
  BY AtFacts DEF CtlrChanOn, TurnOn
<1>4. \A e \in Chans \ {c} : Follows(e)'
  <2>1. ASSUME NEW e \in Chans \ {c} PROVE SameChannel(e)
    BY <1>3, AtFacts DEF SameChannel
  <2> QED BY <1>3, <2>1, SameFollows
<1>5. CASE ~(chan[c].state = "IDLE" /\ ctlrState = "ACTIVE")
  <2>1. SameChannel(c)
    BY <1>3, <1>5 DEF SameChannel, TurnOn
  <2> QED BY <1>3, <1>4, <2>1, SameFollows
<1>6. CASE chan[c].state = "IDLE" /\ ctlrState = "ACTIVE"
  <2>1. /\ chan'[c].state = "ACTIVE" /\ chan'[c].sub = chan[c].sub /\ chan'[c].new = chan[c].new
    <3>1. chan' = [chan EXCEPT ![c].state = "ACTIVE", ![c].inten = TRUE]
      BY <1>3, <1>6 DEF TurnOn
    <3>2. chan \in [Chans -> ChanRecord] /\ chan[c] \in ChanRecord
      BY AtFacts
    <3> QED BY <3>1, <3>2 DEF ChanRecord
  <2>2. /\ k = 1 /\ hw[c] = HwReset /\ \A i \in 1..n : ModeAt(c, i) = {"OWNER"}
    BY <1>1, <1>2, <1>6 DEF AtPosition
  <2>3. /\ chan[c].head = IF n = 0 THEN NULL ELSE fifo[c][1]
        /\ chan[c].count = n
        /\ n > 0 => fifo[c][1] \in Desc
    BY <1>2, <1>3, AtFacts DEF ListShapeOf
  <2>4. Linking(c)' = 0
    BY <1>3, <2>1 DEF Linking
  <2>5. /\ hw'[c].hdp = chan[c].head /\ hw'[c].latch = Unread
        /\ c \in RxChans => hw'[c].rxfree = n
    <3>1. CASE n = 0
      <4>1. hw' = hw /\ chan[c].head = NULL
        BY <1>3, <1>6, <2>3, <3>1 DEF TurnOn
      <4> QED BY <2>2, <3>1, <4>1 DEF HwReset
    <3>2. CASE n # 0
      <4>1. hw' = [hw EXCEPT ![c] = WithCredit(c, StartedOn(@, chan[c].head), n)]
        BY <1>2, <1>3, <1>6, <2>3, <3>2, NonNull DEF TurnOn
      <4> QED BY <4>1, AtFacts DEF WithCredit, StartedOn, HwRecord
    <3> QED BY <3>1, <3>2
  <2>6. \A i \in 1..n : ModeAt(c, i)' = {"OWNER"}
    BY <1>3, <2>2 DEF ModeAt
  <2>7. AtPosition(c, 1)'
    BY <1>2, <1>3, <2>1, <2>3, <2>4, <2>5, <2>6, NonNull DEF AtPosition
  <2>8. chan[c].sub = "alloc" => desc[chan[c].new].mode = {"OWNER"}
    BY DEF TrafficInv, Follows
  <2>9. 1 \in 1..(Len(fifo'[c]) + 1)
    BY <1>2, <1>3
  <2>10. Follows(c)'
    BY <1>3, <1>6, <2>1, <2>7, <2>8, <2>9 DEF Follows
  <2> QED BY <1>4, <2>10
<1> QED BY <1>5, <1>6

\* The controller starts: every channel is idle.
LEMMA CtlrStartFollows ==
  ASSUME TrafficInv, CtlrStart
  PROVE  \A e \in Chans : Follows(e)'
<1> SUFFICES ASSUME NEW e \in Chans PROVE Follows(e)'
  OBVIOUS
<1>1. ctlrState = "IDLE" /\ ctlrState' = "ACTIVE" /\ UNCHANGED <<desc, fifo>>
  BY DEF CtlrStart
<1>2. chan[e].state = "IDLE" /\ hw[e] = HwReset
  BY <1>1, AtFacts DEF TrafficInv, Follows, AtPosition
<1>3. hw'[e] = HwReset
  BY DEF CtlrStart
<1>4. chan'[e].state = chan[e].state /\ chan'[e].sub = chan[e].sub /\ chan'[e].new = chan[e].new
  BY AtFacts DEF CtlrStart, ChanRecord
<1>5. SameChannel(e)
  BY <1>1, <1>2, <1>3, <1>4 DEF SameChannel
<1> QED BY <1>1, <1>5, SameFollows

\* What moves only contexts, the pool, tokens or interrupt masks.
LEMMA RestFollows ==
  ASSUME TrafficInv, UNCHANGED <<ctlrState, desc, hw, fifo>>,
         \A e \in Chans : /\ chan'[e].state = chan[e].state /\ chan'[e].sub = chan[e].sub
                          /\ chan'[e].new = chan[e].new
  PROVE  \A e \in Chans : Follows(e)'
<1> SUFFICES ASSUME NEW e \in Chans PROVE Follows(e)'
  OBVIOUS
<1>1. SameChannel(e)
  BY DEF SameChannel
<1> QED BY <1>1, SameFollows

\* Every list is empty and no DMA runs.
LEMMA InitTrafficInv == ASSUME Init PROVE TrafficInv
<1>1. ASSUME NEW c \in Chans PROVE Follows(c)
  <2>1. /\ fifo[c] = <<>> /\ hw[c] = HwReset /\ chan[c].state = "IDLE" /\ chan[c].sub = "none"
        /\ hw[c].hdp = NULL /\ hw[c].latch = Unread
    BY DEF Init, HwReset
  <2>2. Len(fifo[c]) = 0
    BY <2>1
  <2>3. AtPosition(c, 1) /\ 1 \in 1..(Len(fifo[c]) + 1)
    BY <2>1, <2>2 DEF AtPosition
  <2> QED BY <2>1, <2>3 DEF Follows
<1> QED BY <1>1, InitIInv DEF TrafficInv, Init

\* Every step without teardowns leaves the DMA at a position of its list.
LEMMA NextTrafficInv == ASSUME TrafficInv, [TrafficNext]_vars PROVE TrafficInv'
<1> DEFINE Goal == \A e \in Chans : Follows(e)'
<1>1. IInv'
  BY NextIInv DEF TrafficInv, Next
<1>2. ctlrState' \in {"IDLE", "ACTIVE"}
  <2>1. ctlrState' \in {ctlrState, "ACTIVE"}
    BY ZenonT(40) DEF TrafficNext, Submit, IdleSubmit, Allocate, SubmitSteps, MapFails,
           SubmitFirst, Chain, FinishChain, HwTransfer, HwFetch, HwComplete, HwStep, PollSteps, PollProcess, PollEnd,
           Process, Free, Call, LocalStep, IntCtrlSteps, IntOnEnd, ChanIntCtrl, PollStart,
           CtlrStart, OpenSteps, CtlrStartEnd, CtlrChanOn, vars
  <2> QED BY <2>1 DEF TrafficInv
<1> SUFFICES Goal
  BY <1>1, <1>2 DEF TrafficInv
<1>3. CASE UNCHANGED vars
  BY <1>3, RestFollows DEF vars
<1>4. ASSUME NEW c \in Chans, Submit(c) \/ IdleSubmit(c) \/ SubmitSteps(c) \/ HwTransfer(c)
      PROVE  Goal
  BY <1>4, AllocateFollows, SubmitFirstFollows, ChainFollows, FinishChainFollows, HwFollows
     DEF Submit, IdleSubmit, SubmitSteps, HwTransfer
<1>5. ASSUME NEW x \in Contexts, PollSteps(x) PROVE Goal
  <2>1. CASE PollProcess(x)
    <3>1. ctx[x].ch \in Chans
      BY <2>1 DEF PollProcess, TrafficInv, IInv, CtxInv, Holds
    <3> QED BY <2>1, <3>1, ProcessFollows DEF PollProcess
  <2>2. CASE PollEnd(x) \/ Free(x) \/ Call(x)
    BY <2>2, RestFollows DEF PollEnd, Free, Call, LocalStep
  <2> QED BY <1>5, <2>1, <2>2 DEF PollSteps
<1>6. ASSUME NEW x \in Contexts, IntCtrlSteps(x) PROVE Goal
  <2>1. CASE IntOnEnd(x)
    BY <2>1, RestFollows DEF IntOnEnd, LocalStep
  <2>2. ASSUME NEW c \in Chans, ChanIntCtrl(x, c) PROVE Goal
    <3>1. \A e \in Chans : /\ chan'[e].state = chan[e].state /\ chan'[e].sub = chan[e].sub
                           /\ chan'[e].new = chan[e].new
      BY <2>2, AtFacts DEF ChanIntCtrl, ChanRecord
    <3> QED BY <2>2, <3>1, RestFollows DEF ChanIntCtrl
  <2> QED BY <1>6, <2>1, <2>2 DEF IntCtrlSteps
<1>7. ASSUME NEW x \in Pollers, NEW c \in Chans, PollStart(x, c) PROVE Goal
  BY <1>7, RestFollows DEF PollStart, LocalStep
<1>8. CASE CtlrStart
  BY <1>8, CtlrStartFollows
<1>9. CASE OpenSteps
  BY <1>9, ChanOnFollows, RestFollows DEF OpenSteps, CtlrStartEnd, LocalStep
<1> QED BY <1>3, <1>4, <1>5, <1>6, <1>7, <1>8, <1>9 DEF TrafficNext

\* Without teardowns, in every reachable state each DMA is at a position of its list.
THEOREM TrafficInvariance == TrafficSpec => []TrafficInv
<1>1. Init => TrafficInv
  BY InitTrafficInv
<1>2. TrafficInv /\ [TrafficNext]_vars => TrafficInv'
  BY NextTrafficInv
<1> QED BY <1>1, <1>2, PTL DEF TrafficSpec

\* The hardware owns the list from its position on.
LEMMA OwnedFrom ==
  ASSUME TrafficInv, NEW c \in Chans
  PROVE  \E k \in 1..(Len(fifo[c]) + 1) : AtPosition(c, k) /\ Owned(c) = k..Len(fifo[c])
<1>1. PICK k \in 1..(Len(fifo[c]) + 1) : AtPosition(c, k)
  BY AtFacts
<1>2. PICK n \in Nat : n = Len(fifo[c])
  BY AtFacts
<1>3. ASSUME NEW i \in 1..n PROVE "OWNER" \in desc[fifo[c][i]].mode <=> i \in k..n
  <2>1. i \in k..n \/ i \in 1..(k - 1)
    BY <1>1, <1>2
  <2>2. i \in k..n => "OWNER" \in desc[fifo[c][i]].mode
    BY <1>1, <1>2 DEF AtPosition, ModeAt
  <2>3. i \in 1..(k - 1) => "OWNER" \notin desc[fifo[c][i]].mode
    BY <1>1, <1>2 DEF AtPosition, ModeAt
  <2> QED BY <1>1, <1>2, <2>1, <2>2, <2>3
<1>4. Owned(c) = k..n
  BY <1>1, <1>2, <1>3 DEF Owned
<1> QED BY <1>1, <1>2, <1>4

\* Without teardowns, the DMA works on the first descriptor it owns, and owns what follows:
\* neither the submitter nor the reclaimer ever writes HDP while the DMA is running.
THEOREM HardwareFollowsLists == TrafficSpec => []HwFollowsList
<1>1. TrafficInv => HwFollowsList
  <2> SUFFICES ASSUME TrafficInv, NEW c \in Chans
               PROVE  /\ \A i \in Owned(c) : i..Len(fifo[c]) \subseteq Owned(c)
                      /\ hw[c].hdp # NULL =>
                           \E i \in Owned(c) : hw[c].hdp = fifo[c][i] /\ i - 1 \notin Owned(c)
    BY DEF HwFollowsList
  <2>1. PICK k \in 1..(Len(fifo[c]) + 1) : AtPosition(c, k) /\ Owned(c) = k..Len(fifo[c])
    BY OwnedFrom
  <2>2. PICK n \in Nat : n = Len(fifo[c])
    BY AtFacts
  <2>3. \A i \in Owned(c) : i..n \subseteq Owned(c)
    BY <2>1, <2>2
  <2>4. hw[c].hdp # NULL => k \in Owned(c) /\ hw[c].hdp = fifo[c][k] /\ k - 1 \notin Owned(c)
    BY <2>1, <2>2 DEF AtPosition
  <2> QED BY <2>2, <2>3, <2>4
<1> QED BY <1>1, TrafficInvariance, PTL

\* Without teardowns, an idle DMA with work queued has someone who will restart it.
THEOREM DmaIsRestarted == TrafficSpec => []NotStalled
<1>1. TrafficInv => NotStalled
  <2> SUFFICES ASSUME TrafficInv, NEW c \in Chans, chan[c].state = "ACTIVE", hw[c].hdp = NULL,
                      NEW i \in Owned(c)
               PROVE  \E j \in 1..(i - 1) : desc[fifo[c][j]].mode = {"EOQ"}
    BY DEF NotStalled
  <2>1. PICK k \in 1..(Len(fifo[c]) + 1) : AtPosition(c, k) /\ Owned(c) = k..Len(fifo[c])
    BY OwnedFrom
  <2>2. PICK n \in Nat : n = Len(fifo[c])
    BY AtFacts
  <2>3. i \in k..n /\ k > 1
    BY <2>1, <2>2 DEF AtPosition
  <2>4. k - 1 \in 1..(k - 1) /\ k - 1 \in 1..(i - 1)
    BY <2>2, <2>3
  <2>5. ModeAt(c, k - 1) = {"EOQ"}
    BY <2>1, <2>4 DEF AtPosition
  <2> QED BY <2>4, <2>5 DEF ModeAt
<1> QED BY <1>1, TrafficInvariance, PTL

\* Without teardowns, the free-buffer credit of an active RX channel is the number of its
\* counted buffers that the hardware has not filled.
THEOREM CreditIsExact == TrafficSpec => []CreditMatches
<1>1. TrafficInv => CreditMatches
  <2> SUFFICES ASSUME TrafficInv, NEW c \in RxChans, chan[c].state = "ACTIVE"
               PROVE  hw[c].rxfree = Cardinality(Owned(c)) - Linking(c)
    BY DEF CreditMatches
  <2>1. c \in Chans
    BY DEF Chans
  <2>2. PICK k \in 1..(Len(fifo[c]) + 1) : AtPosition(c, k) /\ Owned(c) = k..Len(fifo[c])
    BY <2>1, OwnedFrom
  <2>3. PICK n \in Nat : n = Len(fifo[c])
    BY <2>1, AtFacts
  <2>4. hw[c].rxfree = n + 1 - k - Linking(c) /\ k \in 1..(n + 1)
    BY <2>2, <2>3 DEF AtPosition
  <2>5. Cardinality(k..n) = n + 1 - k
    <3>1. k \in Int /\ n \in Int /\ k <= n + 1
      BY <2>3, <2>4
    <3>2. Cardinality(k..n) = IF k > n THEN 0 ELSE n - k + 1
      BY <3>1, FS_Interval
    <3> QED BY <3>1, <3>2
  <2>6. Owned(c) = k..n
    BY <2>2, <2>3
  <2>7. Cardinality(Owned(c)) = n + 1 - k
    BY <2>5, <2>6
  <2>8. k \in Int /\ n \in Int /\ Linking(c) \in Int
    BY <2>3, <2>4 DEF Linking
  <2>9. n + 1 - k - Linking(c) = Cardinality(Owned(c)) - Linking(c)
    BY <2>7, <2>8
  <2> QED BY <2>4, <2>9
<1> QED BY <1>1, TrafficInvariance, PTL
=============================================================================
